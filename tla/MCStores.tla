------------------------------- MODULE MCStores -------------------------------
(***************************************************************************)
(* The tables that calls of one service read and write in separate steps:  *)
(* read positions, pinned messages, files, conversations, account rows and *)
(* group QR codes.  They share no state, so an interleaving of calls to    *)
(* several of them shows each no more than its own calls do: a behaviour   *)
(* exercises one of them, chosen at the start.                             *)
(***************************************************************************)
EXTENDS ReadReceipt, PinnedMessage, FileStore, ConversationView, AccountRows,
        GroupQRCode, TLC

\* A last_read_seq may be negative, that of a message, or ahead of all of them.
MCClientSeq == {-1, 1, 3}

VARIABLE store    \* the component whose calls this behaviour makes

\* The calls of a component differ in nothing but their names, and so do its users
\* or conversations, and its tokens or messages.  The instance gives all components
\* the same names, so that few permutations serve all of them.
Symmetric == Permutations(ReceiptCall) \cup Permutations(AccUser) \cup Permutations(Token)

storesVars == <<receiptVars, pinVars, fileVars, convVars, accVars, qrVars, store>>

\* Bounds of this instance.  Columns of a conversation are set alike and none is read
\* to set another: calls give one of them a value other than 0.
OneColumn ==
    \E k \in Column : \A i \in ConvId, j \in Column \ {k} :
        setting'[i][j] = 0 /\ view'[i][j] = 0

\* New users have the same nickname and one contact, and one code expires.
FewAccounts ==
    /\ \A u \in AccUser : ~Registered(u) =>
          /\ row'[u]["nickname"] \in {NoValue, Default}
          /\ NoValue \in {row'[u]["phone"], row'[u]["email"]}
    /\ Cardinality(qexpired') <= 1

StoresInit ==
    /\ ReceiptInit /\ PinInit /\ FileInit /\ ConvInit /\ AccInit /\ QRInit
    /\ store \in {"receipt", "pin", "file", "conversation", "account", "qrcode"}

StoresNext ==
    /\ UNCHANGED store
    /\ \/ /\ store = "receipt"
          /\ ReceiptNext
          /\ UNCHANGED <<pinVars, fileVars, convVars, accVars, qrVars>>
       \/ /\ store = "pin"
          /\ PinNext
          /\ UNCHANGED <<receiptVars, fileVars, convVars, accVars, qrVars>>
       \/ /\ store = "file"
          /\ FileNext
          /\ UNCHANGED <<receiptVars, pinVars, convVars, accVars, qrVars>>
       \/ /\ store = "conversation"
          /\ ConvNext /\ OneColumn
          /\ UNCHANGED <<receiptVars, pinVars, fileVars, accVars, qrVars>>
       \/ /\ store = "account"
          /\ AccNext /\ FewAccounts
          /\ UNCHANGED <<receiptVars, pinVars, fileVars, convVars, qrVars>>
       \/ /\ store = "qrcode"
          /\ QRNext
          /\ UNCHANGED <<receiptVars, pinVars, fileVars, convVars, accVars>>

StoresSpec == StoresInit /\ [][StoresNext]_storesVars
=============================================================================
