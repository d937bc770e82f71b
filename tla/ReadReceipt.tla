----------------------------- MODULE ReadReceipt -----------------------------
(***************************************************************************)
(* The read position (message_read_receipts.last_read_seq) of one user in  *)
(* one conversation, moved by MarkAsRead and MarkMessagesRead.             *)
(*                                                                         *)
(* Both read the row, compute the new position in the service and write it *)
(* back with an unconditional upsert, in separate statements and without a *)
(* transaction, so the calls of the user's devices interleave between the  *)
(* read and the write.  Meanwhile messages are sent to the conversation    *)
(* and recalled, deleted or expired.                                       *)
(***************************************************************************)
EXTENDS Integers, FiniteSets

CONSTANTS ReceiptCall,      \* calls in flight, from the user's devices
          ClientSeq,        \* what clients may send as last_read_seq
          NoRow,            \* the user has no row yet
          MaxSeq,           \* bound: how many messages are sent
          MaxReceiptCalls   \* bound: how many calls are made

ASSUME ReceiptAssumption ==
    /\ ClientSeq \subseteq Int
    /\ NoRow \notin Int
    /\ MaxSeq \in Nat
    /\ MaxReceiptCalls \in Nat

VARIABLES
    curSeq,    \* conversation_sequences.current_seq
    normal,    \* sequences of the messages whose status is normal
    lastRead,  \* last_read_seq of the row, or NoRow
    rpc,       \* where each call is
    ids,       \* message_ids of the request, as sequences
    want,      \* the position the call asks for
    effective, \* effectiveReadSeq: the position the call will write
    rmade,     \* calls made so far
    \* history
    asked,     \* the last_read_seq of all MarkAsRead requests
    settled    \* lastRead when no call was between its read and its write

receiptVars == <<curSeq, normal, lastRead, rpc, ids, want, effective, rmade, asked, settled>>
log  == <<curSeq, normal>>

ReceiptPC == {"idle", "filter", "compare", "read", "upsert", "answer"}

ReceiptTypeOK ==
    /\ curSeq \in 0..MaxSeq
    /\ normal \subseteq 1..curSeq
    /\ lastRead \in Int \cup {NoRow}
    /\ rpc \in [ReceiptCall -> ReceiptPC]
    /\ ids \in [ReceiptCall -> SUBSET (1..MaxSeq)]
    /\ want \in [ReceiptCall -> Int]
    /\ effective \in [ReceiptCall -> Int]
    /\ rmade \in 0..MaxReceiptCalls
    /\ asked \subseteq ClientSeq
    /\ settled \in Int \cup {NoRow}

ReceiptInit ==
    /\ curSeq = 0
    /\ normal = {}
    /\ lastRead = NoRow
    /\ rpc = [c \in ReceiptCall |-> "idle"]
    /\ ids = [c \in ReceiptCall |-> {}]
    /\ want = [c \in ReceiptCall |-> 0]
    /\ effective = [c \in ReceiptCall |-> 0]
    /\ rmade = 0
    /\ asked = {}
    /\ settled = NoRow

ReceiptGoto(c, from, to) == rpc[c] = from /\ rpc' = [rpc EXCEPT ![c] = to]

\* Observes the position whenever no call is about to write one it has computed.
Observe ==
    settled' = IF \A c \in ReceiptCall : rpc'[c] # "upsert" THEN lastRead' ELSE settled

\* The call is over and forgets its request.
ReceiptEnds(c) ==
    /\ rpc' = [rpc EXCEPT ![c] = "idle"]
    /\ ids' = [ids EXCEPT ![c] = {}]
    /\ want' = [want EXCEPT ![c] = 0]
    /\ effective' = [effective EXCEPT ![c] = 0]
    /\ UNCHANGED <<log, lastRead, rmade, asked>>

-----------------------------------------------------------------------------
\* A message is sent; a message is recalled, deleted or expires.
Send ==
    /\ curSeq < MaxSeq
    /\ curSeq' = curSeq + 1
    /\ normal' = normal \cup {curSeq + 1}
    /\ UNCHANGED <<lastRead, rpc, ids, want, effective, rmade, asked, settled>>

Remove(n) ==
    /\ n \in normal
    /\ normal' = normal \ {n}
    /\ UNCHANGED <<curSeq, lastRead, rpc, ids, want, effective, rmade, asked, settled>>

\* MarkAsRead with last_read_seq n: whatever the client sends, also a number
\* that is negative or that no message has yet; 0 if the request has none.
MarkAsRead(c, n) ==
    /\ rmade < MaxReceiptCalls
    /\ rmade' = rmade + 1
    /\ ReceiptGoto(c, "idle", "read")
    /\ want' = [want EXCEPT ![c] = n]
    /\ asked' = asked \cup ({n} \cap ClientSeq)
    /\ UNCHANGED <<log, lastRead, ids, effective, settled>>

\* MarkMessagesRead(message_ids): any ids, also unknown ones.
MarkMessagesRead(c, S) ==
    /\ rmade < MaxReceiptCalls
    /\ rmade' = rmade + 1
    /\ ReceiptGoto(c, "idle", "filter")
    /\ ids' = [ids EXCEPT ![c] = S]
    /\ UNCHANGED <<log, lastRead, want, effective, asked, settled>>

\* The call asks for the highest of the accepted sequences.
WantHighest(c, accepted) ==
    \E n \in accepted \cup {0} :
        /\ \A m \in accepted : m <= n
        /\ want' = [want EXCEPT ![c] = n]

\* Mutant: the ids are not restricted to messages of the conversation.
FilterNothing(c) ==
    /\ ReceiptGoto(c, "filter", IF ids[c] = {} THEN "answer" ELSE "compare")
    /\ WantHighest(c, ids[c])
    /\ UNCHANGED <<log, lastRead, ids, effective, rmade, asked, settled>>

\* The ids are restricted to the conversation's messages of status normal; the
\* call answers if there is none.
Filter(c) ==
    LET accepted == ids[c] \cap normal IN
    /\ ReceiptGoto(c, "filter", IF accepted = {} THEN "answer" ELSE "compare")
    /\ WantHighest(c, accepted)
    /\ UNCHANGED <<log, lastRead, ids, effective, rmade, asked, settled>>

\* It calls MarkAsRead only if that is ahead of the position it reads, which
\* is 0 without a row.
Compare(c) ==
    LET current == IF lastRead = NoRow THEN 0 ELSE lastRead IN
    /\ ReceiptGoto(c, "compare", IF want[c] > current THEN "read" ELSE "answer")
    /\ UNCHANGED <<log, lastRead, ids, want, effective, rmade, asked, settled>>

\* Mutant: the position read is not taken into account.
ReadReceiptNoMax(c) ==
    /\ ReceiptGoto(c, "read", "upsert")
    /\ effective' = [effective EXCEPT ![c] = want[c]]
    /\ UNCHANGED <<log, lastRead, ids, want, rmade, asked>>
    /\ Observe

\* GetByConversationAndUser, and the larger of the two positions if there is a row.
ReadReceipt(c) ==
    /\ ReceiptGoto(c, "read", "upsert")
    /\ effective' = [effective EXCEPT
          ![c] = IF lastRead # NoRow /\ lastRead > want[c] THEN lastRead ELSE want[c]]
    /\ UNCHANGED <<log, lastRead, ids, want, rmade, asked>>
    /\ Observe

\* Upsert assigns last_read_seq whatever the row holds by now.
Upsert(c) ==
    /\ ReceiptGoto(c, "upsert", "answer")
    /\ lastRead' = effective[c]
    /\ UNCHANGED <<log, ids, want, effective, rmade, asked>>
    /\ Observe

\* The answer.  In a single chat publishReadReceiptNotification panics on the
\* nil broker and the answer is an error; the row is the same.
Answer(c) ==
    /\ rpc[c] = "answer"
    /\ ReceiptEnds(c)
    /\ UNCHANGED settled

\* An error of the database or of GetConversation, a timeout or a crash.
ReceiptFails(c) ==
    /\ rpc[c] \notin {"idle", "answer"}
    /\ ReceiptEnds(c)
    /\ Observe

ReceiptNext ==
    \/ Send
    \/ \E n \in 1..MaxSeq : Remove(n)
    \/ \E c \in ReceiptCall :
         \/ \E n \in ClientSeq \cup {0} : MarkAsRead(c, n)
         \/ \E S \in SUBSET (1..MaxSeq) : MarkMessagesRead(c, S)
         \/ Filter(c) \/ Compare(c) \/ ReadReceipt(c) \/ Upsert(c)
         \/ Answer(c) \/ ReceiptFails(c)

ReceiptSpec == ReceiptInit /\ [][ReceiptNext]_receiptVars

-----------------------------------------------------------------------------
\* The service checks no last_read_seq against the conversation, so a position
\* may be ahead of the last message.  But then a client has named it: of its own
\* accord, from ids of other conversations, unknown ids and ids of messages that
\* are removed meanwhile, the service never derives a position that is not the
\* sequence of a message of the conversation.
PositionJustified == lastRead \in {NoRow, 0} \cup asked \cup 1..curSeq

\* Overlapping calls may undo each other, but never what was there before they
\* overlapped: the position does not fall below the one that held when no call
\* was between its read and its write, and the row does not go away.
SettledKept == settled # NoRow => lastRead # NoRow /\ lastRead >= settled
=============================================================================
