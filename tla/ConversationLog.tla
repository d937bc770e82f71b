--------------------------- MODULE ConversationLog ---------------------------
(***************************************************************************)
(* What sending promises to the clients of the message service: every      *)
(* conversation is one append-only log, a send key                         *)
(* (sender_id, conversation_id, local_id) occupies at most one position of *)
(* it, and every acknowledgement of a key names that position.             *)
(*                                                                         *)
(* MessageSend implements this specification.                              *)
(***************************************************************************)
EXTENDS Naturals, Sequences

CONSTANTS Key,       \* send keys: (sender, conversation, local_id)
          Conv,      \* conversations
          ConvOf     \* the conversation a key sends to

VARIABLES log,       \* log[c]: the keys of conversation c, in sequence order
          acked      \* acknowledgements given: <<key, position>>

logVars == <<log, acked>>

LogInit ==
    /\ log = [c \in Conv |-> <<>>]
    /\ acked = {}

\* The key takes the next position of its conversation, once.
LogAppend(k) ==
    /\ \A n \in 1..Len(log[ConvOf[k]]) : log[ConvOf[k]][n] # k
    /\ log' = [log EXCEPT ![ConvOf[k]] = Append(@, k)]
    /\ UNCHANGED acked

\* An answer to the client names the position the key has.
LogAck(k, n) ==
    /\ n \in 1..Len(log[ConvOf[k]])
    /\ log[ConvOf[k]][n] = k
    /\ acked' = acked \cup {<<k, n>>}
    /\ UNCHANGED log

LogNext ==
    \/ \E k \in Key : LogAppend(k)
    \/ \E k \in Key : \E n \in 1..Len(log[ConvOf[k]]) : LogAck(k, n)

LogSpec == LogInit /\ [][LogNext]_logVars
=============================================================================
