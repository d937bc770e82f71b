---------------------------- MODULE MCMessageSend ----------------------------
(* Small instances of MessageSend for TLC. *)
EXTENDS MessageSend, TLC

\* Both keys send to the same conversation: they compete for its sequence row.
MCConvOf == [k \in Key |-> CHOOSE c \in Conv : TRUE]

\* Handlers are interchangeable, and so are message ids and keys.
Symmetric == Permutations(Handler) \cup Permutations(MsgId) \cup Permutations(Key)
=============================================================================
