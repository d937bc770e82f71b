------------------------- MODULE MCMessageLifecycle -------------------------
(* Small instances of MessageLifecycle for TLC. *)
EXTENDS MessageLifecycle

CONSTANTS m1, m2, alice, bob

\* m1 has both policies and may burn before or after its auto-delete deadline, m2
\* burns only; alice sends both.
MCSender   == [m \in Msg |-> alice]
MCAutoDur  == [m \in Msg |-> IF m = m1 THEN 2 ELSE 0]
MCBurnSecs == [m \in Msg |-> 1]
=============================================================================
