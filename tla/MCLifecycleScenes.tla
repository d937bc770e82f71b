-------------------------- MODULE MCLifecycleScenes --------------------------
(***************************************************************************)
(* Two small instances of MessageLifecycle in one.  In the first a single  *)
(* call at a time meets the worker and the clock on all messages; in the   *)
(* second calls overlap on one message and sweeps may fail.  Which scene a *)
(* behaviour plays, and on which message, is chosen at its start.          *)
(***************************************************************************)
EXTENDS MCMessageLifecycle

CONSTANT first    \* the call that is made in the first scene

VARIABLE scene    \* "worker", or the message on which calls overlap

ScenesInit == Init /\ scene \in {"worker"} \cup Msg

\* The sender's own reports, which change nothing, and the worker's errors are
\* left to the second scene.
WorkerScene ==
    /\ \A p \in Call \ {first} : pc'[p] = "idle"
    /\ \A m \in Msg : <<m, Sender[m]>> \notin reports'
    /\ errors' = 0

ScenesNext ==
    /\ Next
    /\ UNCHANGED scene
    /\ \/ scene = "worker" /\ WorkerScene
       \/ scene \in Msg /\ \A m \in Msg \ {scene} : status'[m] = "none"

\* The worker as in FairSpec: neither scene holds it up.
ScenesSpec ==
    /\ ScenesInit /\ [][ScenesNext]_<<vars, scene>>
    /\ WF_vars(WorkerStart) /\ WF_vars(Sweep)
=============================================================================
