---------------------------- MODULE MCUserSession ----------------------------
(* A user's devices, of two types. *)
EXTENDS UserSession, TLC

\* Calls, devices and types are interchangeable.
Symmetry == Permutations(Call) \cup Permutations(Device) \cup Permutations(Type)
=============================================================================
