------------------------ MODULE MCGroupMembership ------------------------
(* Small instances of GroupMembership for TLC. *)
EXTENDS GroupMembership, TLC

\* The creator invites somebody, with or without listing herself.
MCMemberIds == (SUBSET User) \ {{}}

\* Everybody but the creator is interchangeable, and so are calls and requests.
Symmetric3 == Permutations(User \ {Creator}) \cup Permutations(Req)
                \cup Permutations(Call)
==========================================================================
