----------------------------- MODULE GroupProofs -----------------------------
(***************************************************************************)
(* Proofs about a group: its members (GroupMembership), its pinned         *)
(* messages (PinnedMessage) and its QR codes (GroupQRCode), for any sets   *)
(* of users, requests, messages, codes and overlapping calls.              *)
(***************************************************************************)
EXTENDS GroupMembership, PinnedMessage, GroupQRCode, FiniteSetTheorems, TLAPS

-----------------------------------------------------------------------------
(* Members. *)

USE DEF Decision

\* What TypeOK says of the tables and the history.
TablesOK ==
    /\ role \in [User -> Role]
    /\ count \in Int
    /\ ownerId \in User
    /\ active \in BOOLEAN
    /\ joinVerify \in BOOLEAN
    /\ status \in [Req -> {"none", "pending", "accepted", "rejected"}]
    /\ userOf \in [Req -> User \cup {NoUser}]
    /\ surplus \in {0, 1}
    /\ opened \in BOOLEAN
    /\ admitted \subseteq User
    /\ vetted \subseteq admitted
    /\ \A r \in Req : status[r] # "none" => userOf[r] \in User

\* What TypeOK says of the variables of the calls.
CallsOK ==
    /\ pc \in [Call -> PC]
    /\ kind \in [Call -> Kind]
    /\ op \in [Call -> User \cup {NoUser}]
    /\ tgt \in [Call -> User \cup {NoUser}]
    /\ rq \in [Call -> Req \cup {NoReq}]
    /\ todo \in [Call -> SUBSET User]
    /\ opRole \in [Call -> Role]
    /\ full \in [Call -> BOOLEAN]
    /\ verify \in [Call -> BOOLEAN]
    /\ made \in 0..MaxCalls

\* Where a call of each kind can be.
Route(k, p) ==
    /\ p = "group" => k \in {"invite", "join", "scan"}
    /\ p \in {"isMember", "existing", "verify"} => k \in {"join", "scan"}
    /\ p = "operator" => k \notin {"none", "join", "scan"}
    /\ p = "target" => k \in {"remove", "setRole", "transfer"}
    /\ p \in {"settings", "invite"} => k = "invite"
    /\ p = "ownerCount" => k = "quit"
    /\ p \in {"add", "request"} => k \in {"invite", "join", "scan"}
    /\ p = "remove" => k \in {"remove", "quit"}
    /\ p = "setRole" => k = "setRole"
    /\ p = "transfer" => k = "transfer"
    /\ p = "disband" => k = "disband"
    /\ p = "updateSettings" => k = "settings"
    /\ p \in {"getRequest", "decide"} => k \in Decision

\* A call keeps to its route, and has the user or the request it is about.
CallOK(c) ==
    /\ Route(kind[c], pc[c])
    /\ pc[c] # "idle" => op[c] \in User
    /\ pc[c] # "idle" /\ kind[c] \notin {"invite"} \cup Decision => tgt[c] \in User
    /\ pc[c] \in {"add", "request"} => tgt[c] \in User
    /\ pc[c] # "idle" /\ kind[c] \in Decision =>
          rq[c] \in Req /\ status[rq[c]] # "none"

GroupInv == TablesOK /\ CallsOK /\ \A c \in Call : CallOK(c)

\* The type invariant follows.
LEMMA GroupTypes == GroupInv => TypeOK
  BY DEF GroupInv, TablesOK, CallsOK, CallOK, Route, TypeOK

\* GroupInv holds in the beginning.
LEMMA GroupInitInv == Init => GroupInv
<1> SUFFICES ASSUME Init PROVE GroupInv
  OBVIOUS
<1> USE GroupAssumption
<1>1. PICK ids \in MemberIds :
        /\ Cardinality(ids) + 1 <= MaxMembers
        /\ role = [u \in User |-> IF u = Creator THEN "owner"
                                  ELSE IF u \in ids THEN "member" ELSE "none"]
        /\ count = Cardinality(ids) + 1
        /\ surplus = IF Creator \in ids THEN 1 ELSE 0
        /\ admitted = ids \cup {Creator} /\ vetted = admitted
  BY DEF Init
<1>2. ids \subseteq User /\ Cardinality(ids) \in Nat
  <2>1. ids \in SUBSET User
    BY <1>1
  <2>2. IsFiniteSet(ids)
    BY <2>1, FS_Subset
  <2>3. QED
    BY <2>1, <2>2, FS_CardinalityType
<1>3. /\ role \in [User -> Role] /\ count \in Int /\ surplus \in {0, 1}
      /\ admitted \subseteq User /\ vetted \subseteq admitted
  BY <1>1, <1>2 DEF Role
<1>4. TablesOK
  <2>1. /\ ownerId = Creator /\ active = TRUE /\ joinVerify = TRUE /\ opened = FALSE
        /\ status = [r \in Req |-> "none"] /\ userOf = [r \in Req |-> NoUser]
    BY DEF Init
  <2>2. QED
    BY <1>3, <2>1 DEF TablesOK
<1>5. CallsOK
  <2>1. /\ pc = [c \in Call |-> "idle"] /\ kind = [c \in Call |-> "none"]
        /\ op = [c \in Call |-> NoUser] /\ tgt = [c \in Call |-> NoUser]
        /\ rq = [c \in Call |-> NoReq] /\ todo = [c \in Call |-> {}]
        /\ opRole = [c \in Call |-> "none"] /\ full = [c \in Call |-> FALSE]
        /\ verify = [c \in Call |-> TRUE] /\ made = 0
    BY DEF Init
  <2>2. pc \in [Call -> PC] /\ kind \in [Call -> Kind] /\ opRole \in [Call -> Role]
    BY <2>1 DEF PC, Kind, Role
  <2>3. /\ op \in [Call -> User \cup {NoUser}] /\ tgt \in [Call -> User \cup {NoUser}]
        /\ rq \in [Call -> Req \cup {NoReq}] /\ todo \in [Call -> SUBSET User]
        /\ full \in [Call -> BOOLEAN] /\ verify \in [Call -> BOOLEAN]
    BY <2>1
  <2>4. made \in 0..MaxCalls
    BY <2>1
  <2>5. QED
    BY <2>2, <2>3, <2>4 DEF CallsOK
<1>6. \A c \in Call : CallOK(c)
  BY DEF Init, CallOK, Route
<1>7. QED
  BY <1>4, <1>5, <1>6 DEF GroupInv

\* A request that has a row keeps it.
RequestsStay == \A r \in Req : status[r] # "none" => status'[r] # "none"

\* A call that starts with the arguments of its kind.
LEMMA StartsInv ==
    ASSUME GroupInv, NEW c \in Call, NEW k \in Kind, NEW to \in PC \ {"add", "request"},
           NEW u \in User, NEW v \in User \cup {NoUser}, NEW r \in Req \cup {NoReq},
           NEW S \in SUBSET User,
           Route(k, to),
           k \notin {"invite"} \cup Decision => v \in User,
           k \in Decision => r \in Req /\ status[r] # "none",
           Starts(c, k, to, u, v, r, S)
    PROVE  GroupInv'
<1> USE GroupAssumption DEF GroupInv, Starts, Goto, tables, history
<1>1. TablesOK'
  BY DEF TablesOK
<1>2. CallsOK'
  BY DEF CallsOK
<1>3. ASSUME NEW d \in Call PROVE CallOK(d)'
  BY DEF CallOK, CallsOK
<1>4. QED
  BY <1>1, <1>2, <1>3

\* A call that returns, whatever it has written.
LEMMA ReturnsInv ==
    ASSUME GroupInv, NEW c \in Call, Returns(c), TablesOK', RequestsStay
    PROVE  GroupInv'
<1> USE GroupAssumption DEF GroupInv, Returns
<1>1. CallsOK'
  BY DEF CallsOK, PC, Kind, Role
<1>2. ASSUME NEW d \in Call PROVE CallOK(d)'
  <2>1. CASE d = c
    BY <2>1 DEF CallOK, CallsOK, Route
  <2>2. CASE d # c
    BY <2>2 DEF CallOK, CallsOK, RequestsStay
  <2>3. QED
    BY <2>1, <2>2
<1>3. QED
  BY <1>1, <1>2

\* A call that only goes on to another place of its route.
LEMMA MovesInv ==
    ASSUME GroupInv, NEW c \in Call, NEW to \in PC, TablesOK', RequestsStay,
           pc' = [pc EXCEPT ![c] = to], UNCHANGED <<kind, op, rq, made>>,
           CallsOK', Route(kind[c], to), pc[c] # "idle",
           \A d \in Call : d # c => tgt'[d] = tgt[d],
           tgt'[c] = tgt[c] \/ (kind[c] = "invite" /\ tgt'[c] \in User),
           to \in {"add", "request"} => tgt'[c] \in User
    PROVE  GroupInv'
<1> USE GroupAssumption DEF GroupInv
<1>1. ASSUME NEW d \in Call PROVE CallOK(d)'
  <2>1. CASE d = c
    BY <2>1 DEF CallOK, CallsOK, RequestsStay
  <2>2. CASE d # c
    BY <2>2 DEF CallOK, CallsOK, RequestsStay
  <2>3. QED
    BY <2>1, <2>2
<1>2. QED
  BY <1>1

\* The steps that read the tables, and the loop of InviteMembers.
LEMMA ReadsInv ==
    ASSUME GroupInv, NEW c \in Call,
           \/ GetByGroupID(c) \/ GetOperator(c) \/ GetTarget(c) \/ GetSettings(c)
           \/ (\E u \in User : InviteNext(c, u)) \/ IsMember(c)
           \/ GetExistingRequest(c) \/ GetGroupJoinVerify(c) \/ InviteFails(c)
           \/ GetJoinRequest(c)
    PROVE  GroupInv'
<1>1. UNCHANGED <<tables, history, made>>
  BY DEF GetByGroupID, GetOperator, GetTarget, GetSettings, InviteNext, IsMember,
         GetExistingRequest, GetGroupJoinVerify, InviteFails, GetJoinRequest, Reads
<1>2. TablesOK' /\ RequestsStay
  BY <1>1 DEF tables, history, TablesOK, GroupInv, RequestsStay
<1> USE <1>1, <1>2, MovesInv DEF GroupInv, Goto, args
<1>3. CASE GetByGroupID(c)
  <2>1. /\ pc[c] = "group" /\ UNCHANGED <<kind, op, tgt, rq, todo, opRole, verify>>
        /\ full' = [full EXCEPT ![c] = count >= MaxMembers]
    BY <1>3 DEF GetByGroupID
  <2>2. PICK to \in {"operator", "isMember"} :
           pc' = [pc EXCEPT ![c] = to] /\ Route(kind[c], to)
    BY <1>3, <2>1 DEF GetByGroupID, CallOK, Route
  <2>3. CallsOK'
    <3>1. full' \in [Call -> BOOLEAN]
      <4> DEFINE b == count >= MaxMembers
      <4>1. b \in BOOLEAN
        OBVIOUS
      <4>2. full' = [full EXCEPT ![c] = b]
        BY <2>1
      <4> HIDE DEF b
      <4>3. QED
        BY <4>1, <4>2 DEF CallsOK
    <3>2. QED
      BY <2>1, <2>2, <3>1 DEF CallsOK, PC
  <2>4. QED
    BY <2>1, <2>2, <2>3 DEF PC
<1>4. CASE GetOperator(c)
  <2>1. PICK r \in Role :
          /\ pc[c] = "operator" /\ UNCHANGED <<kind, op, rq, tgt, todo, full, verify>>
          /\ opRole' = [opRole EXCEPT ![c] = r]
    BY <1>4 DEF GetOperator
  <2>2. PICK to \in {"settings", "target", "ownerCount", "remove", "disband",
                     "updateSettings", "decide"} :
           pc' = [pc EXCEPT ![c] = to] /\ Route(kind[c], to)
    BY <1>4, <2>1 DEF GetOperator, CallOK, CallsOK, Kind, Route
  <2>3. CallsOK'
    BY <2>1, <2>2 DEF CallsOK, TablesOK, PC
  <2>4. QED
    BY <2>1, <2>2, <2>3 DEF PC
<1>5. CASE GetTarget(c)
  BY <1>5 DEF GetTarget, CallOK, CallsOK, Route, PC
<1>6. CASE GetSettings(c)
  BY <1>6 DEF GetSettings, CallOK, CallsOK, TablesOK, Route, PC
<1>7. ASSUME NEW u \in User, InviteNext(c, u) PROVE GroupInv'
  <2>1. PICK to \in {"invite", "request", "add"} : pc' = [pc EXCEPT ![c] = to]
    BY <1>7 DEF InviteNext, CallsOK
  <2>2. /\ pc[c] = "invite" /\ kind[c] = "invite" /\ tgt' = [tgt EXCEPT ![c] = u]
        /\ todo' = [todo EXCEPT ![c] = @ \ {u}]
        /\ UNCHANGED <<kind, op, rq, opRole, full, verify>>
    BY <1>7 DEF InviteNext, CallOK, Route
  <2>3. CallsOK'
    BY <2>1, <2>2 DEF CallsOK, PC
  <2>4. QED
    BY <2>1, <2>2, <2>3 DEF CallsOK, Route, PC
<1>8. CASE IsMember(c)
  BY <1>8 DEF IsMember, CallOK, CallsOK, Route, PC
<1>9. CASE GetExistingRequest(c)
  BY <1>9 DEF GetExistingRequest, CallOK, CallsOK, Route, PC
<1>10. CASE GetGroupJoinVerify(c)
  BY <1>10 DEF GetGroupJoinVerify, CallOK, CallsOK, Route, PC
<1>11. CASE InviteFails(c)
  BY <1>11 DEF InviteFails, CallOK, CallsOK, Route, PC
<1>12. CASE GetJoinRequest(c)
  BY <1>12 DEF GetJoinRequest, CallOK, CallsOK, Route, PC
<1>13. QED
  BY <1>3, <1>4, <1>5, <1>6, <1>7, <1>8, <1>9, <1>10, <1>11, <1>12

\* QuitGroup by the last owner turns into DisbandGroup.
LEMMA QuitDisbandsInv ==
    ASSUME GroupInv, NEW c \in Call, GetMemberCount(c)
    PROVE  GroupInv'
<1> USE DEF GroupInv, GetMemberCount, Goto, Reads, tables, history
<1>1. TablesOK' /\ RequestsStay
  BY DEF TablesOK, RequestsStay
<1>2. CallsOK'
  BY DEF CallsOK, PC, Kind
<1>3. ASSUME NEW d \in Call PROVE CallOK(d)'
  BY DEF CallOK, CallsOK, Route
<1>4. QED
  BY <1>1, <1>2, <1>3

\* After a write InviteMembers goes on with its loop and the others return.
LEMMA GoesOnInv ==
    ASSUME GroupInv, NEW c \in Call, pc[c] \in {"add", "request"}, GoesOn(c),
           TablesOK', RequestsStay
    PROVE  GroupInv'
<1>1. CASE kind[c] # "invite" /\ Returns(c)
  BY <1>1, ReturnsInv
<1>2. CASE kind[c] = "invite" /\ pc' = [pc EXCEPT ![c] = "invite"] /\ UNCHANGED <<args, made>>
  <2>1. CallsOK'
    BY <1>2 DEF GroupInv, CallsOK, args, PC
  <2>2. QED
    BY <1>2, <2>1, MovesInv DEF GroupInv, args, PC, Route
<1>3. QED
  BY <1>1, <1>2 DEF GoesOn

\* The steps that write.
LEMMA WritesInv ==
    ASSUME GroupInv, NEW c \in Call,
           \/ InviteEnds(c) \/ (\E r \in Req : CreateJoinRequest(c, r)) \/ AddMember(c)
           \/ Accept(c) \/ Reject(c) \/ RemoveMemberTx(c)
           \/ (\E r \in NewRole : UpdateRole(c, r)) \/ TransferTx(c)
           \/ DissolveGroup(c) \/ UpdateSettings(c) \/ Error(c)
    PROVE  GroupInv'
<1> USE GroupAssumption DEF GroupInv, history
<1>1. CASE InviteEnds(c) \/ Error(c)
  <2>1. TablesOK' /\ RequestsStay
    BY <1>1 DEF InviteEnds, Error, tables, TablesOK, RequestsStay
  <2>2. QED
    BY <1>1, <2>1, ReturnsInv DEF InviteEnds, Error
<1>2. ASSUME NEW r \in Req, CreateJoinRequest(c, r) PROVE GroupInv'
  <2>1. tgt[c] \in User
    BY <1>2 DEF CreateJoinRequest, CallOK
  <2>2. TablesOK' /\ RequestsStay
    BY <1>2, <2>1 DEF CreateJoinRequest, TablesOK, RequestsStay
  <2>3. QED
    BY <1>2, <2>2, GoesOnInv DEF CreateJoinRequest
<1>3. CASE AddMember(c)
  <2>0. tgt[c] \in User
    BY <1>3 DEF AddMember, AddMemberTx, CallOK, Route
  <2>1. role' \in [User -> Role] /\ count' \in Int
    BY <1>3, <2>0 DEF AddMember, AddMemberTx, TablesOK, Role
  <2>2. TablesOK' /\ RequestsStay
    BY <1>3, <2>1 DEF AddMember, TablesOK, RequestsStay
  <2>3. QED
    BY <1>3, <2>2, GoesOnInv DEF AddMember
<1>4. CASE Accept(c)
  <2>1. rq[c] \in Req /\ userOf[rq[c]] \in User
    BY <1>4 DEF Accept, CallOK, TablesOK
  <2>2. role' \in [User -> Role] /\ count' \in Int
    BY <1>4, <2>1 DEF Accept, AddMemberTx, TablesOK, Role
  <2>3. TablesOK' /\ RequestsStay
    BY <1>4, <2>1, <2>2 DEF Accept, TablesOK, RequestsStay
  <2>4. QED
    BY <1>4, <2>3, ReturnsInv DEF Accept
<1>5. CASE Reject(c)
  <2>1. rq[c] \in Req /\ userOf[rq[c]] \in User
    BY <1>5 DEF Reject, CallOK, TablesOK
  <2>2. TablesOK' /\ RequestsStay
    BY <1>5, <2>1 DEF Reject, TablesOK, RequestsStay
  <2>3. QED
    BY <1>5, <2>2, ReturnsInv DEF Reject
<1>6. CASE RemoveMemberTx(c)
  <2>0. tgt[c] \in User
    BY <1>6 DEF RemoveMemberTx, CallOK, Route
  <2>1. role' \in [User -> Role] /\ count' \in Int
    BY <1>6, <2>0 DEF RemoveMemberTx, TablesOK, Role
  <2>2. TablesOK' /\ RequestsStay
    BY <1>6, <2>1 DEF RemoveMemberTx, TablesOK, RequestsStay
  <2>3. QED
    BY <1>6, <2>2, ReturnsInv DEF RemoveMemberTx
<1>7. ASSUME NEW r \in NewRole, UpdateRole(c, r) PROVE GroupInv'
  <2>1. TablesOK' /\ RequestsStay
    BY <1>7 DEF UpdateRole, RoleOf, TablesOK, RequestsStay, Role
  <2>2. QED
    BY <1>7, <2>1, ReturnsInv DEF UpdateRole
<1>8. CASE TransferTx(c)
  <2>1. tgt[c] \in User
    BY <1>8 DEF TransferTx, CallOK, Route
  <2>2. ownerId' \in User /\ role' \in [User -> Role]
    BY <1>8, <2>1 DEF TransferTx, RoleOf, TablesOK, Role
  <2>3. TablesOK' /\ RequestsStay
    BY <1>8, <2>2 DEF TransferTx, TablesOK, RequestsStay
  <2>4. QED
    BY <1>8, <2>3, ReturnsInv DEF TransferTx
<1>9. CASE DissolveGroup(c)
  <2>1. TablesOK' /\ RequestsStay
    BY <1>9 DEF DissolveGroup, TablesOK, RequestsStay
  <2>2. QED
    BY <1>9, <2>1, ReturnsInv DEF DissolveGroup
<1>10. CASE UpdateSettings(c)
  <2>1. opened' \in BOOLEAN /\ joinVerify' \in BOOLEAN
    BY <1>10, Zenon DEF UpdateSettings
  <2>2. TablesOK' /\ RequestsStay
    BY <1>10, <2>1 DEF UpdateSettings, TablesOK, RequestsStay
  <2>3. QED
    BY <1>10, <2>2, ReturnsInv DEF UpdateSettings
<1>11. QED
  BY <1>1, <1>2, <1>3, <1>4, <1>5, <1>6, <1>7, <1>8, <1>9, <1>10

\* The calls that start.
LEMMA CallStartsInv ==
    ASSUME GroupInv, NEW c \in Call, NEW u \in User, CallStarts(c, u)
    PROVE  GroupInv'
<1> USE StartsInv DEF Kind, PC, Route
<1>1. ASSUME NEW S \in SUBSET User, InviteMembers(c, u, S) PROVE GroupInv'
  BY <1>1 DEF InviteMembers
<1>2. CASE JoinGroup(c, u) \/ JoinGroupByQRCode(c, u)
  <2>1. CASE JoinGroup(c, u)
    BY <2>1 DEF JoinGroup
  <2>2. CASE JoinGroupByQRCode(c, u)
    BY <2>2 DEF JoinGroupByQRCode
  <2>3. QED
    BY <1>2, <2>1, <2>2
<1>3. CASE QuitGroup(c, u) \/ DisbandGroup(c, u) \/ UpdateGroupSettings(c, u)
  BY <1>3 DEF QuitGroup, DisbandGroup, UpdateGroupSettings
<1>4. ASSUME NEW v \in User, RemoveMember(c, u, v) \/ UpdateMemberRole(c, u, v)
                             \/ TransferOwnership(c, u, v)
      PROVE  GroupInv'
  <2>1. CASE RemoveMember(c, u, v)
    BY <2>1 DEF RemoveMember
  <2>2. CASE UpdateMemberRole(c, u, v)
    BY <2>2 DEF UpdateMemberRole
  <2>3. CASE TransferOwnership(c, u, v)
    BY <2>3 DEF TransferOwnership
  <2>4. QED
    BY <1>4, <2>1, <2>2, <2>3
<1>5. ASSUME NEW r \in Req, NEW k \in Decision, HandleJoinRequest(c, u, r, k)
      PROVE  GroupInv'
  <2>1. /\ status[r] # "none" /\ Route(k, "getRequest") /\ k \in Kind
        /\ Starts(c, k, "getRequest", u, NoUser, r, {})
    BY <1>5 DEF HandleJoinRequest
  <2> HIDE DEF Route, Kind
  <2>2. QED
    BY <1>5, <2>1
<1>6. QED
  BY <1>1, <1>2, <1>3, <1>4, <1>5 DEF CallStarts

\* Every step keeps GroupInv.
LEMMA GroupNextInv == GroupInv /\ [Next]_vars => GroupInv'
<1> SUFFICES ASSUME GroupInv, [Next]_vars PROVE GroupInv'
  OBVIOUS
<1>1. CASE UNCHANGED vars
  BY <1>1 DEF vars, GroupInv, TablesOK, CallsOK, CallOK
<1>2. ASSUME NEW c \in Call, Step(c) PROVE GroupInv'
  BY <1>2, ReadsInv, QuitDisbandsInv, WritesInv DEF Step
<1>3. ASSUME NEW c \in Call, NEW u \in User, CallStarts(c, u) PROVE GroupInv'
  BY <1>3, CallStartsInv
<1>4. QED
  BY <1>1, <1>2, <1>3 DEF Next

\* GroupInv holds always.
LEMMA GroupInvariance == Spec => []GroupInv
  BY GroupInitInv, GroupNextInv, PTL DEF Spec

\* The type invariant of GroupMembership: a call that is about to write knows the
\* user or the request it is about, whichever way it came there.
THEOREM GroupTypeCorrect == Spec => []TypeOK
  BY GroupInvariance, GroupTypes, PTL

\* The member rows are a finite set.
LEMMA MembersFinite == IsFiniteSet(Members) /\ Cardinality(Members) \in Nat
<1>1. Members \in SUBSET User
  BY DEF Members
<1>2. IsFiniteSet(Members)
  BY <1>1, FS_Subset, GroupAssumption
<1>3. QED
  BY <1>2, FS_CardinalityType

\* Every step that counts a member adds his row, and every step that removes a
\* row takes one away from the count.
LEMMA CountStep ==
    ASSUME GroupInv, CountNotAbove, [Next]_vars
    PROVE  CountNotAbove'
<1> USE GroupAssumption, MembersFinite DEF CountNotAbove, GroupInv, TablesOK
<1>1. CASE UNCHANGED <<role, count, surplus>>
  BY <1>1 DEF Members
<1>2. ASSUME Members' = Members, UNCHANGED <<count, surplus>> PROVE CountNotAbove'
  BY <1>2
<1>3. ASSUME NEW u \in User, AddMemberTx(u), UNCHANGED surplus PROVE CountNotAbove'
  <2>1. u \notin Members /\ Members' = Members \cup {u}
    BY <1>3 DEF AddMemberTx, Members
  <2>2. Cardinality(Members') = Cardinality(Members) + 1
    BY <2>1, FS_AddElement
  <2>3. QED
    BY <1>3, <2>2 DEF AddMemberTx
<1>4. ASSUME NEW c \in Call, AddMember(c) \/ Accept(c) PROVE CountNotAbove'
  <2>1. AddMember(c) => tgt[c] \in User
    BY DEF AddMember, CallOK
  <2>2. Accept(c) => userOf[rq[c]] \in User
    BY DEF Accept, CallOK
  <2>3. QED
    BY <1>3, <1>4, <2>1, <2>2 DEF AddMember, Accept, history
<1>5. ASSUME NEW c \in Call, RemoveMemberTx(c) PROVE CountNotAbove'
  <2>1. Members' = Members \ {tgt[c]}
    BY <1>5 DEF RemoveMemberTx, Members
  <2>2. /\ IsFiniteSet(Members \ {tgt[c]})
        /\ Cardinality(Members \ {tgt[c]}) =
              IF tgt[c] \in Members THEN Cardinality(Members) - 1 ELSE Cardinality(Members)
    BY FS_RemoveElement, MembersFinite
  <2>3. Cardinality(Members') \in Nat /\ Cardinality(Members') >= Cardinality(Members) - 1
    BY <2>1, <2>2, FS_CardinalityType
  <2>4. QED
    BY <1>5, <2>3 DEF RemoveMemberTx, history
<1>6. ASSUME NEW c \in Call, NEW r \in NewRole, UpdateRole(c, r) PROVE CountNotAbove'
  <2>1. \A u \in User : role'[u] = "none" <=> role[u] = "none"
    BY <1>6 DEF UpdateRole, RoleOf
  <2>2. QED
    BY <1>2, <1>6, <2>1 DEF UpdateRole, history, Members
<1>7. ASSUME NEW c \in Call, TransferTx(c) PROVE CountNotAbove'
  <2>1. \A u \in User : role'[u] = "none" <=> role[u] = "none"
    BY <1>7 DEF TransferTx, RoleOf
  <2>2. QED
    BY <1>2, <1>7, <2>1 DEF TransferTx, history, Members
<1>8. ASSUME NEW c \in Call, Step(c) PROVE CountNotAbove'
  BY <1>1, <1>4, <1>5, <1>6, <1>7, <1>8
     DEF Step, GetByGroupID, GetOperator, GetTarget, GetMemberCount, GetSettings,
         InviteEnds, InviteNext, IsMember, GetExistingRequest, GetGroupJoinVerify,
         CreateJoinRequest, InviteFails, GetJoinRequest, Reject, DissolveGroup,
         UpdateSettings, Error, Reads, tables, history
<1>9. ASSUME NEW c \in Call, NEW u \in User, CallStarts(c, u) PROVE CountNotAbove'
  BY <1>1, <1>9
     DEF CallStarts, InviteMembers, JoinGroup, JoinGroupByQRCode, QuitGroup,
         DisbandGroup, UpdateGroupSettings, RemoveMember, UpdateMemberRole,
         TransferOwnership, HandleJoinRequest, Starts, tables, history
<1>10. QED
  BY <1>1, <1>8, <1>9 DEF Next, vars

\* For any number of users and overlapping calls: member_count never says more
\* than there are member rows, but for the creator counted twice.
THEOREM CountCorrect == Spec => []CountNotAbove
<1>1. Init => CountNotAbove
  <2> SUFFICES ASSUME Init PROVE CountNotAbove
    OBVIOUS
  <2>1. PICK ids \in MemberIds :
          /\ role = [u \in User |-> IF u = Creator THEN "owner"
                                    ELSE IF u \in ids THEN "member" ELSE "none"]
          /\ count = Cardinality(ids) + 1
          /\ surplus = IF Creator \in ids THEN 1 ELSE 0
    BY DEF Init
  <2>2. ids \in SUBSET User /\ IsFiniteSet(ids) /\ Cardinality(ids) \in Nat
    BY GroupAssumption, FS_Subset, FS_CardinalityType
  <2>3. Members = ids \cup {Creator}
    BY <2>1, <2>2, GroupAssumption DEF Members
  <2>4. Cardinality(Members) = IF Creator \in ids THEN Cardinality(ids)
                               ELSE Cardinality(ids) + 1
    BY <2>2, <2>3, FS_AddElement
  <2>5. QED
    BY <2>1, <2>2, <2>4 DEF CountNotAbove
<1>2. QED
  BY <1>1, CountStep, GroupInvariance, PTL DEF Spec

-----------------------------------------------------------------------------
\* As long as join_verify was never off, no call has seen it off, so none is
\* about to add a member without a request.
AdmitInv ==
    ~opened => /\ joinVerify = TRUE
               /\ \A c \in Call : verify[c] = TRUE /\ pc[c] # "add"
               /\ Members \subseteq admitted

\* A step that writes no member row, no setting and no history, after which no
\* call has seen join_verify off.
LEMMA AdmitQuietStep ==
    ASSUME AdmitInv, UNCHANGED <<role, joinVerify, opened, admitted>>,
           ~opened => \A c \in Call : verify'[c] = TRUE /\ pc'[c] # "add"
    PROVE  AdmitInv'
  BY DEF AdmitInv, Members

\* A call that returns has forgotten what it saw.
LEMMA AdmitReturns ==
    ASSUME GroupInv, AdmitInv, NEW c \in Call, Returns(c), ~opened, NEW d \in Call
    PROVE  verify'[d] = TRUE /\ pc'[d] # "add"
  BY DEF GroupInv, CallsOK, AdmitInv, Returns

\* A step of a call that changes its place only, and not to the insertion.
LEMMA AdmitMoves ==
    ASSUME GroupInv, AdmitInv, NEW c \in Call, NEW to, pc' = [pc EXCEPT ![c] = to],
           ~opened => to # "add", UNCHANGED verify,
           UNCHANGED <<role, joinVerify, opened, admitted>>
    PROVE  AdmitInv'
<1>1. ~opened => \A d \in Call : verify'[d] = TRUE /\ pc'[d] # "add"
  BY DEF GroupInv, CallsOK, AdmitInv
<1>2. QED
  BY <1>1, AdmitQuietStep

\* A call that returns without writing member rows or settings.
LEMMA AdmitReturnsStep ==
    ASSUME GroupInv, AdmitInv, NEW c \in Call, Returns(c),
           UNCHANGED <<role, joinVerify, opened, admitted>>
    PROVE  AdmitInv'
  BY AdmitReturns, AdmitQuietStep

\* Every step keeps AdmitInv.
LEMMA AdmitStep ==
    ASSUME GroupInv, AdmitInv, [Next]_vars
    PROVE  AdmitInv'
<1> USE GroupAssumption DEF tables, history
<1>1. CASE UNCHANGED vars
  BY <1>1 DEF vars, AdmitInv, Members
<1>2. ASSUME NEW c \in Call, NEW u \in User, CallStarts(c, u) PROVE AdmitInv'
  <2>1. PICK to \in {"group", "operator", "getRequest"} : pc' = [pc EXCEPT ![c] = to]
    BY <1>2 DEF CallStarts, InviteMembers, JoinGroup, JoinGroupByQRCode, QuitGroup,
         DisbandGroup, UpdateGroupSettings, RemoveMember, UpdateMemberRole,
         TransferOwnership, HandleJoinRequest, Starts, Goto
  <2>2. UNCHANGED <<verify, role, joinVerify, opened, admitted>>
    BY <1>2 DEF CallStarts, InviteMembers, JoinGroup, JoinGroupByQRCode, QuitGroup,
         DisbandGroup, UpdateGroupSettings, RemoveMember, UpdateMemberRole,
         TransferOwnership, HandleJoinRequest, Starts
  <2>3. QED
    BY <2>1, <2>2, AdmitMoves
<1>3. ASSUME NEW c \in Call, InviteEnds(c) \/ Error(c) \/ Reject(c) \/ DissolveGroup(c)
      PROVE  AdmitInv'
  BY <1>3, AdmitReturnsStep DEF InviteEnds, Error, Reject, DissolveGroup
<1>4. ASSUME NEW c \in Call, GetByGroupID(c) \/ GetOperator(c) \/ GetTarget(c)
                             \/ GetMemberCount(c)
      PROVE  AdmitInv'
  <2>1. PICK to \in PC : to # "add" /\ pc' = [pc EXCEPT ![c] = to]
    <3>1. CASE GetByGroupID(c)
      BY <3>1 DEF GetByGroupID, Goto, PC
    <3>2. CASE GetOperator(c)
      BY <3>2 DEF GetOperator, Goto, PC
    <3>3. CASE GetTarget(c)
      BY <3>3 DEF GetTarget, Goto, PC
    <3>4. CASE GetMemberCount(c)
      BY <3>4 DEF GetMemberCount, Goto, PC
    <3>5. QED
      BY <1>4, <3>1, <3>2, <3>3, <3>4
  <2>2. UNCHANGED <<verify, role, joinVerify, opened, admitted>>
    BY <1>4 DEF GetByGroupID, GetOperator, GetTarget, GetMemberCount, Reads, args
  <2>3. QED
    BY <2>1, <2>2, AdmitMoves
<1>5. ASSUME NEW c \in Call, GetSettings(c) PROVE AdmitInv'
  <2>1. ~opened => \A d \in Call : verify'[d] = TRUE /\ pc'[d] # "add"
    BY <1>5 DEF GetSettings, Goto, AdmitInv, GroupInv, CallsOK
  <2>2. QED
    BY <1>5, <2>1, AdmitQuietStep DEF GetSettings, Reads
<1>6. ASSUME NEW c \in Call, NEW u \in User, InviteNext(c, u) PROVE AdmitInv'
  <2>1. PICK to : pc' = [pc EXCEPT ![c] = to] /\ (~opened => to # "add")
    BY <1>6 DEF InviteNext, Goto, AdmitInv, GroupInv, CallsOK
  <2>2. QED
    BY <1>6, <2>1, AdmitMoves DEF InviteNext, Reads
<1>7. ASSUME NEW c \in Call, IsMember(c) \/ GetExistingRequest(c) \/ GetGroupJoinVerify(c)
                             \/ InviteFails(c) \/ GetJoinRequest(c)
      PROVE  AdmitInv'
  <2>1. PICK to \in PC : pc' = [pc EXCEPT ![c] = to] /\ (~opened => to # "add")
    <3>1. CASE IsMember(c)
      BY <3>1 DEF PC, IsMember, Goto
    <3>2. CASE GetExistingRequest(c)
      BY <3>2 DEF PC, GetExistingRequest, Goto
    <3>3. CASE GetGroupJoinVerify(c)
      BY <3>3 DEF PC, GetGroupJoinVerify, Goto, AdmitInv
    <3>4. CASE InviteFails(c)
      BY <3>4 DEF PC, InviteFails
    <3>5. CASE GetJoinRequest(c)
      BY <3>5 DEF PC, GetJoinRequest, Goto
    <3>6. QED
      BY <1>7, <3>1, <3>2, <3>3, <3>4, <3>5
  <2>2. UNCHANGED <<verify, role, joinVerify, opened, admitted>>
    BY <1>7 DEF IsMember, GetExistingRequest, GetGroupJoinVerify, InviteFails,
                GetJoinRequest, Reads, args
  <2>3. QED
    BY <2>1, <2>2, AdmitMoves
<1>8. ASSUME NEW c \in Call, NEW r \in Req, CreateJoinRequest(c, r) PROVE AdmitInv'
  <2>1. UNCHANGED <<role, joinVerify, opened, admitted>>
    BY <1>8 DEF CreateJoinRequest
  <2>2. CASE Returns(c)
    BY <2>1, <2>2, AdmitReturnsStep
  <2>3. CASE pc' = [pc EXCEPT ![c] = "invite"] /\ UNCHANGED args
    BY <2>1, <2>3, AdmitMoves DEF args
  <2>4. QED
    BY <1>8, <2>2, <2>3 DEF CreateJoinRequest, GoesOn
<1>9. ASSUME NEW c \in Call, AddMember(c) PROVE AdmitInv'
  BY <1>9 DEF AddMember, AdmitInv
<1>10. ASSUME NEW c \in Call, Accept(c) PROVE AdmitInv'
  <2>1. userOf[rq[c]] \in User
    BY <1>10 DEF Accept, GroupInv, CallOK, TablesOK
  <2>2. Members' = Members \cup {userOf[rq[c]]}
    BY <1>10, <2>1 DEF Accept, AddMemberTx, Members, GroupInv, TablesOK
  <2>3. ~opened => \A d \in Call : verify'[d] = TRUE /\ pc'[d] # "add"
    BY <1>10, AdmitReturns DEF Accept
  <2>4. UNCHANGED <<joinVerify, opened>> /\ admitted' = admitted \cup {userOf[rq[c]]}
    BY <1>10 DEF Accept
  <2>5. QED
    BY <2>2, <2>3, <2>4 DEF AdmitInv
<1>11. ASSUME NEW c \in Call, Returns(c), UNCHANGED <<joinVerify, opened, admitted>>,
              Members' \subseteq Members
       PROVE  AdmitInv'
  BY <1>11, AdmitReturns DEF AdmitInv
<1>12. ASSUME NEW c \in Call, RemoveMemberTx(c) \/ TransferTx(c)
                              \/ \E r \in NewRole : UpdateRole(c, r)
       PROVE  AdmitInv'
  <2>1. Members' \subseteq Members
    BY <1>12 DEF RemoveMemberTx, TransferTx, UpdateRole, RoleOf, Members, GroupInv, TablesOK
  <2>2. Returns(c) /\ UNCHANGED <<joinVerify, opened, admitted>>
    BY <1>12 DEF RemoveMemberTx, TransferTx, UpdateRole
  <2>3. QED
    BY <1>11, <2>1, <2>2
<1>13. ASSUME NEW c \in Call, UpdateSettings(c) PROVE AdmitInv'
  <2>1. /\ joinVerify' \in BOOLEAN /\ opened' = (opened \/ ~joinVerify')
        /\ UNCHANGED <<role, admitted>> /\ Returns(c)
    BY <1>13 DEF UpdateSettings
  <2>2. ~opened' => ~opened /\ joinVerify' = TRUE
    BY <2>1
  <2>3. Members' = Members
    BY <2>1 DEF Members
  <2>4. QED
    BY <2>1, <2>2, <2>3, AdmitReturns DEF AdmitInv
<1>14. ASSUME NEW c \in Call, Step(c) PROVE AdmitInv'
  BY <1>3, <1>4, <1>5, <1>6, <1>7, <1>8, <1>9, <1>10, <1>12, <1>13, <1>14 DEF Step
<1>15. QED
  BY <1>1, <1>2, <1>14 DEF Next

\* For any number of users and overlapping calls: as long as join_verify has been
\* on, an invitation, an application or a QR code makes nobody a member whose join
\* request was not accepted (by whom is another matter: see MembersVetted).
THEOREM AdmittedCorrect == Spec => []AdmittedByRequest
<1>1. Init => AdmitInv
  BY GroupAssumption DEF Init, AdmitInv, Members
<1>2. AdmitInv => AdmittedByRequest
  BY DEF AdmitInv, AdmittedByRequest
<1>3. QED
  BY <1>1, <1>2, AdmitStep, GroupInvariance, PTL DEF Spec

-----------------------------------------------------------------------------
(* Pinned messages. *)

\* The messages that admitted calls may insert are no more than the calls.
LEMMA InFlightBounded ==
    /\ IsFiniteSet(InFlight)
    /\ Cardinality(InFlight) \in Nat
    /\ Cardinality(InFlight) <= Cardinality(PinCall)
<1> DEFINE S == {d \in PinCall : ppc[d] \in Admitted}
           f == [c \in S |-> pmsg[c]]
<1>1. IsFiniteSet(S) /\ Cardinality(S) <= Cardinality(PinCall)
  <2>1. S \in SUBSET PinCall
    OBVIOUS
  <2>2. QED
    BY <2>1, PinAssumption, FS_Subset
<1>2. f \in Surjection(S, InFlight)
  BY DEF Surjection, InFlight
<1>3. IsFiniteSet(InFlight) /\ Cardinality(InFlight) <= Cardinality(S)
  <2> HIDE DEF f, S
  <2>1. QED
    BY <1>1, <1>2, FS_Surjection
<1>4. /\ Cardinality(S) \in Nat /\ Cardinality(PinCall) \in Nat
      /\ Cardinality(InFlight) \in Nat
  BY <1>1, <1>3, PinAssumption, FS_CardinalityType
<1>5. QED
  BY <1>1, <1>3, <1>4

\* BoundedOverrun is inductive once the table is known to be finite.
PinInv == PinTypeOK /\ IsFiniteSet(pinned) /\ BoundedOverrun

\* A step after which no further message is pinned or may be.
LEMMA PinQuietStep ==
    ASSUME PinInv, PinTypeOK', pinned' \cup InFlight' \subseteq pinned \cup InFlight
    PROVE  PinInv'
<1> USE DEF PinInv
<1>1. IsFiniteSet(pinned \cup InFlight)
  BY InFlightBounded, FS_Union
<1>2. pinned' \cup InFlight' \in SUBSET (pinned \cup InFlight)
  OBVIOUS
<1>3. /\ IsFiniteSet(pinned' \cup InFlight')
      /\ Cardinality(pinned' \cup InFlight') <= Cardinality(pinned \cup InFlight)
  BY <1>1, <1>2, FS_Subset
<1>4. IsFiniteSet(pinned')
  <2>1. pinned' \in SUBSET (pinned' \cup InFlight')
    OBVIOUS
  <2>2. QED
    BY <1>3, <2>1, FS_Subset
<1>5. /\ Cardinality(pinned' \cup InFlight') \in Nat
      /\ Cardinality(pinned \cup InFlight) \in Nat
      /\ Cardinality(PinCall) \in Nat
  BY <1>1, <1>3, PinAssumption, FS_CardinalityType
<1>6. BoundedOverrun'
  BY <1>3, <1>5, PinAssumption DEF BoundedOverrun
<1>7. QED
  BY <1>4, <1>6

\* A call that stays or becomes admitted only for a message that is pinned, and
\* the others as they were.
LEMMA PinMoves ==
    ASSUME PinInv, NEW c \in PinCall, NEW to \in PinPC,
           ppc' = [ppc EXCEPT ![c] = to], UNCHANGED <<mstatus, recall, pmsg, pmade, pinned>>,
           pmsg[c] \in Msg,
           to \in Admitted => ppc[c] \in Admitted \/ pmsg[c] \in pinned
    PROVE  PinInv'
<1>1. PinTypeOK'
  BY DEF PinInv, PinTypeOK
<1>2. InFlight' \subseteq pinned \cup InFlight
  BY DEF PinInv, PinTypeOK, InFlight
<1>3. QED
  BY <1>1, <1>2, PinQuietStep

\* A call that ends.
LEMMA PinEndsStep ==
    ASSUME PinInv, NEW c \in PinCall, PinEnds(c), UNCHANGED <<mstatus, recall, pmade>>,
           pinned' = pinned \/ (ppc[c] \in Admitted /\ pinned' = pinned \cup {pmsg[c]})
    PROVE  PinInv'
<1>1. PinTypeOK'
  BY DEF PinInv, PinTypeOK, PinEnds, PinPC, Admitted
<1>2. InFlight' \subseteq InFlight
  BY DEF PinInv, PinTypeOK, PinEnds, InFlight, Admitted
<1>3. ppc[c] \in Admitted => pmsg[c] \in InFlight
  BY DEF InFlight
<1>4. QED
  BY <1>1, <1>2, <1>3, PinQuietStep

\* The count that admits a call was below the limit, so what is pinned and what
\* all admitted calls may add stays within the bound.
LEMMA CountByGroupStep ==
    ASSUME PinInv, NEW c \in PinCall, CountByGroup(c)
    PROVE  PinInv'
<1>1. PinTypeOK'
  BY DEF PinInv, PinTypeOK, CountByGroup, PinGoto, PinPC, Admitted
<1>2. /\ IsFiniteSet(InFlight') /\ Cardinality(InFlight') \in Nat
      /\ Cardinality(InFlight') <= Cardinality(PinCall)
  <2>1. (/\ IsFiniteSet(InFlight) /\ Cardinality(InFlight) \in Nat
         /\ Cardinality(InFlight) <= Cardinality(PinCall))'
    BY InFlightBounded, PTL
  <2>2. QED
    BY <2>1
<1>3. /\ pinned' = pinned /\ IsFiniteSet(pinned) /\ Cardinality(pinned) < Limit
      /\ Cardinality(pinned) \in Nat
  BY FS_CardinalityType DEF PinInv, CountByGroup
<1>4. Cardinality(pinned' \cup InFlight') <= Cardinality(pinned) + Cardinality(InFlight')
  <2>1. IsFiniteSet(pinned' \cap InFlight')
    <3>1. pinned' \cap InFlight' \in SUBSET pinned'
      OBVIOUS
    <3>2. QED
      BY <1>3, <3>1, FS_Subset
  <2>2. Cardinality(pinned' \cap InFlight') \in Nat
    BY <2>1, FS_CardinalityType
  <2>3. Cardinality(pinned' \cup InFlight') =
          Cardinality(pinned') + Cardinality(InFlight') - Cardinality(pinned' \cap InFlight')
    BY <1>2, <1>3, FS_Union
  <2>4. QED
    BY <1>2, <1>3, <2>2, <2>3
<1>5. Cardinality(PinCall) \in Nat /\ Cardinality(pinned' \cup InFlight') \in Nat
  BY <1>2, <1>3, PinAssumption, FS_Union, FS_CardinalityType
<1>6. BoundedOverrun'
  BY <1>2, <1>3, <1>4, <1>5, PinAssumption DEF BoundedOverrun
<1>7. QED
  BY <1>1, <1>3, <1>6 DEF PinInv

\* Every step keeps PinInv.
LEMMA PinNextInv == PinInv /\ [PinNext]_pinVars => PinInv'
<1> SUFFICES ASSUME PinInv, [PinNext]_pinVars PROVE PinInv'
  OBVIOUS
<1>1. CASE UNCHANGED pinVars
  <2>1. PinTypeOK' /\ InFlight' = InFlight /\ pinned' = pinned
    BY <1>1 DEF pinVars, PinInv, PinTypeOK, InFlight
  <2>2. QED
    BY <2>1, PinQuietStep
<1>2. ASSUME NEW c \in PinCall, NEW m \in Msg, PinGroupMessage(c, m) PROVE PinInv'
  <2>1. PinTypeOK'
    BY <1>2, PinAssumption DEF PinGroupMessage, PinGoto, PinInv, PinTypeOK, PinPC
  <2>2. InFlight' \subseteq InFlight /\ pinned' = pinned
    BY <1>2 DEF PinGroupMessage, PinGoto, PinInv, PinTypeOK, InFlight, Admitted
  <2>3. QED
    BY <2>1, <2>2, PinQuietStep
<1>3. ASSUME NEW c \in PinCall, Exists(c) \/ Snapshot(c) \/ UpsertSelect(c) PROVE PinInv'
  <2>1. pmsg[c] \in Msg
    BY <1>3 DEF Exists, Snapshot, UpsertSelect, PinGoto, PinInv, PinTypeOK
  <2>2. PICK to \in PinPC : /\ ppc' = [ppc EXCEPT ![c] = to]
                            /\ to \in Admitted => ppc[c] \in Admitted \/ pmsg[c] \in pinned
    BY <1>3 DEF Exists, Snapshot, UpsertSelect, PinGoto, PinPC, Admitted
  <2>3. QED
    BY <1>3, <2>1, <2>2, PinMoves DEF Exists, Snapshot, UpsertSelect
<1>4. ASSUME NEW c \in PinCall, CountByGroup(c) PROVE PinInv'
  BY <1>4, CountByGroupStep
<1>5. ASSUME NEW c \in PinCall, LimitExceeded(c) \/ UpsertInsert(c) \/ UpsertUpdate(c)
                                \/ PinFails(c)
      PROVE  PinInv'
  BY <1>5, PinEndsStep DEF LimitExceeded, UpsertInsert, UpsertUpdate, PinFails, Admitted
<1>6. ASSUME NEW m \in Msg, UnpinGroupMessage(m) \/ RecallMessage(m) \/ AutoUnpin(m)
                            \/ AutoUnpinFails(m) \/ DeleteMessage(m)
      PROVE  PinInv'
  <2>1. PinTypeOK'
    BY <1>6 DEF UnpinGroupMessage, RecallMessage, AutoUnpin, AutoUnpinFails,
                DeleteMessage, PinInv, PinTypeOK
  <2>2. InFlight' = InFlight /\ pinned' \subseteq pinned
    BY <1>6 DEF UnpinGroupMessage, RecallMessage, AutoUnpin, AutoUnpinFails,
                DeleteMessage, InFlight
  <2>3. QED
    BY <2>1, <2>2, PinQuietStep
<1>7. QED
  BY <1>1, <1>2, <1>3, <1>4, <1>5, <1>6 DEF PinNext

\* PinInv holds always.
LEMMA PinInvariance == PinSpec => []PinInv
<1>1. PinInit => PinInv
  <2> SUFFICES ASSUME PinInit PROVE PinInv
    OBVIOUS
  <2>1. PinTypeOK
    BY PinAssumption DEF PinInit, PinTypeOK, PinPC
  <2>2. pinned \cup InFlight = {} /\ pinned = {}
    BY DEF PinInit, InFlight, Admitted
  <2>3. Cardinality(PinCall) \in Nat
    BY PinAssumption, FS_CardinalityType
  <2>4. IsFiniteSet(pinned) /\ Cardinality(pinned \cup InFlight) = 0
    BY <2>2, FS_EmptySet
  <2>5. 0 <= Limit + Cardinality(PinCall) - 1
    BY <2>3, PinAssumption
  <2>6. QED
    BY <2>1, <2>4, <2>5 DEF PinInv, BoundedOverrun
<1>2. QED
  BY <1>1, PinNextInv, PTL DEF PinSpec

\* Every variable of PinnedMessage keeps its type.
THEOREM PinTypeCorrect == PinSpec => []PinTypeOK
<1>1. PinInv => PinTypeOK
  BY DEF PinInv
<1>2. QED
  BY <1>1, PinInvariance, PTL

\* For any limit and any finite number of calls: what is pinned, together with
\* what calls past the check may still pin, exceeds the limit by less than the
\* number of calls that run at the same time.
THEOREM OverrunBounded == PinSpec => []BoundedOverrun
<1>1. PinInv => BoundedOverrun
  BY DEF PinInv
<1>2. QED
  BY <1>1, PinInvariance, PTL

-----------------------------------------------------------------------------
(* The QR codes of a group. *)

\* The strengthening: a code is active only if it exists and is not revoked, and
\* what was revoked existed, so that a new code is none of those.
QRInv ==
    /\ QRTypeOK
    /\ isActive \subseteq Codes
    /\ revoked \subseteq Codes
    /\ isActive \cap revoked = {}
    /\ \A c \in QCall : qpc[c] = "renew" => seen[c] \in QToken

\* The steps that create no code and make none active.
LEMMA QRQuietStep ==
  ASSUME QRInv, QRTypeOK', created' = created, isActive' = isActive,
         revoked' = revoked, \A c \in QCall : qpc'[c] = "renew" => seen'[c] \in QToken
  PROVE  QRInv'
  BY DEF QRInv, Codes

\* The renewal writes expire_at and nothing else.
LEMMA RenewStep ==
  ASSUME QRInv, NEW c \in QCall, UpdateExpireAt(c)
  PROVE  QRInv'
<1>1. QRTypeOK'
  BY QAssumption DEF QRInv, QRTypeOK, QPC, UpdateExpireAt, QREnds
<1>2. \A d \in QCall : qpc'[d] = "renew" => seen'[d] \in QToken
  BY DEF QRInv, QRTypeOK, QPC, UpdateExpireAt, QREnds
<1> QED BY <1>1, <1>2, QRQuietStep DEF UpdateExpireAt

\* RefreshGroupQRCode revokes every code there is.
LEMMA InvalidateStep ==
  ASSUME QRInv, NEW c \in QCall, Invalidate(c)
  PROVE  QRInv'
<1>1. Codes \subseteq QToken /\ Codes' = Codes
  BY DEF QRInv, QRTypeOK, Codes, Invalidate
<1>2. QRTypeOK'
  BY <1>1 DEF QRInv, QRTypeOK, QPC, Invalidate, QRGoto
<1>3. \A d \in QCall : qpc'[d] = "renew" => seen'[d] \in QToken
  BY DEF QRInv, QRTypeOK, QPC, Invalidate, QRGoto
<1> QED BY <1>1, <1>2, <1>3 DEF QRInv, Invalidate

\* A new code draws a token that no code has.
LEMMA CreateStep ==
  ASSUME QRInv, NEW c \in QCall, NEW q \in QToken, CreateNewQRCode(c, q)
  PROVE  QRInv'
<1>1. created \in Seq(QToken) /\ created' = Append(created, q)
  BY DEF QRInv, QRTypeOK, CreateNewQRCode
<1>2. Codes' = Codes \cup {q}
  <2>1. DOMAIN created = 1..Len(created) /\ DOMAIN created' = 1..(Len(created) + 1)
    BY <1>1
  <2>2. \A i \in DOMAIN created : created'[i] = created[i]
    BY <1>1
  <2>3. created'[Len(created) + 1] = q
    BY <1>1
  <2>4. DOMAIN created' = DOMAIN created \cup {Len(created) + 1}
    BY <1>1, <2>1
  <2> QED BY <2>2, <2>3, <2>4 DEF Codes
<1>3. QRTypeOK'
  BY <1>1, QAssumption DEF QRInv, QRTypeOK, QPC, CreateNewQRCode, QREnds
<1>4. \A d \in QCall : qpc'[d] = "renew" => seen'[d] \in QToken
  BY DEF QRInv, QRTypeOK, QPC, CreateNewQRCode, QREnds
<1> QED BY <1>2, <1>3, <1>4 DEF QRInv, CreateNewQRCode

\* GetGroupQRCode finds a code to renew only among those that exist.
LEMMA FindStep ==
  ASSUME QRInv, NEW c \in QCall, FindCode(c)
  PROVE  QRInv'
<1>1. GetActiveByGroupID \subseteq QToken
  BY DEF QRInv, QRTypeOK, GetActiveByGroupID
<1>2. QRTypeOK' /\ \A d \in QCall : qpc'[d] = "renew" => seen'[d] \in QToken
  BY <1>1 DEF QRInv, QRTypeOK, QPC, FindCode, QRGoto
<1> QED BY <1>2, QRQuietStep DEF FindCode

\* QRInv is an invariant of the specification.
LEMMA QRInvariance == QRSpec => []QRInv
<1>1. QRInit => QRInv
  <2> SUFFICES ASSUME QRInit PROVE QRInv
    OBVIOUS
  <2>1. created \in Seq(QToken)
    BY DEF QRInit
  <2>2. QRTypeOK
    <3>1. qmade \in 0..MaxQCalls
      BY QAssumption DEF QRInit
    <3>2. life \in [QToken -> {"fresh", "renew", "past"}] /\ dissolved \in BOOLEAN
      BY DEF QRInit
    <3>3. qpc \in [QCall -> QPC] /\ seen \in [QCall -> QToken \cup {NoToken}]
      BY DEF QRInit, QPC
    <3> QED BY <2>1, <3>1, <3>2, <3>3 DEF QRInit, QRTypeOK
  <2> QED BY <2>2 DEF QRInit, QRInv
<1>2. QRInv /\ [QRNext]_qrVars => QRInv'
  <2> SUFFICES ASSUME QRInv, [QRNext]_qrVars PROVE QRInv'
    OBVIOUS
  <2>1. CASE UNCHANGED qrVars
    BY <2>1 DEF qrVars, QRInv, QRTypeOK, Codes
  <2>2. ASSUME NEW c \in QCall, GetGroupQRCode(c) \/ RefreshGroupQRCode(c) PROVE QRInv'
    BY <2>2, QAssumption, QRQuietStep
    DEF QRInv, QRTypeOK, QPC, GetGroupQRCode, RefreshGroupQRCode, QRBegins, QRGoto
  <2>3. ASSUME NEW c \in QCall, ReturnCode(c) \/ QRCallFails(c) PROVE QRInv'
    BY <2>3, QRQuietStep DEF QRInv, QRTypeOK, QPC, ReturnCode, QRCallFails, QREnds
  <2>4. ASSUME NEW c \in QCall, FindCode(c) \/ UpdateExpireAt(c) \/ Invalidate(c)
        PROVE  QRInv'
    BY <2>4, FindStep, RenewStep, InvalidateStep
  <2>5. ASSUME NEW c \in QCall, NEW q \in QToken, CreateNewQRCode(c, q) PROVE QRInv'
    BY <2>5, CreateStep
  <2>6. ASSUME NEW q \in QToken, CodeAges(q) PROVE QRInv'
    BY <2>6, QRQuietStep DEF QRInv, QRTypeOK, CodeAges
  <2>7. CASE Dissolves
    BY <2>7, QRQuietStep DEF QRInv, QRTypeOK, Dissolves
  <2> QED BY <2>1, <2>2, <2>3, <2>4, <2>5, <2>6, <2>7 DEF QRNext
<1> QED BY <1>1, <1>2, PTL DEF QRSpec

\* Every variable of GroupQRCode keeps its type.
THEOREM QRTypeCorrect == QRSpec => []QRTypeOK
<1>1. QRInv => QRTypeOK BY DEF QRInv
<1> QED BY <1>1, QRInvariance, PTL

\* However many GetGroupQRCode and RefreshGroupQRCode calls overlap or fail, a
\* code that was revoked does not lead to the group again and is not shown.
THEOREM RevokedStaysRevoked == QRSpec => []RefreshRevokes
<1>1. QRInv => RefreshRevokes
  BY DEF QRInv, RefreshRevokes, GetGroupPreviewByQRCode, GetActiveByGroupID, IsValid
<1> QED BY QRInvariance, <1>1, PTL

=============================================================================
