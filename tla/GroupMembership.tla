--------------------------- MODULE GroupMembership ---------------------------
(***************************************************************************)
(* Who belongs to one group and in which role: invitations, joining, join  *)
(* requests, removal, quitting, roles, transfer of ownership, dissolution. *)
(*                                                                         *)
(* A call reads the rows it checks in separate statements, then writes in  *)
(* a statement or a transaction of its own, so what it has checked may be  *)
(* out of date when it writes.  Here a transaction is one step: the        *)
(* transactions of this service first write a row that serialises them     *)
(* (the member row, the request row or the group row), and one that meets  *)
(* a deadlock or a duplicate member is rolled back as a whole.             *)
(***************************************************************************)
EXTENDS Integers, FiniteSets

CONSTANTS User, Req,     \* users; ids of group_join_requests rows
          Call,          \* calls in flight
          NoUser, NoReq,
          Creator,       \* who calls CreateGroup
          MemberIds,     \* the member_ids lists it may be called with, as sets
          NewRole,       \* the roles UpdateMemberRole may be called with
          MaxMembers,    \* groups.max_members
          MaxCalls       \* bound: how many calls are made

ASSUME GroupAssumption ==
    /\ IsFiniteSet(User)
    /\ Creator \in User
    /\ NoUser \notin User
    /\ NoReq \notin Req
    /\ MemberIds \subseteq (SUBSET User) \ {{}}
    /\ NewRole \subseteq {"owner", "admin", "member"}
    /\ MaxMembers \in Nat
    /\ MaxCalls \in Nat

VARIABLES
    \* groups, group_members, group_settings, group_join_requests
    role,        \* role of the member row of each user; "none": no row
    count,       \* member_count
    ownerId,     \* owner_id
    active,      \* status is normal
    joinVerify,  \* join_verify
    status,      \* status of each join request; "none": no row
    userOf,      \* user_id of each join request
    \* calls
    pc, kind, op,
    tgt,         \* the user the call is about
    rq,          \* its join request
    todo,        \* the invitees still to be handled
    opRole,      \* the operator's role, as read
    full,        \* IsFull of the group, as read
    verify,      \* join_verify, as read
    made,
    \* history
    surplus,     \* 1 if CreateGroup was called with the creator in member_ids
    opened,      \* join_verify has been off
    admitted,    \* members from the start, or by an accepted request
    vetted       \* ... that a manager of this group has accepted

tables  == <<role, count, ownerId, active, joinVerify, status, userOf>>
args    == <<kind, op, tgt, rq, todo, opRole, full, verify>>
history == <<surplus, opened, admitted, vetted>>
vars == <<role, count, ownerId, active, joinVerify, status, userOf,
          pc, kind, op, tgt, rq, todo, opRole, full, verify, made,
          surplus, opened, admitted, vetted>>

Role == {"none", "owner", "admin", "member"}
\* HandleJoinRequest with the group_id of this group or of another one.
Decision  == {"accept", "reject", "acceptElsewhere", "rejectElsewhere"}
Elsewhere == {"acceptElsewhere", "rejectElsewhere"}
Kind == {"none", "invite", "join", "scan", "remove", "quit", "setRole",
         "transfer", "disband", "settings"} \cup Decision
PC == {"idle", "group", "operator", "target", "ownerCount", "settings",
       "invite", "isMember", "existing", "verify", "request", "add",
       "getRequest", "decide", "remove", "setRole", "transfer", "disband",
       "updateSettings"}

Members == {u \in User : role[u] # "none"}

TypeOK ==
    /\ role \in [User -> Role]
    /\ count \in Int
    /\ ownerId \in User
    /\ active \in BOOLEAN
    /\ joinVerify \in BOOLEAN
    /\ status \in [Req -> {"none", "pending", "accepted", "rejected"}]
    /\ userOf \in [Req -> User \cup {NoUser}]
    /\ pc \in [Call -> PC]
    /\ kind \in [Call -> Kind]
    /\ op \in [Call -> User \cup {NoUser}]
    /\ tgt \in [Call -> User \cup {NoUser}]
    /\ rq \in [Call -> Req \cup {NoReq}]
    /\ todo \in [Call -> SUBSET User]
    /\ opRole \in [Call -> Role]
    /\ full \in [Call -> BOOLEAN]
    /\ verify \in [Call -> BOOLEAN]
    /\ made \in 0..MaxCalls
    /\ surplus \in {0, 1}
    /\ opened \in BOOLEAN
    /\ admitted \subseteq User
    /\ vetted \subseteq admitted
    /\ \A r \in Req : status[r] # "none" => userOf[r] \in User
    /\ \A c \in Call :
         /\ pc[c] # "idle" => op[c] \in User
         /\ pc[c] \in {"add", "request", "remove"} => tgt[c] \in User
         /\ pc[c] \in {"getRequest", "decide"} => rq[c] \in Req

\* CreateGroup skips the creator in member_ids when it adds the members, but
\* member_count is the length of the list plus one, which must fit the limit.
Init ==
    \E ids \in MemberIds :
        /\ Cardinality(ids) + 1 <= MaxMembers
        /\ role = [u \in User |-> IF u = Creator THEN "owner"
                                  ELSE IF u \in ids THEN "member" ELSE "none"]
        /\ count = Cardinality(ids) + 1
        /\ surplus = IF Creator \in ids THEN 1 ELSE 0
        /\ admitted = ids \cup {Creator}
        /\ vetted = admitted
        /\ ownerId = Creator
        /\ active = TRUE
        /\ joinVerify = TRUE
        /\ opened = FALSE
        /\ status = [r \in Req |-> "none"]
        /\ userOf = [r \in Req |-> NoUser]
        /\ pc = [c \in Call |-> "idle"]
        /\ kind = [c \in Call |-> "none"]
        /\ op = [c \in Call |-> NoUser]
        /\ tgt = [c \in Call |-> NoUser]
        /\ rq = [c \in Call |-> NoReq]
        /\ todo = [c \in Call |-> {}]
        /\ opRole = [c \in Call |-> "none"]
        /\ full = [c \in Call |-> FALSE]
        /\ verify = [c \in Call |-> TRUE]
        /\ made = 0

-----------------------------------------------------------------------------
Goto(c, from, to) == pc[c] = from /\ pc' = [pc EXCEPT ![c] = to]

\* The call returns, with an answer or an error, and forgets what it has read.
Returns(c) ==
    /\ pc' = [pc EXCEPT ![c] = "idle"]
    /\ kind' = [kind EXCEPT ![c] = "none"]
    /\ op' = [op EXCEPT ![c] = NoUser]
    /\ tgt' = [tgt EXCEPT ![c] = NoUser]
    /\ rq' = [rq EXCEPT ![c] = NoReq]
    /\ todo' = [todo EXCEPT ![c] = {}]
    /\ opRole' = [opRole EXCEPT ![c] = "none"]
    /\ full' = [full EXCEPT ![c] = FALSE]
    /\ verify' = [verify EXCEPT ![c] = TRUE]
    /\ UNCHANGED made

\* The call fails: refused by a check, a database error, a timeout, a crash.
Error(c) ==
    /\ pc[c] # "idle"
    /\ Returns(c)
    /\ UNCHANGED <<tables, history>>

\* The handler of a gRPC call starts: operator u, user v, request r, invitees S.
Starts(c, k, to, u, v, r, S) ==
    /\ made < MaxCalls
    /\ made' = made + 1
    /\ Goto(c, "idle", to)
    /\ kind' = [kind EXCEPT ![c] = k]
    /\ op' = [op EXCEPT ![c] = u]
    /\ tgt' = [tgt EXCEPT ![c] = v]
    /\ rq' = [rq EXCEPT ![c] = r]
    /\ todo' = [todo EXCEPT ![c] = S]
    /\ UNCHANGED <<tables, opRole, full, verify, history>>

InviteMembers(c, u, S)    == Starts(c, "invite", "group", u, NoUser, NoReq, S)
JoinGroup(c, u)           == Starts(c, "join", "group", u, u, NoReq, {})
JoinGroupByQRCode(c, u)   == Starts(c, "scan", "group", u, u, NoReq, {})
RemoveMember(c, u, v)     == Starts(c, "remove", "operator", u, v, NoReq, {})
QuitGroup(c, u)           == Starts(c, "quit", "operator", u, u, NoReq, {})
UpdateMemberRole(c, u, v) == Starts(c, "setRole", "operator", u, v, NoReq, {})
TransferOwnership(c, u, v) == Starts(c, "transfer", "operator", u, v, NoReq, {})
DisbandGroup(c, u)        == Starts(c, "disband", "operator", u, u, NoReq, {})
HandleJoinRequest(c, u, r, k) ==
    /\ status[r] # "none"
    /\ Starts(c, k, "getRequest", u, NoUser, r, {})
UpdateGroupSettings(c, u) == Starts(c, "settings", "operator", u, u, NoReq, {})

\* A call gives up as soon as one of its checks fails: that is an Error step.  The
\* steps below are the ones that go on.
Reads == UNCHANGED <<tables, made, history>>

\* GetByGroupID: the group is active; its member_count is remembered, and
\* compared with the limit by InviteMembers and JoinGroupByQRCode only.
GetByGroupID(c) ==
    /\ Goto(c, "group", IF kind[c] = "invite" THEN "operator" ELSE "isMember")
    /\ active
    /\ full' = [full EXCEPT ![c] = count >= MaxMembers]
    /\ kind[c] = "scan" => ~full'[c]
    /\ Reads
    /\ UNCHANGED <<kind, op, tgt, rq, todo, opRole, verify>>

\* GetMember of the operator, and what each call asks of his role.  That is his
\* role in the group the request names, which for HandleJoinRequest need not be
\* the group of the join request; in other groups he may have any role.
CanManageGroup(r) == r \in {"owner", "admin"}

GetOperator(c) ==
    LET k == kind[c] IN
    \E r \in Role \ {"none"} :
        /\ pc[c] = "operator"
        /\ k \in Elsewhere \/ r = role[op[c]]
        /\ k \in {"setRole", "transfer", "disband"} => r = "owner"
        /\ k \in Decision \cup {"settings"} => CanManageGroup(r)
        /\ Goto(c, "operator",
                CASE k = "invite" -> "settings"
                  [] k \in {"remove", "setRole", "transfer"} -> "target"
                  [] k = "quit" -> IF r = "owner" THEN "ownerCount" ELSE "remove"
                  [] k = "disband" -> "disband"
                  [] k = "settings" -> "updateSettings"
                  [] OTHER -> "decide")
        /\ opRole' = [opRole EXCEPT ![c] = r]
        /\ Reads
        /\ UNCHANGED <<kind, op, tgt, rq, todo, full, verify>>

\* GetMember of the target: a member, not an owner, and for a removal one that
\* the operator, in the role he had, may remove.
CanRemoveMember(r, target) == r = "owner" \/ (r = "admin" /\ target = "member")

GetTarget(c) ==
    /\ Goto(c, "target", CASE kind[c] = "remove" -> "remove"
                           [] kind[c] = "setRole" -> "setRole"
                           [] OTHER -> "transfer")
    /\ role[tgt[c]] \notin {"none", "owner"}
    /\ kind[c] = "remove" => CanRemoveMember(opRole[c], role[tgt[c]])
    /\ Reads
    /\ UNCHANGED args

\* QuitGroup by the owner: with no other member row it becomes DisbandGroup,
\* which reads the owner's row again.
GetMemberCount(c) ==
    /\ Goto(c, "ownerCount", "operator")
    /\ Cardinality(Members) = 1
    /\ kind' = [kind EXCEPT ![c] = "disband"]
    /\ Reads
    /\ UNCHANGED <<op, tgt, rq, todo, opRole, full, verify>>

\* InviteMembers: the settings, which may forbid plain members to invite, and
\* the limit, as it was when the group was read.
GetSettings(c) ==
    /\ Goto(c, "settings", "invite")
    /\ ~full[c]
    /\ verify' = [verify EXCEPT ![c] = joinVerify]
    /\ Reads
    /\ UNCHANGED <<kind, op, tgt, rq, todo, opRole, full>>

\* The next invitee; members are skipped, unless IsMember fails.
InviteNext(c, u) ==
    /\ pc[c] = "invite"
    /\ u \in todo[c]
    /\ todo' = [todo EXCEPT ![c] = @ \ {u}]
    /\ tgt' = [tgt EXCEPT ![c] = u]
    /\ \/ role[u] # "none" /\ UNCHANGED pc
       \/ Goto(c, "invite", IF verify[c] THEN "request" ELSE "add")
    /\ Reads
    /\ UNCHANGED <<kind, op, rq, opRole, full, verify>>

InviteEnds(c) ==
    /\ pc[c] = "invite"
    /\ todo[c] = {}
    /\ Returns(c)
    /\ UNCHANGED <<tables, history>>

\* JoinGroup looks for a pending request, then at join_verify;
\* JoinGroupByQRCode the other way round.
IsMember(c) ==
    /\ Goto(c, "isMember", IF kind[c] = "join" THEN "existing" ELSE "verify")
    /\ role[tgt[c]] = "none"
    /\ Reads
    /\ UNCHANGED args

GetExistingRequest(c) ==
    /\ Goto(c, "existing", IF kind[c] = "join" THEN "verify" ELSE "request")
    /\ \A r \in Req : ~(status[r] = "pending" /\ userOf[r] = tgt[c])
    /\ Reads
    /\ UNCHANGED args

\* Mutant: joining never asks for verification.
JoinUnverified(c) ==
    /\ Goto(c, "verify", "add")
    /\ Reads
    /\ UNCHANGED args

GetGroupJoinVerify(c) ==
    /\ Goto(c, "verify", IF ~joinVerify THEN "add"
                         ELSE IF kind[c] = "join" THEN "request" ELSE "existing")
    /\ Reads
    /\ UNCHANGED args

\* After one invitee the loop of InviteMembers goes on; a join is answered.
GoesOn(c) ==
    \/ /\ kind[c] = "invite"
       /\ pc' = [pc EXCEPT ![c] = "invite"]
       /\ UNCHANGED <<args, made>>
    \/ kind[c] # "invite" /\ Returns(c)

CreateJoinRequest(c, r) ==
    /\ pc[c] = "request"
    /\ status[r] = "none"
    /\ status' = [status EXCEPT ![r] = "pending"]
    /\ userOf' = [userOf EXCEPT ![r] = tgt[c]]
    /\ UNCHANGED <<role, count, ownerId, active, joinVerify, history>>
    /\ GoesOn(c)

\* Mutant: a member that is there already is counted again.
AddAgain(u) ==
    /\ role' = [role EXCEPT ![u] = IF @ = "none" THEN "member" ELSE @]
    /\ count' = count + 1

\* The transaction AddMember, UpdateMemberCount(1): uk_group_user refuses a
\* user who has a row by now.
AddMemberTx(u) ==
    /\ role[u] = "none"
    /\ role' = [role EXCEPT ![u] = "member"]
    /\ count' = count + 1

AddMember(c) ==
    /\ pc[c] = "add"
    /\ AddMemberTx(tgt[c])
    /\ UNCHANGED <<ownerId, active, joinVerify, status, userOf, history>>
    /\ GoesOn(c)

\* InviteMembers logs a failed insertion and goes on with the next invitee.
InviteFails(c) ==
    /\ pc[c] \in {"add", "request"}
    /\ kind[c] = "invite"
    /\ pc' = [pc EXCEPT ![c] = "invite"]
    /\ UNCHANGED <<tables, args, made, history>>

\* HandleJoinRequest: the request was not processed when it was read ...
GetJoinRequest(c) ==
    /\ Goto(c, "getRequest", "operator")
    /\ status[rq[c]] = "pending"
    /\ Reads
    /\ UNCHANGED args

\* ... and is decided whatever it is by now, whether the group is full or not,
\* active or not: on acceptance together with the new member.
Accept(c) ==
    /\ pc[c] = "decide"
    /\ kind[c] \in {"accept", "acceptElsewhere"}
    /\ AddMemberTx(userOf[rq[c]])
    /\ status' = [status EXCEPT ![rq[c]] = "accepted"]
    /\ admitted' = admitted \cup {userOf[rq[c]]}
    /\ vetted' = IF kind[c] = "accept" THEN vetted \cup {userOf[rq[c]]} ELSE vetted
    /\ UNCHANGED <<ownerId, active, joinVerify, userOf, surplus, opened>>
    /\ Returns(c)

Reject(c) ==
    /\ pc[c] = "decide"
    /\ kind[c] \in {"reject", "rejectElsewhere"}
    /\ status' = [status EXCEPT ![rq[c]] = "rejected"]
    /\ UNCHANGED <<role, count, ownerId, active, joinVerify, userOf, history>>
    /\ Returns(c)

\* The transaction RemoveMember, UpdateMemberCount(-1): deleting no row is not
\* an error, and member_count is decremented all the same.
RemoveMemberTx(c) ==
    /\ pc[c] = "remove"
    /\ role' = [role EXCEPT ![tgt[c]] = "none"]
    /\ count' = count - 1
    /\ UNCHANGED <<ownerId, active, joinVerify, status, userOf, history>>
    /\ Returns(c)

\* UpdateRole writes nothing if the member has left.
RoleOf(u, r) == IF role[u] = "none" THEN "none" ELSE r

UpdateRole(c, r) ==
    /\ pc[c] = "setRole"
    /\ role' = [role EXCEPT ![tgt[c]] = RoleOf(tgt[c], r)]
    /\ UNCHANGED <<count, ownerId, active, joinVerify, status, userOf, history>>
    /\ Returns(c)

\* The transaction of TransferOwnership: owner_id, if the group is still
\* active, then the role of the old owner, then the one of the new owner.
TransferTx(c) ==
    /\ pc[c] = "transfer"
    /\ ownerId' = IF active THEN tgt[c] ELSE ownerId
    /\ role' = [u \in User |-> IF u = tgt[c] THEN RoleOf(u, "owner")
                               ELSE IF u = op[c] THEN RoleOf(u, "admin")
                               ELSE role[u]]
    /\ UNCHANGED <<count, active, joinVerify, status, userOf, history>>
    /\ Returns(c)

DissolveGroup(c) ==
    /\ pc[c] = "disband"
    /\ active' = FALSE
    /\ UNCHANGED <<role, count, ownerId, joinVerify, status, userOf, history>>
    /\ Returns(c)

UpdateSettings(c) ==
    /\ pc[c] = "updateSettings"
    /\ joinVerify' \in BOOLEAN
    /\ opened' = (opened \/ ~joinVerify')
    /\ UNCHANGED <<role, count, ownerId, active, status, userOf, surplus, admitted, vetted>>
    /\ Returns(c)

-----------------------------------------------------------------------------
CallStarts(c, u) ==
    \/ \E S \in SUBSET User : InviteMembers(c, u, S)
    \/ JoinGroup(c, u) \/ JoinGroupByQRCode(c, u) \/ QuitGroup(c, u)
    \/ DisbandGroup(c, u) \/ UpdateGroupSettings(c, u)
    \/ \E v \in User : \/ RemoveMember(c, u, v) \/ UpdateMemberRole(c, u, v)
                       \/ TransferOwnership(c, u, v)
    \/ \E r \in Req, k \in Decision : HandleJoinRequest(c, u, r, k)

Step(c) ==
    \/ GetByGroupID(c) \/ GetOperator(c) \/ GetTarget(c) \/ GetMemberCount(c)
    \/ GetSettings(c) \/ InviteEnds(c) \/ (\E u \in User : InviteNext(c, u))
    \/ IsMember(c) \/ GetExistingRequest(c) \/ GetGroupJoinVerify(c)
    \/ (\E r \in Req : CreateJoinRequest(c, r))
    \/ AddMember(c) \/ InviteFails(c)
    \/ GetJoinRequest(c) \/ Accept(c) \/ Reject(c)
    \/ RemoveMemberTx(c) \/ (\E r \in NewRole : UpdateRole(c, r))
    \/ TransferTx(c) \/ DissolveGroup(c) \/ UpdateSettings(c)
    \/ Error(c)

Next == \E c \in Call : Step(c) \/ \E u \in User : CallStarts(c, u)

Spec == Init /\ [][Next]_vars

-----------------------------------------------------------------------------
\* member_count never says more than there are member rows (apart from the
\* creator counted twice by CreateGroup), so the limit is never reached early:
\* a user is not counted again however many calls add him at the same time.
CountNotAbove == count <= Cardinality(Members) + surplus

\* As long as join_verify has been on, nobody comes in by an invitation, an
\* application or a QR code alone: whoever is in the group was there from the
\* start or had a join request that HandleJoinRequest accepted.
AdmittedByRequest == ~opened => Members \subseteq admitted

\* "Permission check: owner and admin can handle" (HandleJoinRequest): as long as
\* join_verify has been on, whoever is in the group was there from the start or
\* was accepted by one who was its owner or administrator.
MembersVetted == ~opened => Members \subseteq vetted
=============================================================================
