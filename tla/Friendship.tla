----------------------------- MODULE Friendship -----------------------------
(***************************************************************************)
(* The friend service: friend requests, friendships and the blacklist,     *)
(* over PostgreSQL at READ COMMITTED.                                      *)
(*                                                                         *)
(* Every statement is one step.  The checks at the start of a call run     *)
(* outside its transaction, and what a transaction writes is visible to    *)
(* the others only after its commit; until then it locks the rows it       *)
(* writes.  Transactions may lock the two rows of a friendship in opposite *)
(* orders; PostgreSQL then aborts one of them.                             *)
(***************************************************************************)
EXTENDS Naturals, FiniteSets

CONSTANTS User, Req,   \* users; ids of friend_requests rows
          Call,        \* calls in flight
          NoReq, NoPair, Unlocked,
          MaxCalls,    \* bound: how many calls are made
          MaxErrors    \* bound: how many of them meet an error of the environment

ASSUME FriendAssumption ==
    /\ NoReq \notin Req
    /\ NoPair \notin User \X User
    /\ Unlocked \notin Call
    /\ MaxCalls \in Nat /\ MaxErrors \in Nat

VARIABLES
    friend,    \* friendships: status of the row (user_id, friend_id)
    status,    \* friend_requests: status of the row
    pairOf,    \* friend_requests: (from_user_id, to_user_id)
    blocked,   \* blacklists: the rows (user_id, blocked_user_id)
    conv,      \* single conversations (user_id, target_id), other service
    lock,      \* who holds each row
    friendPc, kind, \* where each call is, and what it does
    who,       \* its (user, other user)
    rq,        \* its friend request
    made, errors

friendVars == <<friend, status, pairOf, blocked, conv, lock, friendPc, kind, who, rq,
          made, errors>>
tables == <<friend, status, pairOf, blocked, conv>>
args == <<kind, who, rq>>

Pair == {p \in User \X User : p[1] # p[2]}
Rev(p) == <<p[2], p[1]>>

\* The rows a transaction can lock.
FriendRow(p) == <<"friend", p>>
BlockRow(p)  == <<"block", p>>
ReqRow(r)    == <<"req", r>>
Row == {FriendRow(p) : p \in Pair} \cup {BlockRow(p) : p \in Pair}
         \cup {ReqRow(r) : r \in Req}

FriendPC == {"idle", "isBlocked", "isFriend", "pending", "settings", "create",
       "getRequest", "updateRequest", "insert1", "insert2", "getBlocked",
       "blacklist", "update1", "update2", "commit", "conv1", "conv2"}
Kind == {"none", "send", "auto", "accept", "reject", "delete", "block"}

FriendTypeOK ==
    /\ friend \in [Pair -> {"none", "normal", "deleted"}]
    /\ status \in [Req -> {"none", "pending", "accepted", "rejected"}]
    /\ pairOf \in [Req -> Pair \cup {NoPair}]
    /\ blocked \subseteq Pair
    /\ conv \subseteq Pair
    /\ lock \in [Row -> Call \cup {Unlocked}]
    /\ friendPc \in [Call -> FriendPC]
    /\ kind \in [Call -> Kind]
    /\ who \in [Call -> Pair \cup {NoPair}]
    /\ rq \in [Call -> Req \cup {NoReq}]
    /\ made \in 0..MaxCalls
    /\ errors \in 0..MaxErrors
    /\ \A r \in Req : status[r] # "none" => pairOf[r] \in Pair
    /\ \A c \in Call : friendPc[c] # "idle" => who[c] \in Pair

FriendInit ==
    /\ friend = [p \in Pair |-> "none"]
    /\ status = [r \in Req |-> "none"]
    /\ pairOf = [r \in Req |-> NoPair]
    /\ blocked = {}
    /\ conv = {}
    /\ lock = [x \in Row |-> Unlocked]
    /\ friendPc = [c \in Call |-> "idle"]
    /\ kind = [c \in Call |-> "none"]
    /\ who = [c \in Call |-> NoPair]
    /\ rq = [c \in Call |-> NoReq]
    /\ made = 0
    /\ errors = 0

-----------------------------------------------------------------------------
FriendGoto(c, from, to) == friendPc[c] = from /\ friendPc' = [friendPc EXCEPT ![c] = to]

Release(c) == lock' = [x \in Row |-> IF lock[x] = c THEN Unlocked ELSE lock[x]]

\* Mutant: the transaction is neither committed nor rolled back.
ReturnsWithoutRollback(c) ==
    /\ friendPc' = [friendPc EXCEPT ![c] = "idle"]
    /\ kind' = [kind EXCEPT ![c] = "none"]
    /\ who' = [who EXCEPT ![c] = NoPair]
    /\ rq' = [rq EXCEPT ![c] = NoReq]
    /\ UNCHANGED <<lock, made, errors>>

\* The call returns; an open transaction that has not committed is rolled back.
Returns(c) ==
    /\ friendPc' = [friendPc EXCEPT ![c] = "idle"]
    /\ kind' = [kind EXCEPT ![c] = "none"]
    /\ who' = [who EXCEPT ![c] = NoPair]
    /\ rq' = [rq EXCEPT ![c] = NoReq]
    /\ Release(c)
    /\ UNCHANGED <<made, errors>>

Fails(c) == Returns(c) /\ UNCHANGED tables

\* The handler of a gRPC call starts.
Starts(c, to, k, p, r) ==
    /\ made < MaxCalls
    /\ made' = made + 1
    /\ FriendGoto(c, "idle", to)
    /\ kind' = [kind EXCEPT ![c] = k]
    /\ who' = [who EXCEPT ![c] = p]
    /\ rq' = [rq EXCEPT ![c] = r]
    /\ UNCHANGED <<tables, lock, errors>>

\* A statement that only reads, and goes on or fails.
FriendCheck(c, from, ok, to) ==
    /\ friendPc[c] = from
    /\ \/ /\ ok
          /\ FriendGoto(c, from, to)
          /\ UNCHANGED <<tables, lock, args, made, errors>>
       \/ ~ok /\ Fails(c)

\* A statement that locks row x, once nobody else holds it.
Locks(c, x) ==
    /\ lock[x] \in {Unlocked, c}
    /\ lock' = [lock EXCEPT ![x] = c]
    /\ UNCHANGED <<tables, args, made, errors>>

-----------------------------------------------------------------------------
\* The calls.  The handler refuses u = v.
SendFriendRequest(c, p) == Starts(c, "isBlocked", "send", p, NoReq)

HandleFriendRequest(c, r, action) ==
    /\ status[r] # "none"
    /\ Starts(c, "getRequest", action, Rev(pairOf[r]), r)

DeleteFriend(c, p) == Starts(c, "isFriend", "delete", p, NoReq)

AddToBlacklist(c, p) == Starts(c, "getBlocked", "block", p, NoReq)

RemoveFromBlacklist(p) ==
    /\ p \in blocked
    /\ blocked' = blocked \ {p}
    /\ UNCHANGED <<friend, status, pairOf, conv, lock, friendPc, args, made, errors>>

\* SendFriendRequest: the checks, the recipient's setting, the request.
IsBlocked(c) ==
    FriendCheck(c, "isBlocked", {who[c], Rev(who[c])} \cap blocked = {}, "isFriend")

IsFriend(c) ==
    \/ /\ kind[c] = "send"
       /\ FriendCheck(c, "isFriend", friend[who[c]] # "normal", "pending")
    \/ /\ kind[c] = "delete"
       /\ FriendCheck(c, "isFriend", friend[who[c]] = "normal", "update1")
    \/ /\ kind[c] = "block"
       /\ FriendGoto(c, "isFriend",
               IF friend[who[c]] = "normal" THEN "update1" ELSE "commit")
       /\ UNCHANGED <<tables, lock, args, made, errors>>

GetPendingRequest(c) ==
    FriendCheck(c, "pending",
          \A r \in Req : ~(status[r] = "pending" /\ pairOf[r] = who[c]),
          "settings")

\* friend_verify_required of the recipient decides whether it is accepted.
GetSettings(c) ==
    /\ FriendGoto(c, "settings", "create")
    /\ \E k \in {"send", "auto"} : kind' = [kind EXCEPT ![c] = k]
    /\ UNCHANGED <<tables, lock, who, rq, made, errors>>

CreateRequest(c, r) ==
    /\ FriendGoto(c, "create", IF kind[c] = "auto" THEN "insert1" ELSE "commit")
    /\ status[r] = "none"
    /\ \A d \in Call : rq[d] # r
    /\ rq' = [rq EXCEPT ![c] = r]
    /\ UNCHANGED <<tables, lock, kind, who, made, errors>>

\* Mutant: the error of the insertion is ignored.
CreateBatchIgnored(c) ==
    /\ FriendGoto(c, "insert1", "commit")
    /\ UNCHANGED <<tables, lock, args, made, errors>>

\* CreateBatch inserts (u, v), then (v, u).  It waits while another transaction
\* has written the row; if the row is there then, uk_user_friend refuses it.
CreateBatch1(c) ==
    /\ FriendGoto(c, "insert1", "insert2")
    /\ friend[who[c]] = "none"
    /\ Locks(c, FriendRow(who[c]))

CreateBatch2(c) ==
    /\ FriendGoto(c, "insert2", "commit")
    /\ friend[Rev(who[c])] = "none"
    /\ Locks(c, FriendRow(Rev(who[c])))

\* Only the first row can be there: the two are inserted and committed together,
\* and whoever inserts them needs the row this transaction holds.
Duplicate(c) ==
    /\ friendPc[c] = "insert1"
    /\ friend[who[c]] # "none"
    /\ lock[FriendRow(who[c])] = Unlocked
    /\ Fails(c)

\* HandleFriendRequest: the request must be pending when it is read ...
GetRequest(c) ==
    FriendCheck(c, "getRequest", status[rq[c]] = "pending", "updateRequest")

\* ... and its status is then written, whatever it is by now: on acceptance in
\* the transaction that creates the friendship, on rejection by itself.
UpdateRequest(c) ==
    \/ /\ kind[c] = "accept"
       /\ FriendGoto(c, "updateRequest", "insert1")
       /\ Locks(c, ReqRow(rq[c]))
    \/ /\ kind[c] = "reject"
       /\ friendPc[c] = "updateRequest"
       /\ lock[ReqRow(rq[c])] = Unlocked
       /\ status' = [status EXCEPT ![rq[c]] = "rejected"]
       /\ Returns(c)
       /\ UNCHANGED <<friend, pairOf, blocked, conv>>

\* AddToBlacklist: not there yet, then inserted in the same transaction.
GetBlocked(c) == FriendCheck(c, "getBlocked", who[c] \notin blocked, "blacklist")

CreateBlacklist(c) ==
    \/ /\ FriendGoto(c, "blacklist", "isFriend")
       /\ who[c] \notin blocked
       /\ Locks(c, BlockRow(who[c]))
    \/ /\ friendPc[c] = "blacklist"
       /\ who[c] \in blocked
       /\ lock[BlockRow(who[c])] = Unlocked
       /\ Fails(c)

\* Mutant: only one direction is deleted.
DeleteOneDirection(c) ==
    /\ FriendGoto(c, "update2", "commit")
    /\ UNCHANGED <<tables, lock, args, made, errors>>

\* DeleteBidirectional writes the status of (u, v), then of (v, u).  Both rows
\* are committed: friendships are never removed from the table.
DeleteBidirectional1(c) ==
    /\ FriendGoto(c, "update1", "update2")
    /\ Locks(c, FriendRow(who[c]))

DeleteBidirectional2(c) ==
    /\ FriendGoto(c, "update2", "commit")
    /\ Locks(c, FriendRow(Rev(who[c])))

\* COMMIT: the friendship rows the transaction holds, its request and its
\* blacklist row take their new values.  Then the notifications are published
\* and, after an automatic acceptance, the two conversations are created.
Commit(c) ==
    LET k == kind[c]
        new == IF k \in {"delete", "block"} THEN "deleted" ELSE "normal"
    IN  /\ friendPc[c] = "commit"
        /\ friend' = [p \in Pair |->
              IF lock[FriendRow(p)] = c THEN new ELSE friend[p]]
        /\ status' = [r \in Req |->
              IF r # rq[c] THEN status[r]
              ELSE IF k = "send" THEN "pending" ELSE "accepted"]
        /\ pairOf' = [r \in Req |->
              IF r = rq[c] /\ k # "accept" THEN who[c] ELSE pairOf[r]]
        /\ blocked' = IF k = "block" THEN blocked \cup {who[c]} ELSE blocked
        /\ UNCHANGED conv
        /\ \/ k # "auto" /\ Returns(c)
           \/ /\ k = "auto"
              /\ FriendGoto(c, "commit", "conv1")
              /\ Release(c)
              /\ UNCHANGED <<args, made, errors>>

\* createFriendConversation, for each side; a failure is only logged.
CreateFriendConversation(c) ==
    \/ /\ FriendGoto(c, "conv1", "conv2")
       /\ conv' \in {conv, conv \cup {who[c]}}
       /\ UNCHANGED <<friend, status, pairOf, blocked, lock, args, made, errors>>
    \/ /\ friendPc[c] = "conv2"
       /\ conv' \in {conv, conv \cup {Rev(who[c])}}
       /\ UNCHANGED <<friend, status, pairOf, blocked>>
       /\ Returns(c)

-----------------------------------------------------------------------------
\* The row a call waits for, if any.
Needs(c) ==
    CASE friendPc[c] \in {"insert1", "update1"} -> {FriendRow(who[c])}
      [] friendPc[c] \in {"insert2", "update2"} -> {FriendRow(Rev(who[c]))}
      [] friendPc[c] = "updateRequest" -> {ReqRow(rq[c])}
      [] friendPc[c] = "blacklist" -> {BlockRow(who[c])}
      [] OTHER -> {}

WaitsFor(c, d) == c # d /\ \E x \in Needs(c) : lock[x] = d

\* PostgreSQL aborts a transaction that waits in a circle.
Deadlock(c) ==
    /\ \E d \in Call : WaitsFor(c, d) /\ WaitsFor(d, c)
    /\ Fails(c)

\* A database error, a failing RPC, a timeout or a crash.
Error(c) ==
    /\ friendPc[c] # "idle"
    /\ errors < MaxErrors
    /\ friendPc' = [friendPc EXCEPT ![c] = "idle"]
    /\ kind' = [kind EXCEPT ![c] = "none"]
    /\ who' = [who EXCEPT ![c] = NoPair]
    /\ rq' = [rq EXCEPT ![c] = NoReq]
    /\ Release(c)
    /\ errors' = errors + 1
    /\ UNCHANGED <<tables, made>>

Work(c) ==
    \/ IsBlocked(c) \/ IsFriend(c) \/ GetPendingRequest(c) \/ GetSettings(c)
    \/ (\E r \in Req : CreateRequest(c, r))
    \/ CreateBatch1(c) \/ CreateBatch2(c) \/ Duplicate(c)
    \/ GetRequest(c) \/ UpdateRequest(c) \/ GetBlocked(c) \/ CreateBlacklist(c)
    \/ DeleteBidirectional1(c) \/ DeleteBidirectional2(c)
    \/ Commit(c) \/ CreateFriendConversation(c)
    \/ Deadlock(c)

FriendNext ==
    \/ \E c \in Call : Work(c) \/ Error(c)
    \/ \E c \in Call, p \in Pair :
         SendFriendRequest(c, p) \/ DeleteFriend(c, p) \/ AddToBlacklist(c, p)
    \/ \E c \in Call, r \in Req, action \in {"accept", "reject"} :
         HandleFriendRequest(c, r, action)
    \/ \E p \in Pair : RemoveFromBlacklist(p)

FriendSpec == FriendInit /\ [][FriendNext]_friendVars

\* Handlers that can run do run, PostgreSQL grants a free row and detects
\* deadlocks.  Nothing is promised about clients and errors.
FriendFairSpec == FriendSpec /\ \A c \in Call : WF_friendVars(Work(c))

-----------------------------------------------------------------------------
\* Friendship is symmetric in every committed state, although its two rows are
\* inserted and deleted one after the other, by calls that overlap or fail.
Symmetric == \A p \in Pair : friend[p] = friend[Rev(p)]

\* A request that is accepted has made the two users friends: the status and
\* the friendship are written together or not at all.
AcceptedWereFriends ==
    \A r \in Req : status[r] = "accepted" => friend[pairOf[r]] # "none"

\* Every call returns: locking the rows of a friendship in opposite orders, or
\* failing with rows locked, never leaves another call waiting for ever.
CallsEnd == \A c \in Call : friendPc[c] # "idle" ~> friendPc[c] = "idle"
=============================================================================
