---------------------------- MODULE PinnedMessage ----------------------------
(***************************************************************************)
(* The pinned messages of one group: PinGroupMessage and UnpinGroupMessage *)
(* of the group service, with RecallMessage and DeleteMessage of the       *)
(* message service.                                                        *)
(*                                                                         *)
(* PinGroupMessage runs its statements one by one, without a transaction:  *)
(* Exists, CountByGroup, the RPC that takes the snapshot, and the SELECT   *)
(* and the INSERT or UPDATE of FirstOrCreate.  Everything else may happen  *)
(* in between.  Recalling a message unpins it with an RPC to the group     *)
(* service, whose failure is only logged.                                  *)
(***************************************************************************)
EXTENDS Naturals, FiniteSets

CONSTANTS Msg,       \* the group's messages
          PinCall,   \* PinGroupMessage calls in flight
          NoMsg,     \* no request
          Limit,     \* maxPinnedMessagesPerGroup
          MaxPins    \* bound: how many PinGroupMessage calls are made

ASSUME PinAssumption ==
    /\ NoMsg \notin Msg
    /\ IsFiniteSet(PinCall) /\ PinCall # {}
    /\ Limit \in Nat \ {0}
    /\ MaxPins \in Nat

VARIABLES
    pinned,    \* group_pinned_messages: the message ids; unique per group
    mstatus,   \* messages.status
    recall,    \* where the recall of each message is
    ppc,       \* where each call is
    pmsg,      \* the message it pins
    pmade      \* calls made so far

pinVars == <<pinned, mstatus, recall, ppc, pmsg, pmade>>

\* Calls that are past the check of the limit.
Admitted == {"snapshot", "select", "insert", "update"}
PinPC == {"idle", "exists", "count"} \cup Admitted

PinTypeOK ==
    /\ pinned \subseteq Msg
    /\ mstatus \in [Msg -> {"normal", "recalled", "deleted"}]
    /\ recall \in [Msg -> {"no", "unpin", "done"}]
    /\ ppc \in [PinCall -> PinPC]
    /\ pmsg \in [PinCall -> Msg \cup {NoMsg}]
    /\ pmade \in 0..MaxPins
    /\ \A c \in PinCall : ppc[c] # "idle" => pmsg[c] \in Msg

PinInit ==
    /\ pinned = {}
    /\ mstatus = [m \in Msg |-> "normal"]
    /\ recall = [m \in Msg |-> "no"]
    /\ ppc = [c \in PinCall |-> "idle"]
    /\ pmsg = [c \in PinCall |-> NoMsg]
    /\ pmade = 0

PinGoto(c, from, to) == ppc[c] = from /\ ppc' = [ppc EXCEPT ![c] = to]

PinEnds(c) ==
    /\ ppc' = [ppc EXCEPT ![c] = "idle"]
    /\ pmsg' = [pmsg EXCEPT ![c] = NoMsg]

-----------------------------------------------------------------------------
\* PinGroupMessage, past the checks of the group's status and the member's role.
PinGroupMessage(c, m) ==
    /\ pmade < MaxPins
    /\ pmade' = pmade + 1
    /\ PinGoto(c, "idle", "exists")
    /\ pmsg' = [pmsg EXCEPT ![c] = m]
    /\ UNCHANGED <<pinned, mstatus, recall>>

\* A message that is pinned already is not counted again.
Exists(c) ==
    /\ PinGoto(c, "exists", IF pmsg[c] \in pinned THEN "snapshot" ELSE "count")
    /\ UNCHANGED <<pinned, mstatus, recall, pmsg, pmade>>

\* Mutant: the limit is compared with > instead of >=.
CountOffByOne(c) ==
    /\ PinGoto(c, "count", "snapshot")
    /\ Cardinality(pinned) <= Limit
    /\ UNCHANGED <<pinned, mstatus, recall, pmsg, pmade>>

\* CountByGroup below the limit; at the limit the call is refused.
CountByGroup(c) ==
    /\ PinGoto(c, "count", "snapshot")
    /\ Cardinality(pinned) < Limit
    /\ UNCHANGED <<pinned, mstatus, recall, pmsg, pmade>>

LimitExceeded(c) ==
    /\ ppc[c] = "count"
    /\ Cardinality(pinned) >= Limit
    /\ PinEnds(c)
    /\ UNCHANGED <<pinned, mstatus, recall, pmade>>

\* getPinnedMessageSnapshot: GetMessageById finds every message that is not
\* deleted, a recalled one too.
Snapshot(c) ==
    /\ PinGoto(c, "snapshot", "select")
    /\ mstatus[pmsg[c]] # "deleted"
    /\ UNCHANGED <<pinned, mstatus, recall, pmsg, pmade>>

\* FirstOrCreate looks for the row ...
UpsertSelect(c) ==
    /\ PinGoto(c, "select", IF pmsg[c] \in pinned THEN "update" ELSE "insert")
    /\ UNCHANGED <<pinned, mstatus, recall, pmsg, pmade>>

\* ... and inserts it: the unique constraint refuses it if it is there by now ...
UpsertInsert(c) ==
    /\ ppc[c] = "insert"
    /\ pmsg[c] \notin pinned
    /\ pinned' = pinned \cup {pmsg[c]}
    /\ PinEnds(c)
    /\ UNCHANGED <<mstatus, recall, pmade>>

\* ... or updates it, which does nothing if it is gone.
UpsertUpdate(c) ==
    /\ ppc[c] = "update"
    /\ PinEnds(c)
    /\ UNCHANGED <<pinned, mstatus, recall, pmade>>

\* The call fails: a database or RPC error, a deleted message, a duplicate row.
PinFails(c) ==
    /\ ppc[c] # "idle"
    /\ PinEnds(c)
    /\ UNCHANGED <<pinned, mstatus, recall, pmade>>

\* UnpinGroupMessage by an administrator deletes the row.
UnpinGroupMessage(m) ==
    /\ m \in pinned
    /\ pinned' = pinned \ {m}
    /\ UNCHANGED <<mstatus, recall, ppc, pmsg, pmade>>

\* RecallMessage writes the status, then asks the group service to unpin.
RecallMessage(m) ==
    /\ mstatus[m] # "deleted"
    /\ recall[m] = "no"
    /\ mstatus' = [mstatus EXCEPT ![m] = "recalled"]
    /\ recall' = [recall EXCEPT ![m] = "unpin"]
    /\ UNCHANGED <<pinned, ppc, pmsg, pmade>>

AutoUnpin(m) ==
    /\ recall[m] = "unpin"
    /\ pinned' = pinned \ {m}
    /\ recall' = [recall EXCEPT ![m] = "done"]
    /\ UNCHANGED <<mstatus, ppc, pmsg, pmade>>

\* The group service refuses the call or cannot be reached: logged, no retry.
AutoUnpinFails(m) ==
    /\ recall[m] = "unpin"
    /\ recall' = [recall EXCEPT ![m] = "done"]
    /\ UNCHANGED <<pinned, mstatus, ppc, pmsg, pmade>>

\* DeleteMessage does not unpin.
DeleteMessage(m) ==
    /\ mstatus[m] # "deleted"
    /\ mstatus' = [mstatus EXCEPT ![m] = "deleted"]
    /\ UNCHANGED <<pinned, recall, ppc, pmsg, pmade>>

PinNext ==
    \/ \E c \in PinCall :
         \/ \E m \in Msg : PinGroupMessage(c, m)
         \/ Exists(c) \/ CountByGroup(c) \/ LimitExceeded(c) \/ Snapshot(c)
         \/ UpsertSelect(c) \/ UpsertInsert(c) \/ UpsertUpdate(c) \/ PinFails(c)
    \/ \E m \in Msg :
         \/ UnpinGroupMessage(m)
         \/ RecallMessage(m) \/ AutoUnpin(m) \/ AutoUnpinFails(m)
         \/ DeleteMessage(m)

PinSpec == PinInit /\ [][PinNext]_pinVars

-----------------------------------------------------------------------------
\* The messages that admitted calls may still insert.
InFlight == {pmsg[c] : c \in {d \in PinCall : ppc[d] \in Admitted}}

\* Concurrent PinGroupMessage calls may pass the limit together, but only by the
\* number of calls that run at the same time, however often they are repeated
\* and messages unpinned in between.
BoundedOverrun ==
    Cardinality(pinned \cup InFlight) <= Limit + Cardinality(PinCall) - 1
=============================================================================
