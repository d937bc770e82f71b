-------------------------- MODULE MessageLifecycle --------------------------
(***************************************************************************)
(* What happens to a stored message: RecallMessage and DeleteMessage by    *)
(* its sender, AckReadTriggers by its readers, which starts the            *)
(* burn-after-reading countdown, and the auto-delete worker, which sweeps  *)
(* expired messages once a minute.                                         *)
(*                                                                         *)
(* None of these runs in a transaction: each reads the row, decides, and   *)
(* writes with a statement of its own, so they interleave between the read *)
(* and the write.  A call is one request in flight; it may be abandoned at *)
(* any write (database error, timeout, crash).                             *)
(***************************************************************************)
EXTENDS Naturals, FiniteSets

CONSTANTS Msg,           \* messages
          User,          \* users
          Sender,        \* Sender[m]: who sent m
          AutoDur,       \* AutoDur[m]: auto_delete_duration of its conversation, 0: off
          BurnSecs,      \* BurnSecs[m]: burn_after_reading_seconds, 0: off
          RecallLimit,   \* the two minutes within which a message may be recalled
          BatchSize,     \* autoDeleteBatchSize
          Call,          \* requests in flight
          NoTime,        \* a NULL timestamp
          NoMsg,         \* the call works on no single message
          MaxTime,       \* bound on the clock
          MaxErrors      \* bound on the worker's database errors

ASSUME LifecycleAssumption ==
    /\ Sender \in [Msg -> User]
    /\ AutoDur \in [Msg -> Nat]
    /\ BurnSecs \in [Msg -> Nat]
    /\ RecallLimit \in Nat
    /\ BatchSize \in Nat \ {0}
    /\ MaxTime \in Nat
    /\ MaxErrors \in Nat
    /\ NoTime \notin Nat
    /\ NoMsg \notin Msg

VARIABLES
    clock,
    \* the messages table
    status,      \* "none": not sent yet; "normal", "recall" or "deleted"
    created,     \* created_at
    autoExpire,  \* auto_delete_expire_time
    burnExpire,  \* burn_after_reading_expire_time
    expire,      \* expire_time
    \* requests in flight
    pc, target, todo, snap, now,
    \* the auto-delete worker
    wpc, wnow, batch, errors,
    \* history
    reports,     \* who has reported reading what: <<message, user>>
    due          \* expire when no report of the message was between read and write

row    == <<created, autoExpire>>
expiry == <<burnExpire, expire>>
callv  == <<pc, target, todo, snap, now>>
worker == <<wpc, wnow, batch, errors>>
history == <<reports, due>>
vars   == <<clock, status, created, autoExpire, burnExpire, expire,
            pc, target, todo, snap, now, wpc, wnow, batch, errors, reports, due>>

Time  == Nat \cup {NoTime}
PC    == {"idle", "recall", "recallPublish", "delete", "deletePublish",
          "ackNow", "ackWrite"}
Before(s, t) == t = NoTime \/ (s # NoTime /\ s < t)

TypeOK ==
    /\ clock \in Nat
    /\ status \in [Msg -> {"none", "normal", "recall", "deleted"}]
    /\ created \in [Msg -> Nat]
    /\ autoExpire \in [Msg -> Time]
    /\ burnExpire \in [Msg -> Time]
    /\ expire \in [Msg -> Time]
    /\ pc \in [Call -> PC]
    /\ target \in [Call -> Msg \cup {NoMsg}]
    /\ todo \in [Call -> SUBSET Msg]
    /\ snap \in [Call -> [Msg -> [burn : Time, exp : Time]]]
    /\ now \in [Call -> Nat]
    /\ wpc \in {"wait", "fetch", "update"}
    /\ wnow \in Nat
    /\ batch \subseteq Msg
    /\ errors \in Nat
    /\ reports \subseteq Msg \X User
    /\ due \in [Msg -> Time]
    /\ \A p \in Call :
         pc[p] \in {"recall", "recallPublish", "delete", "deletePublish"} =>
           target[p] \in Msg

NoSnap == [m \in Msg |-> [burn |-> NoTime, exp |-> NoTime]]

Init ==
    /\ clock = 0
    /\ status = [m \in Msg |-> "none"]
    /\ created = [m \in Msg |-> 0]
    /\ autoExpire = [m \in Msg |-> NoTime]
    /\ burnExpire = [m \in Msg |-> NoTime]
    /\ expire = [m \in Msg |-> NoTime]
    /\ pc = [p \in Call |-> "idle"]
    /\ target = [p \in Call |-> NoMsg]
    /\ todo = [p \in Call |-> {}]
    /\ snap = [p \in Call |-> NoSnap]
    /\ now = [p \in Call |-> 0]
    /\ wpc = "wait"
    /\ wnow = 0
    /\ batch = {}
    /\ errors = 0
    /\ reports = {}
    /\ due = [m \in Msg |-> NoTime]

-----------------------------------------------------------------------------
\* Observes the sweep date of the messages that no report is about to write.
Observe ==
    due' = [m \in Msg |-> IF \A p \in Call : m \notin todo'[p] THEN expire'[m] ELSE due[m]]

Tick ==
    /\ clock < MaxTime
    /\ clock' = clock + 1
    /\ UNCHANGED <<status, row, expiry, callv, worker, history>>

\* SendMessage stores the message with its conversation's policies: the
\* auto-delete deadline is fixed, the burn countdown has not started.
Send(m) ==
    /\ status[m] = "none"
    /\ status' = [status EXCEPT ![m] = "normal"]
    /\ created' = [created EXCEPT ![m] = clock]
    /\ autoExpire' = [autoExpire EXCEPT
                        ![m] = IF AutoDur[m] > 0 THEN clock + AutoDur[m] ELSE NoTime]
    /\ expire' = [expire EXCEPT ![m] = autoExpire'[m]]
    /\ UNCHANGED <<clock, burnExpire, callv, worker, reports>>
    /\ Observe

\* The call is over; what it held in local variables is gone.
Return(p) ==
    /\ pc' = [pc EXCEPT ![p] = "idle"]
    /\ target' = [target EXCEPT ![p] = NoMsg]
    /\ todo' = [todo EXCEPT ![p] = {}]
    /\ snap' = [snap EXCEPT ![p] = NoSnap]
    /\ now' = [now EXCEPT ![p] = 0]

\* A database error, a timeout or a crash: the writes not yet made are not made.
Abandon(p) ==
    /\ pc[p] # "idle"
    /\ Return(p)
    /\ UNCHANGED <<clock, status, row, expiry, worker, reports>>
    /\ Observe

\* GetByMessageID finds every message that is not deleted.
Found(m) == status[m] \in {"normal", "recall"}

\* RecallMessage and DeleteMessage begin by reading the row and checking the
\* caller, and RecallMessage the age of the message.
RecallCheck(p, u, m) ==
    /\ pc[p] = "idle"
    /\ Found(m)
    /\ Sender[m] = u
    /\ clock - created[m] <= RecallLimit
    /\ pc' = [pc EXCEPT ![p] = "recall"]
    /\ target' = [target EXCEPT ![p] = m]
    /\ UNCHANGED <<clock, status, row, expiry, todo, snap, now, worker, history>>

DeleteCheck(p, u, m) ==
    /\ pc[p] = "idle"
    /\ Found(m)
    /\ Sender[m] = u
    /\ pc' = [pc EXCEPT ![p] = "delete"]
    /\ target' = [target EXCEPT ![p] = m]
    /\ UNCHANGED <<clock, status, row, expiry, todo, snap, now, worker, history>>

\* UpdateStatus has no condition on the status the row has meanwhile.
UpdateStatus(m, s) == status' = [status EXCEPT ![m] = s]

RecallWrite(p) ==
    /\ pc[p] = "recall"
    /\ UpdateStatus(target[p], "recall")
    /\ pc' = [pc EXCEPT ![p] = "recallPublish"]
    /\ UNCHANGED <<clock, row, expiry, target, todo, snap, now, worker, history>>

DeleteWrite(p) ==
    /\ pc[p] = "delete"
    /\ UpdateStatus(target[p], "deleted")
    /\ pc' = [pc EXCEPT ![p] = "deletePublish"]
    /\ UNCHANGED <<clock, row, expiry, target, todo, snap, now, worker, history>>

\* What follows the write changes nothing here: the group service is asked to
\* unpin the message, and the publication panics on the nil broker or is
\* skipped for want of receivers.
Publish(p) ==
    /\ pc[p] \in {"recallPublish", "deletePublish"}
    /\ Return(p)
    /\ UNCHANGED <<clock, status, row, expiry, worker, history>>

\* AckReadTriggers reads the candidates among the reported messages ...
AckRead(p, u, reported) ==
    LET candidates == {m \in reported : status[m] = "normal" /\ BurnSecs[m] > 0}
    IN
    /\ pc[p] = "idle"
    /\ candidates # {}
    /\ reports' = reports \cup (candidates \X {u})
    /\ pc' = [pc EXCEPT ![p] = "ackNow"]
    /\ todo' = [todo EXCEPT ![p] = {m \in candidates : Sender[m] # u}]
    /\ snap' = [snap EXCEPT ![p] =
                  [m \in Msg |-> IF m \in candidates
                                 THEN [burn |-> burnExpire[m], exp |-> expire[m]]
                                 ELSE [burn |-> NoTime, exp |-> NoTime]]]
    /\ UNCHANGED <<clock, status, row, expiry, target, now, worker, due>>

\* ... takes the time ...
AckNow(p) ==
    /\ pc[p] = "ackNow"
    /\ now' = [now EXCEPT ![p] = clock]
    /\ pc' = [pc EXCEPT ![p] = "ackWrite"]
    /\ UNCHANGED <<clock, status, row, expiry, target, todo, snap, worker, history>>

\* Mutant: a message with an auto-delete deadline keeps it, however early it burns.
FinalExpireKeepsAuto(p, m) ==
    IF autoExpire[m] # NoTime THEN autoExpire[m] ELSE now[p] + BurnSecs[m]

\* ... and starts the countdown of each, with a deadline computed from what it
\* read.  The UPDATE repeats the condition on the status and those on sender and
\* burn seconds, which never change, but not the one on the deadlines.
BurnDeadline(p, m) == now[p] + BurnSecs[m]

FinalExpire(p, m) ==
    IF autoExpire[m] # NoTime /\ Before(autoExpire[m], BurnDeadline(p, m))
    THEN autoExpire[m] ELSE BurnDeadline(p, m)

\* Mutant: the sweep date is written without a comparison.
AckWriteAlways(p, m) ==
    /\ pc[p] = "ackWrite"
    /\ m \in todo[p]
    /\ todo' = [todo EXCEPT ![p] = @ \ {m}]
    /\ burnExpire' = [burnExpire EXCEPT ![m] =
         IF status[m] = "normal" /\ Before(BurnDeadline(p, m), snap[p][m].burn)
         THEN BurnDeadline(p, m) ELSE @]
    /\ expire' = [expire EXCEPT ![m] =
         IF status[m] = "normal" THEN FinalExpire(p, m) ELSE @]
    /\ UNCHANGED <<clock, status, row, pc, target, snap, now, worker, reports>>
    /\ Observe

AckWrite(p, m) ==
    /\ pc[p] = "ackWrite"
    /\ m \in todo[p]
    /\ todo' = [todo EXCEPT ![p] = @ \ {m}]
    /\ burnExpire' = [burnExpire EXCEPT ![m] =
         IF status[m] = "normal" /\ Before(BurnDeadline(p, m), snap[p][m].burn)
         THEN BurnDeadline(p, m) ELSE @]
    /\ expire' = [expire EXCEPT ![m] =
         IF status[m] = "normal" /\ Before(FinalExpire(p, m), snap[p][m].exp)
         THEN FinalExpire(p, m) ELSE @]
    /\ UNCHANGED <<clock, status, row, pc, target, snap, now, worker, reports>>
    /\ Observe

AckReturn(p) ==
    /\ pc[p] = "ackWrite"
    /\ todo[p] = {}
    /\ Return(p)
    /\ UNCHANGED <<clock, status, row, expiry, worker, history>>

-----------------------------------------------------------------------------
\* Mutant: a sweep looks only at what expires at this very moment.
ExpiredExactly(t) == {m \in Msg : status[m] = "normal" /\ expire[m] = t}

\* Mutant: the status is not updated, so the same batch is fetched for ever.
UpdateBatchNothing ==
    /\ wpc = "update"
    /\ wpc' = "fetch"
    /\ batch' = {}
    /\ UNCHANGED <<clock, status, row, expiry, callv, wnow, errors, history>>

\* The ticker fires: cleanup fixes the time it sweeps up to.
WorkerStart ==
    /\ wpc = "wait"
    /\ wpc' = "fetch"
    /\ wnow' = clock
    /\ UNCHANGED <<clock, status, row, expiry, callv, batch, errors, history>>

Expired(t) == {m \in Msg : /\ status[m] = "normal"
                           /\ expire[m] # NoTime
                           /\ expire[m] <= t}

\* GetExpiredMessages: at most BatchSize of them, the earliest first.  An
\* empty batch ends the sweep.
FetchBatch(b) ==
    /\ wpc = "fetch"
    /\ b \subseteq Expired(wnow)
    /\ \/ Cardinality(b) = BatchSize
       \/ b = Expired(wnow) /\ Cardinality(b) < BatchSize
    /\ \A m \in b : \A n \in Expired(wnow) \ b : expire[m] <= expire[n]
    /\ batch' = b
    /\ wpc' = IF b = {} THEN "wait" ELSE "update"
    /\ wnow' = IF b = {} THEN 0 ELSE wnow
    /\ UNCHANGED <<clock, status, row, expiry, callv, errors, history>>

\* BatchUpdateStatus, again without a condition on the status, and the next
\* round.  The notification it publishes names no receiver; Publish refuses it.
UpdateBatch ==
    /\ wpc = "update"
    /\ status' = [m \in Msg |-> IF m \in batch THEN "deleted" ELSE status[m]]
    /\ wpc' = "fetch"
    /\ batch' = {}
    /\ UNCHANGED <<clock, row, expiry, callv, wnow, errors, history>>

\* A database error or the 30 s timeout ends the sweep until the next tick.
WorkerError ==
    /\ wpc # "wait"
    /\ errors < MaxErrors
    /\ errors' = errors + 1
    /\ wpc' = "wait"
    /\ wnow' = 0
    /\ batch' = {}
    /\ UNCHANGED <<clock, status, row, expiry, callv, history>>

-----------------------------------------------------------------------------
Sweep == (\E b \in SUBSET Msg : FetchBatch(b)) \/ UpdateBatch

CallStep(p) ==
    \/ \E u \in User, m \in Msg : RecallCheck(p, u, m) \/ DeleteCheck(p, u, m)
    \/ \E u \in User, s \in SUBSET Msg : AckRead(p, u, s)
    \/ RecallWrite(p) \/ DeleteWrite(p) \/ Publish(p)
    \/ AckNow(p) \/ (\E m \in Msg : AckWrite(p, m)) \/ AckReturn(p)
    \/ Abandon(p)

Next ==
    \/ Tick
    \/ \E m \in Msg : Send(m)
    \/ \E p \in Call : CallStep(p)
    \/ WorkerStart \/ Sweep \/ WorkerError

Spec == Init /\ [][Next]_vars

\* The ticker keeps firing and a sweep that has started keeps going; nothing is
\* assumed about clients, and the worker's errors are finitely many.
FairSpec == Spec /\ WF_vars(WorkerStart) /\ WF_vars(Sweep)

-----------------------------------------------------------------------------
NotLater(s, t) == t = NoTime \/ (s # NoTime /\ s <= t)

\* The sweep date is never later than either policy's own deadline, although
\* AckReadTriggers computes it from a row that others may have changed since.
ExpireIsEarliest ==
    \A m \in Msg : /\ NotLater(expire[m], autoExpire[m])
                   /\ NotLater(expire[m], burnExpire[m])

\* Reports that overlap may replace each other's deadline, but together they do
\* not postpone the removal of a message: its sweep date is never later than the
\* one it had when no report was between its read and its write.
DeadlineKept == \A m \in Msg : NotLater(expire[m], due[m])

\* A report only ever moves the sweep date of a message to an earlier time
\* (docs/design/conversation/burn_after_reading.md, 4.4).
DeadlineNeverLater == [][\A m \in Msg : NotLater(expire'[m], expire[m])]_vars

\* Without auto-delete a message gets a sweep date only after somebody other
\* than its sender has reported reading it.
BurnNeedsRecipient ==
    \A m \in Msg : AutoDur[m] = 0 /\ expire[m] # NoTime =>
        \E u \in User : u # Sender[m] /\ <<m, u>> \in reports

\* An expired message does not stay readable: some sweep takes it away, however
\* recalls, deletions, acknowledgements and failed sweeps interleave - unless a
\* report that read the row before the deadline was set postpones it first.
ExpiredIsRemoved ==
    \A m \in Msg :
        (status[m] = "normal" /\ expire[m] # NoTime /\ expire[m] <= clock)
        ~> (status[m] # "normal" \/ Before(clock, expire[m]))

\* The loop of cleanup ends: a sweep reaches an empty batch (or an error),
\* although messages keep expiring while it runs.
SweepEnds == wpc # "wait" ~> wpc = "wait"
=============================================================================
