----------------------- MODULE MessageLifecycleProofs -----------------------
(***************************************************************************)
(* Proofs about MessageLifecycle: concurrent read reports never leave a    *)
(* message with a sweep date later than one of its deadlines, for any      *)
(* number of messages, users and requests in flight.                       *)
(***************************************************************************)
EXTENDS MessageLifecycle, TLAPS

\* The initial table, requests and worker have their types.
LEMMA InitType == Init => TypeOK
BY LifecycleAssumption DEF Init, TypeOK, Time, PC, NoSnap

\* Every step keeps the types.
LEMMA NextType == TypeOK /\ [Next]_vars => TypeOK'
<1> SUFFICES ASSUME TypeOK, [Next]_vars PROVE TypeOK'
  OBVIOUS
<1> USE LifecycleAssumption
<1> USE DEF TypeOK, Time, PC, NoSnap, Return, row, expiry, callv, worker, history, Observe
<1>1. CASE Tick
  BY <1>1 DEF Tick
<1>2. ASSUME NEW m \in Msg, Send(m) PROVE TypeOK'
  BY <1>2 DEF Send
<1>3. ASSUME NEW p \in Call, CallStep(p) PROVE TypeOK'
  <2>1. ASSUME NEW u \in User, NEW m \in Msg,
               RecallCheck(p, u, m) \/ DeleteCheck(p, u, m)
        PROVE TypeOK'
    <3>1. CASE RecallCheck(p, u, m)
      BY <3>1 DEF RecallCheck
    <3>2. CASE DeleteCheck(p, u, m)
      BY <3>2 DEF DeleteCheck
    <3> QED
      BY <2>1, <3>1, <3>2
  <2>2. ASSUME NEW u \in User, NEW s \in SUBSET Msg, AckRead(p, u, s)
        PROVE TypeOK'
    BY <2>2 DEF AckRead
  <2>3. CASE RecallWrite(p)
    BY <2>3 DEF RecallWrite, UpdateStatus
  <2>4. CASE DeleteWrite(p)
    BY <2>4 DEF DeleteWrite, UpdateStatus
  <2>5. CASE Publish(p)
    BY <2>5 DEF Publish
  <2>6. CASE AckNow(p)
    BY <2>6 DEF AckNow
  <2>7. ASSUME NEW m \in Msg, AckWrite(p, m) PROVE TypeOK'
    <3>1. BurnDeadline(p, m) \in Nat /\ FinalExpire(p, m) \in Time
      BY DEF BurnDeadline, FinalExpire
    <3> QED
      BY <2>7, <3>1 DEF AckWrite
  <2>8. CASE AckReturn(p)
    BY <2>8 DEF AckReturn
  <2>9. CASE Abandon(p)
    BY <2>9 DEF Abandon
  <2> QED
    BY <1>3, <2>1, <2>2, <2>3, <2>4, <2>5, <2>6, <2>7, <2>8, <2>9 DEF CallStep
<1>4. CASE WorkerStart
  BY <1>4 DEF WorkerStart
<1>5. CASE Sweep
  BY <1>5 DEF Sweep, FetchBatch, UpdateBatch, Expired
<1>6. CASE WorkerError
  BY <1>6 DEF WorkerError
<1>7. CASE UNCHANGED vars
  BY <1>7 DEF vars
<1> QED
  BY <1>1, <1>2, <1>3, <1>4, <1>5, <1>6, <1>7 DEF Next

\* The type invariant of the messages table, the requests and the worker.
THEOREM TypeCorrect == Spec => []TypeOK
BY InitType, NextType, PTL DEF Spec

-----------------------------------------------------------------------------
(* The inductive invariant.  A deadline read from the table was computed     *)
(* before the reader took its own time, so a report that read a burn         *)
(* deadline never replaces it; a report that read none read the auto-delete  *)
(* deadline as the sweep date.                                               *)

RowInv ==
    \A m \in Msg :
        /\ NotLater(expire[m], autoExpire[m])
        /\ NotLater(expire[m], burnExpire[m])
        /\ burnExpire[m] = NoTime => expire[m] = autoExpire[m]
        /\ burnExpire[m] # NoTime => burnExpire[m] <= clock + BurnSecs[m]
        /\ status[m] = "none" => autoExpire[m] = NoTime /\ burnExpire[m] = NoTime

SnapInv ==
    \A p \in Call : \A m \in todo[p] :
        /\ status[m] # "none"
        /\ pc[p] \in {"ackNow", "ackWrite"}
        /\ NotLater(snap[p][m].exp, autoExpire[m])
        /\ NotLater(snap[p][m].exp, snap[p][m].burn)
        /\ snap[p][m].burn = NoTime => snap[p][m].exp = autoExpire[m]
        /\ snap[p][m].burn # NoTime => snap[p][m].burn <= clock + BurnSecs[m]
        /\ pc[p] = "ackWrite" => now[p] <= clock
        /\ pc[p] = "ackWrite" /\ snap[p][m].burn # NoTime =>
             snap[p][m].burn <= BurnDeadline(p, m)

ExpiryInv == TypeOK /\ RowInv /\ SnapInv

\* The empty table satisfies the inductive invariant.
LEMMA InitExpiry == Init => ExpiryInv
BY InitType, LifecycleAssumption
DEF Init, ExpiryInv, RowInv, SnapInv, NotLater, TypeOK

\* The heart of the matter: the write of a report, computed from what the
\* report read earlier, keeps the sweep date no later than both deadlines.
LEMMA AckWriteExpiry ==
    ASSUME ExpiryInv, NEW p \in Call, NEW m \in Msg, AckWrite(p, m)
    PROVE  RowInv'
<1> USE LifecycleAssumption
<1> DEFINE d == now[p] + BurnSecs[m]
           f == FinalExpire(p, m)
           b == snap[p][m].burn
           e == snap[p][m].exp
<1>1. /\ TypeOK /\ RowInv /\ SnapInv /\ m \in todo[p] /\ pc[p] = "ackWrite"
      /\ UNCHANGED <<clock, status, autoExpire>>
  BY DEF ExpiryInv, AckWrite, row
<1>2. /\ d \in Nat /\ clock \in Nat /\ d <= clock + BurnSecs[m]
      /\ b \in Time /\ e \in Time /\ autoExpire[m] \in Time
      /\ expire[m] \in Time /\ burnExpire[m] \in Time
  BY <1>1 DEF TypeOK, SnapInv
<1>3. f = IF autoExpire[m] # NoTime /\ autoExpire[m] < d THEN autoExpire[m] ELSE d
  BY <1>2 DEF FinalExpire, BurnDeadline, Before
<1>4. /\ burnExpire' = [burnExpire EXCEPT ![m] =
            IF status[m] = "normal" /\ Before(d, b) THEN d ELSE @]
      /\ expire' = [expire EXCEPT ![m] =
            IF status[m] = "normal" /\ Before(f, e) THEN f ELSE @]
  BY DEF AckWrite, BurnDeadline
<1>5. /\ NotLater(e, autoExpire[m]) /\ NotLater(e, b)
      /\ b = NoTime => e = autoExpire[m]
      /\ b # NoTime => b <= d
  BY <1>1 DEF SnapInv, BurnDeadline
<1>6. /\ NotLater(expire[m], autoExpire[m])
      /\ NotLater(expire[m], burnExpire[m])
      /\ burnExpire[m] = NoTime => expire[m] = autoExpire[m]
      /\ burnExpire[m] # NoTime => burnExpire[m] <= clock + BurnSecs[m]
      /\ status[m] # "none"
  BY <1>1 DEF RowInv, SnapInv
<1>7. Before(d, b) <=> b = NoTime
  BY <1>2, <1>5 DEF Before, Time
<1>8. Before(f, e) => b = NoTime
  BY <1>2, <1>3, <1>5 DEF Before, NotLater, Time
<1>9. /\ NotLater(expire'[m], autoExpire[m])
      /\ NotLater(expire'[m], burnExpire'[m])
      /\ burnExpire'[m] = NoTime => expire'[m] = autoExpire[m]
      /\ burnExpire'[m] # NoTime => burnExpire'[m] <= clock + BurnSecs[m]
  <2>1. CASE status[m] = "normal" /\ b = NoTime
    <3>1. burnExpire'[m] = d
      BY <2>1, <1>1, <1>4, <1>7 DEF TypeOK
    <3>2. CASE Before(f, e)
      <4>1. expire'[m] = f
        BY <3>2, <2>1, <1>1, <1>4 DEF TypeOK
      <4> QED
        BY <4>1, <3>1, <1>2, <1>3 DEF NotLater, Time
    <3>3. CASE ~Before(f, e)
      <4>1. expire'[m] = expire[m]
        BY <3>3, <2>1, <1>1, <1>4 DEF TypeOK
      <4>2. e = autoExpire[m] /\ autoExpire[m] \in Nat /\ autoExpire[m] <= f
        BY <3>3, <2>1, <1>2, <1>3, <1>5 DEF Before, Time
      <4> QED
        BY <4>1, <4>2, <3>1, <1>2, <1>3, <1>6 DEF NotLater, Time
    <3> QED
      BY <3>2, <3>3
  <2>2. CASE ~(status[m] = "normal" /\ b = NoTime)
    <3>1. burnExpire'[m] = burnExpire[m] /\ expire'[m] = expire[m]
      BY <2>2, <1>1, <1>4, <1>7, <1>8 DEF TypeOK
    <3> QED
      BY <3>1, <1>6
  <2> QED
    BY <2>1, <2>2
<1>10. \A n \in Msg \ {m} : burnExpire'[n] = burnExpire[n] /\ expire'[n] = expire[n]
  BY <1>1, <1>4 DEF TypeOK
<1> QED
  BY <1>1, <1>6, <1>9, <1>10 DEF RowInv

\* Every step keeps the invariant on the rows ...
LEMMA RowStep == ExpiryInv /\ [Next]_vars => RowInv'
<1> SUFFICES ASSUME ExpiryInv, [Next]_vars PROVE RowInv'
  OBVIOUS
<1> USE LifecycleAssumption DEF ExpiryInv, TypeOK, Time, row, expiry, callv, worker
<1>1. CASE Tick
  BY <1>1 DEF Tick, RowInv
<1>2. ASSUME NEW m \in Msg, Send(m) PROVE RowInv'
  BY <1>2 DEF Send, RowInv, NotLater
<1>3. ASSUME NEW p \in Call, NEW m \in Msg, AckWrite(p, m) PROVE RowInv'
  BY <1>3, AckWriteExpiry
<1>4. ASSUME NEW m \in Msg, NEW s \in {"recall", "deleted"}, UpdateStatus(m, s),
             UNCHANGED <<clock, row, expiry>>
      PROVE RowInv'
  BY <1>4 DEF UpdateStatus, RowInv
<1>5. CASE UNCHANGED <<clock, status, row, expiry>>
  BY <1>5 DEF RowInv
<1>6. CASE UpdateBatch
  <2>1. UNCHANGED <<clock, row, expiry>> /\ \A m \in Msg : status'[m] = "none" => status[m] = "none"
    BY <1>6 DEF UpdateBatch
  <2> QED
    BY <2>1 DEF RowInv
<1>7. ASSUME NEW p \in Call, CallStep(p), ~ \E m \in Msg : AckWrite(p, m)
      PROVE RowInv'
  <2>1. CASE RecallWrite(p)
    BY <2>1, <1>4 DEF RecallWrite
  <2>2. CASE DeleteWrite(p)
    BY <2>2, <1>4 DEF DeleteWrite
  <2>3. CASE ~RecallWrite(p) /\ ~DeleteWrite(p)
    BY <2>3, <1>5, <1>7 DEF CallStep, RecallCheck, DeleteCheck, AckRead, Publish,
                            AckNow, AckReturn, Abandon
  <2> QED
    BY <2>1, <2>2, <2>3
<1>8. CASE WorkerStart \/ WorkerError \/ \E b \in SUBSET Msg : FetchBatch(b)
  BY <1>8, <1>5 DEF WorkerStart, WorkerError, FetchBatch
<1>9. CASE UNCHANGED vars
  BY <1>9, <1>5 DEF vars
<1> QED
  BY <1>1, <1>2, <1>3, <1>6, <1>7, <1>8, <1>9 DEF Next, Sweep

\* ... and on what the reports in flight have read.
LEMMA SnapStep == ExpiryInv /\ [Next]_vars => SnapInv'
<1> SUFFICES ASSUME ExpiryInv, [Next]_vars PROVE SnapInv'
  OBVIOUS
<1> USE LifecycleAssumption
<1> USE DEF ExpiryInv, TypeOK, Time, row, expiry, callv, worker, SnapInv, BurnDeadline
<1>1. CASE Tick
  BY <1>1 DEF Tick
<1>2. ASSUME NEW m \in Msg, Send(m) PROVE SnapInv'
  BY <1>2 DEF Send
<1>3. ASSUME NEW p \in Call, CallStep(p) PROVE SnapInv'
  <2>1. ASSUME NEW u \in User, NEW m \in Msg,
               RecallCheck(p, u, m) \/ DeleteCheck(p, u, m)
        PROVE SnapInv'
    <3>1. CASE RecallCheck(p, u, m)
      BY <3>1 DEF RecallCheck
    <3>2. CASE DeleteCheck(p, u, m)
      BY <3>2 DEF DeleteCheck
    <3> QED
      BY <2>1, <3>1, <3>2
  <2>2. ASSUME NEW u \in User, NEW s \in SUBSET Msg, AckRead(p, u, s)
        PROVE SnapInv'
    BY <2>2 DEF AckRead, RowInv
  <2>3. CASE RecallWrite(p)
    BY <2>3 DEF RecallWrite, UpdateStatus
  <2>4. CASE DeleteWrite(p)
    BY <2>4 DEF DeleteWrite, UpdateStatus
  <2>5. CASE Publish(p)
    BY <2>5 DEF Publish, Return
  <2>6. CASE AckNow(p)
    BY <2>6 DEF AckNow
  <2>7. ASSUME NEW m \in Msg, AckWrite(p, m) PROVE SnapInv'
    BY <2>7 DEF AckWrite
  <2>8. CASE AckReturn(p)
    BY <2>8 DEF AckReturn, Return
  <2>9. CASE Abandon(p)
    BY <2>9 DEF Abandon, Return
  <2> QED
    BY <1>3, <2>1, <2>2, <2>3, <2>4, <2>5, <2>6, <2>7, <2>8, <2>9 DEF CallStep
<1>4. CASE WorkerStart \/ WorkerError \/ \E b \in SUBSET Msg : FetchBatch(b)
  BY <1>4 DEF WorkerStart, WorkerError, FetchBatch
<1>5. CASE UpdateBatch
  BY <1>5 DEF UpdateBatch
<1>6. CASE UNCHANGED vars
  BY <1>6 DEF vars
<1> QED
  BY <1>1, <1>2, <1>3, <1>4, <1>5, <1>6 DEF Next, Sweep

\* The inductive invariant holds always.
LEMMA ExpiryInvariance == Spec => []ExpiryInv
<1>1. ExpiryInv /\ [Next]_vars => ExpiryInv'
  BY NextType, RowStep, SnapStep DEF ExpiryInv
<1> QED
  BY InitExpiry, <1>1, PTL DEF Spec

\* However many devices report, repeat and race, the sweep date is never later
\* than the auto-delete or the burn deadline stored with the message.
THEOREM ExpiryCorrect == Spec => []ExpireIsEarliest
<1>1. ExpiryInv => ExpireIsEarliest
  BY DEF ExpiryInv, RowInv, ExpireIsEarliest
<1> QED
  BY ExpiryInvariance, <1>1, PTL

-----------------------------------------------------------------------------
\* The strengthening of DeadlineKept: the sweep date a report has read, which
\* bounds what it may write, is not later than the settled one.
DueInv ==
    /\ DeadlineKept
    /\ \A p \in Call : \A m \in todo[p] : NotLater(snap[p][m].exp, due[m])

\* A message that a report has yet to write keeps its settled date; of another
\* one it is the sweep date or what it was.
LEMMA Settles ==
  ASSUME TypeOK, Observe \/ due' = due, NEW m \in Msg
  PROVE  /\ (\E p \in Call : m \in todo'[p]) => due'[m] = due[m]
         /\ due'[m] \in {due[m], expire'[m]}
BY DEF TypeOK, Observe

\* The steps that write no sweep date and read no row.
LEMMA OtherDue ==
  ASSUME TypeOK, DueInv, Observe \/ due' = due, expire' = expire,
         \A q \in Call : /\ todo'[q] \subseteq todo[q]
                         /\ \A m \in todo'[q] : snap'[q][m] = snap[q][m]
  PROVE  DueInv'
<1>1. DeadlineKept'
  <2> SUFFICES ASSUME NEW m \in Msg PROVE NotLater(expire'[m], due'[m])
    BY DEF DeadlineKept, NotLater
  <2>1. due'[m] \in {due[m], expire[m]} /\ expire[m] \in Time /\ NotLater(expire[m], due[m])
    BY Settles DEF TypeOK, DueInv, DeadlineKept
  <2> QED BY <2>1 DEF NotLater, Time
<1>2. ASSUME NEW q \in Call, NEW m \in todo'[q] PROVE NotLater(snap'[q][m].exp, due'[m])
  <2>1. m \in todo[q] /\ m \in Msg /\ snap'[q][m] = snap[q][m]
    BY <1>2 DEF TypeOK
  <2>2. due'[m] = due[m]
    BY <1>2, <2>1, Settles
  <2> QED BY <2>1, <2>2 DEF DueInv
<1> QED BY <1>1, <1>2 DEF DueInv, NotLater

\* SendMessage: no report is about the message yet.
LEMMA SendDue ==
  ASSUME ExpiryInv, DueInv, NEW n \in Msg, Send(n)
  PROVE  DueInv'
<1>1. TypeOK /\ todo' = todo /\ snap' = snap /\ Observe
  BY DEF ExpiryInv, Send, callv
<1>2. \A m \in Msg : m # n => expire'[m] = expire[m]
  BY <1>1 DEF Send, TypeOK
<1>3. expire'[n] \in Time
  BY <1>1, LifecycleAssumption DEF Send, TypeOK, Time
<1>4. \A p \in Call : n \notin todo'[p]
  BY <1>1 DEF ExpiryInv, SnapInv, Send
<1>5. DeadlineKept'
  <2> SUFFICES ASSUME NEW m \in Msg PROVE NotLater(expire'[m], due'[m])
    BY DEF DeadlineKept, NotLater
  <2>1. CASE m = n
    <3>1. due'[m] = expire'[m]
      BY <2>1, <1>1, <1>4 DEF Observe
    <3> QED BY <2>1, <3>1, <1>3 DEF NotLater, Time
  <2>2. CASE m # n
    <3>1. /\ due'[m] \in {due[m], expire[m]} /\ expire'[m] = expire[m] /\ expire[m] \in Time
          /\ NotLater(expire[m], due[m])
      BY <2>2, <1>1, <1>2, Settles DEF TypeOK, DueInv, DeadlineKept
    <3> QED BY <3>1 DEF NotLater, Time
  <2> QED BY <2>1, <2>2
<1>6. ASSUME NEW q \in Call, NEW m \in todo'[q] PROVE NotLater(snap'[q][m].exp, due'[m])
  <2>1. m \in Msg /\ due'[m] = due[m]
    BY <1>6, <1>1, Settles DEF TypeOK
  <2> QED BY <2>1, <1>1, <1>6 DEF DueInv
<1> QED BY <1>5, <1>6 DEF DueInv, NotLater

\* AckRead reads a sweep date that is not later than the settled one.
LEMMA AckReadDue ==
  ASSUME TypeOK, DueInv, NEW p \in Call, NEW u \in User, NEW s \in SUBSET Msg, AckRead(p, u, s)
  PROVE  DueInv'
<1>1. due' = due /\ expire' = expire
  BY DEF AckRead, expiry
<1>2. ASSUME NEW q \in Call, NEW m \in todo'[q] PROVE NotLater(snap'[q][m].exp, due[m])
  <2>1. CASE q = p
    <3>1. m \in Msg /\ snap'[q][m].exp = expire[m]
      BY <2>1, <1>2 DEF AckRead, TypeOK
    <3> QED BY <3>1 DEF DueInv, DeadlineKept
  <2>2. CASE q # p
    <3>1. m \in todo[q] /\ snap'[q] = snap[q]
      BY <2>2, <1>2 DEF AckRead, TypeOK
    <3> QED BY <3>1 DEF DueInv
  <2> QED BY <2>1, <2>2
<1> QED BY <1>1, <1>2 DEF DueInv, DeadlineKept, NotLater

\* AckWrite writes a sweep date only if it is before the one the report has read.
LEMMA AckWriteDue ==
  ASSUME TypeOK, DueInv, NEW p \in Call, NEW n \in Msg, AckWrite(p, n)
  PROVE  DueInv'
<1>1. Observe /\ snap' = snap /\ n \in todo[p] /\ \A q \in Call : todo'[q] \subseteq todo[q]
  BY DEF AckWrite, TypeOK
<1>2. \A m \in Msg : m # n => expire'[m] = expire[m]
  BY DEF AckWrite, TypeOK
<1>3. FinalExpire(p, n) \in Nat
  BY LifecycleAssumption DEF TypeOK, FinalExpire, BurnDeadline, Time
<1>4. \/ expire'[n] = expire[n]
      \/ expire'[n] = FinalExpire(p, n) /\ Before(FinalExpire(p, n), snap[p][n].exp)
  BY DEF AckWrite, TypeOK
<1>5. /\ due[n] \in Time /\ expire[n] \in Time /\ snap[p][n].exp \in Time
      /\ NotLater(snap[p][n].exp, due[n]) /\ NotLater(expire[n], due[n])
  BY <1>1 DEF DueInv, DeadlineKept, TypeOK
<1>6. NotLater(expire'[n], due[n]) /\ expire'[n] \in Time
  BY <1>3, <1>4, <1>5 DEF Before, NotLater, Time
<1>7. DeadlineKept'
  <2> SUFFICES ASSUME NEW m \in Msg PROVE NotLater(expire'[m], due'[m])
    BY DEF DeadlineKept, NotLater
  <2>1. /\ due'[m] \in {due[m], expire'[m]} /\ expire'[m] \in Time
        /\ NotLater(expire'[m], due[m])
    BY <1>1, <1>2, <1>6, Settles DEF TypeOK, DueInv, DeadlineKept
  <2> QED BY <2>1 DEF NotLater, Time
<1>8. ASSUME NEW q \in Call, NEW m \in todo'[q] PROVE NotLater(snap'[q][m].exp, due'[m])
  <2>1. m \in todo[q] /\ m \in Msg
    BY <1>1, <1>8 DEF TypeOK
  <2>2. due'[m] = due[m]
    BY <1>1, <1>8, <2>1, Settles
  <2> QED BY <1>1, <2>1, <2>2 DEF DueInv
<1> QED BY <1>7, <1>8 DEF DueInv, NotLater

\* Every step keeps DueInv.
LEMMA DueStep == ExpiryInv /\ DueInv /\ [Next]_vars => DueInv'
<1> SUFFICES ASSUME ExpiryInv, DueInv, [Next]_vars PROVE DueInv'
  OBVIOUS
<1>0. TypeOK
  BY DEF ExpiryInv
<1>1. CASE UNCHANGED vars
  BY <1>0, <1>1, OtherDue DEF vars
<1>2. CASE Tick \/ WorkerStart \/ Sweep \/ WorkerError
  BY <1>0, <1>2, OtherDue
  DEF Tick, WorkerStart, Sweep, FetchBatch, UpdateBatch, WorkerError, expiry, callv, history
<1>3. ASSUME NEW m \in Msg, Send(m) PROVE DueInv'
  BY <1>3, SendDue
<1>4. ASSUME NEW p \in Call, CallStep(p) PROVE DueInv'
  <2>1. ASSUME NEW u \in User, NEW s \in SUBSET Msg, AckRead(p, u, s) PROVE DueInv'
    BY <1>0, <2>1, AckReadDue
  <2>2. ASSUME NEW m \in Msg, AckWrite(p, m) PROVE DueInv'
    BY <1>0, <2>2, AckWriteDue
  <2>3. ASSUME NEW u \in User, NEW m \in Msg, RecallCheck(p, u, m) \/ DeleteCheck(p, u, m)
        PROVE  DueInv'
    BY <1>0, <2>3, OtherDue DEF RecallCheck, DeleteCheck, expiry, history
  <2>4. CASE RecallWrite(p) \/ DeleteWrite(p) \/ AckNow(p)
    BY <1>0, <2>4, OtherDue DEF RecallWrite, DeleteWrite, AckNow, expiry, history
  <2>5. CASE Publish(p) \/ AckReturn(p) \/ Abandon(p)
    <3>1. (Observe \/ due' = due) /\ expire' = expire /\ Return(p)
      BY <2>5 DEF Publish, AckReturn, Abandon, expiry, history
    <3>2. \A q \in Call : /\ todo'[q] \subseteq todo[q]
                          /\ \A m \in todo'[q] : snap'[q][m] = snap[q][m]
      BY <1>0, <3>1 DEF Return, TypeOK
    <3> QED BY <1>0, <3>1, <3>2, OtherDue
  <2> QED BY <1>4, <2>1, <2>2, <2>3, <2>4, <2>5 DEF CallStep
<1> QED BY <1>1, <1>2, <1>3, <1>4 DEF Next

\* However many reports of AckReadTriggers overlap, and whatever they write from
\* rows that are stale by then, together they never postpone the sweep date that
\* a message had before they overlapped.
THEOREM DeadlineCorrect == Spec => []DeadlineKept
<1>1. Init => DueInv
  BY LifecycleAssumption DEF Init, DueInv, DeadlineKept, NotLater
<1>2. DueInv => DeadlineKept
  BY DEF DueInv
<1> QED BY <1>1, <1>2, DueStep, ExpiryInvariance, PTL DEF Spec

-----------------------------------------------------------------------------
\* Somebody other than the sender has reported reading m.
ReadByRecipient(m) == \E u \in User : u # Sender[m] /\ <<m, u>> \in reports

\* The strengthening of BurnNeedsRecipient: what AckReadTriggers has yet to
\* write is only about messages that a recipient has reported.
BurnInv ==
    /\ \A m \in Msg : AutoDur[m] = 0 /\ expire[m] # NoTime => ReadByRecipient(m)
    /\ \A p \in Call : \A m \in todo[p] : ReadByRecipient(m)

\* A report is never withdrawn, so who has read a message stays its reader.
LEMMA ReportsGrow ==
  ASSUME reports \subseteq reports', NEW m \in Msg, ReadByRecipient(m)
  PROVE  ReadByRecipient(m)'
  BY DEF ReadByRecipient

\* AckRead selects for its writes only messages it reports for another user.
LEMMA AckReadBurn ==
  ASSUME TypeOK, BurnInv, NEW p \in Call, NEW u \in User, NEW s \in SUBSET Msg,
         AckRead(p, u, s)
  PROVE  BurnInv'
<1>1. reports \subseteq reports'
  BY DEF AckRead
<1>2. ASSUME NEW m \in Msg, (AutoDur[m] = 0 /\ expire[m] # NoTime)'
      PROVE  ReadByRecipient(m)'
  BY <1>1, <1>2, ReportsGrow DEF AckRead, BurnInv, expiry
<1>3. ASSUME NEW q \in Call, NEW m \in todo'[q]
      PROVE  ReadByRecipient(m)'
  <2>1. CASE q = p
    <3>1. m \in s /\ status[m] = "normal" /\ BurnSecs[m] > 0 /\ Sender[m] # u
      BY <1>3, <2>1 DEF AckRead, TypeOK
    <3>2. <<m, u>> \in reports'
      BY <3>1 DEF AckRead
    <3> QED BY <3>1, <3>2 DEF ReadByRecipient
  <2>2. CASE q # p
    <3>1. m \in todo[q] /\ m \in Msg
      BY <1>3, <2>2 DEF AckRead, TypeOK
    <3> QED BY <1>1, <3>1, ReportsGrow DEF BurnInv
  <2> QED BY <2>1, <2>2
<1> QED BY <1>2, <1>3 DEF BurnInv

\* AckWrite sets the sweep date of a message on its list.
LEMMA AckWriteBurn ==
  ASSUME TypeOK, BurnInv, NEW p \in Call, NEW n \in Msg, AckWrite(p, n)
  PROVE  BurnInv'
<1>1. reports' = reports /\ \A m \in Msg : ReadByRecipient(m) => ReadByRecipient(m)'
  BY DEF AckWrite, ReadByRecipient
<1>2. ReadByRecipient(n)
  BY DEF AckWrite, BurnInv
<1>3. \A m \in Msg : m # n => expire'[m] = expire[m]
  BY DEF AckWrite, TypeOK
<1>4. \A q \in Call : todo'[q] \subseteq todo[q] /\ todo[q] \subseteq Msg
  BY DEF AckWrite, TypeOK
<1> QED BY <1>1, <1>2, <1>3, <1>4 DEF BurnInv

\* The steps that neither report nor set a sweep date: their lists only shrink.
LEMMA OtherBurn ==
  ASSUME TypeOK, BurnInv, reports' = reports, expire' = expire,
         \A q \in Call : todo'[q] \subseteq todo[q]
  PROVE  BurnInv'
<1>1. \A m \in Msg : ReadByRecipient(m) => ReadByRecipient(m)'
  BY DEF ReadByRecipient
<1>2. \A q \in Call : todo[q] \subseteq Msg
  BY DEF TypeOK
<1> QED BY <1>1, <1>2 DEF BurnInv

\* Every step of the specification keeps BurnInv.
LEMMA BurnStep == TypeOK /\ BurnInv /\ [Next]_vars => BurnInv'
<1> SUFFICES ASSUME TypeOK, BurnInv, [Next]_vars PROVE BurnInv'
  OBVIOUS
<1>1. CASE UNCHANGED vars
  BY <1>1, OtherBurn DEF vars
<1>2. CASE Tick \/ WorkerStart \/ Sweep \/ WorkerError
  BY <1>2, OtherBurn
  DEF Tick, WorkerStart, Sweep, FetchBatch, UpdateBatch, WorkerError, expiry, callv, history
<1>3. ASSUME NEW m \in Msg, Send(m) PROVE BurnInv'
  <2>1. AutoDur[m] = 0 => expire'[m] = NoTime
    BY <1>3, LifecycleAssumption DEF Send, TypeOK
  <2>2. \A n \in Msg : n # m => expire'[n] = expire[n]
    BY <1>3 DEF Send, TypeOK
  <2>3. todo' = todo /\ \A n \in Msg : ReadByRecipient(n) => ReadByRecipient(n)'
    BY <1>3 DEF Send, callv, ReadByRecipient
  <2>4. \A q \in Call : todo[q] \subseteq Msg
    BY DEF TypeOK
  <2> QED BY <2>1, <2>2, <2>3, <2>4 DEF BurnInv
<1>4. ASSUME NEW p \in Call, CallStep(p) PROVE BurnInv'
  <2>1. ASSUME NEW u \in User, NEW s \in SUBSET Msg, AckRead(p, u, s) PROVE BurnInv'
    BY <2>1, AckReadBurn
  <2>2. ASSUME NEW m \in Msg, AckWrite(p, m) PROVE BurnInv'
    BY <2>2, AckWriteBurn
  <2>3. ASSUME NEW u \in User, NEW m \in Msg, RecallCheck(p, u, m) \/ DeleteCheck(p, u, m)
        PROVE  BurnInv'
    BY <2>3, OtherBurn DEF RecallCheck, DeleteCheck, expiry, history
  <2>4. CASE RecallWrite(p) \/ DeleteWrite(p) \/ AckNow(p)
    BY <2>4, OtherBurn DEF RecallWrite, DeleteWrite, AckNow, expiry, history
  <2>5. CASE Publish(p) \/ AckReturn(p) \/ Abandon(p)
    <3>1. reports' = reports /\ expire' = expire /\ Return(p)
      BY <2>5 DEF Publish, AckReturn, Abandon, expiry, history
    <3>2. \A q \in Call : todo'[q] \subseteq todo[q]
      BY <3>1 DEF Return, TypeOK
    <3> QED BY <3>1, <3>2, OtherBurn
  <2> QED BY <1>4, <2>1, <2>2, <2>3, <2>4, <2>5 DEF CallStep
<1> QED BY <1>1, <1>2, <1>3, <1>4 DEF Next

\* For any messages, users and overlapping calls of AckReadTriggers: without
\* auto-delete a message gets a sweep date only after a recipient reported it.
THEOREM BurnCorrect == Spec => []BurnNeedsRecipient
<1>1. Init => BurnInv
  BY DEF Init, BurnInv
<1>2. BurnInv => BurnNeedsRecipient
  BY DEF BurnInv, BurnNeedsRecipient, ReadByRecipient
<1> QED BY <1>1, <1>2, BurnStep, TypeCorrect, PTL DEF Spec
=============================================================================
