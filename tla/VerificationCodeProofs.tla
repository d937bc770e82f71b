----------------------- MODULE VerificationCodeProofs -----------------------
(***************************************************************************)
(* Proofs about VerificationCode: its types, that a code which was used,   *)
(* locked, expired or replaced is not accepted again, and the bound on the *)
(* wrong guesses.                                                          *)
(***************************************************************************)
EXTENDS VerificationCode, FiniteSetTheorems, TLAPS

\* There is a rate limit, and each is a number.
LEMMA LimitFacts == Len(Limit) \in Nat /\ Len(Limit) > 0 /\ \A k \in Key : Limit[k] \in Nat
  BY CodeAssumption DEF Key

\* The types hold in the beginning.
LEMMA InitType == Init => TypeOK
<1> SUFFICES ASSUME Init PROVE TypeOK
  OBVIOUS
<1> USE CodeAssumption, LimitFacts DEF Init
<1>1. /\ count \in [Key -> Nat] /\ lasting \subseteq Key
      /\ active \in Codes /\ attempts \in Nat /\ ttl \in {"none", "old", "own"}
      /\ status \in [SendCall -> Statuses] /\ latest \in Codes
  BY DEF Codes, Statuses, NoCode
<1>2. /\ pc \in [SendCall \cup Verifier -> SendPC \cup VerifyPC \cup {"idle"}]
      /\ \A s \in SendCall : pc[s] = "setNX"
      /\ \A v \in Verifier : pc[v] = "idle"
  BY DEF SendPC
<1>3. /\ held \in [SendCall -> 0..Len(Limit)] /\ undone \in [SendCall -> 0..Len(Limit)]
      /\ prev \in [SendCall -> Codes] /\ code \in [Verifier -> Codes]
      /\ \A s \in SendCall : held[s] < Len(Limit) /\ undone[s] <= held[s]
  BY DEF Codes
<1>4. /\ verifies \in 0..MaxVerify /\ errors \in 0..MaxErrors
      /\ wrong \in [SendCall -> Nat] /\ closed \subseteq SendCall
      /\ barred \in [Verifier -> SUBSET SendCall]
  OBVIOUS
<1>5. reused \in BOOLEAN /\ undeleted \in BOOLEAN /\ due \in BOOLEAN
  OBVIOUS
<1>6. QED
  BY <1>1, <1>2, <1>3, <1>4, <1>5 DEF TypeOK, SendPC, VerifyPC

\* Facts about the shared pieces of the actions.
LEMMA DelType ==
    ASSUME TypeOK, Del
    PROVE  /\ active' \in Codes /\ attempts' \in Nat /\ ttl' \in {"none", "old", "own"}
           /\ due' \in BOOLEAN /\ errors' \in 0..MaxErrors /\ undeleted' \in BOOLEAN
<1> USE CodeAssumption DEF TypeOK, Del, Fails, store, Codes
<1>1. active' \in Codes /\ attempts' \in Nat /\ ttl' \in {"none", "old", "own"}
  OBVIOUS
<1>2. errors' \in 0..MaxErrors
  OBVIOUS
<1>3. due' \in BOOLEAN
  BY Zenon
<1>4. undeleted' \in BOOLEAN
  BY Zenon
<1>5. QED
  BY <1>1, <1>2, <1>3, <1>4

\* Deleting a rate counter keeps the types.
LEMMA DelCounterType ==
    ASSUME TypeOK, NEW k \in Key, DelCounter(k)
    PROVE  /\ count' \in [Key -> Nat] /\ lasting' \subseteq Key
           /\ errors' \in 0..MaxErrors
<1> USE CodeAssumption
<1>0. /\ count \in [Key -> Nat] /\ lasting \subseteq Key
      /\ errors \in 0..MaxErrors
  BY DEF TypeOK
<1>1. CASE Fails /\ UNCHANGED counters
  BY <1>0, <1>1 DEF Fails, counters
<1>2. CASE /\ count' = [count EXCEPT ![k] = 0] /\ lasting' = lasting \ {k}
           /\ UNCHANGED errors
  BY <1>0, <1>2
<1>3. QED
  BY <1>1, <1>2 DEF DelCounter

\* Updating an audit row keeps the types.
LEMMA StatusType ==
    ASSUME TypeOK, NEW c \in SendCall, NEW st \in Statuses, TrySetStatus(c, st)
    PROVE  status' \in [SendCall -> Statuses] /\ errors' \in 0..MaxErrors
<1> USE CodeAssumption DEF TypeOK
<1>1. CASE SetStatus(c, st)
  BY <1>1 DEF SetStatus
<1>2. CASE Fails /\ UNCHANGED status
  BY <1>2 DEF Fails
<1>3. QED
  BY <1>1, <1>2 DEF TrySetStatus

\* A step of SendCode leaves the calls of VerifyCode alone, and the other way round.
SendLocal ==
    /\ pc \in [SendCall \cup Verifier -> SendPC \cup VerifyPC \cup {"idle"}]
    /\ \A s \in SendCall : pc[s] \in SendPC
    /\ \A v \in Verifier : pc[v] \in VerifyPC \cup {"idle"}
    /\ held \in [SendCall -> 0..Len(Limit)]
    /\ undone \in [SendCall -> 0..Len(Limit)]
    /\ prev \in [SendCall -> Codes]
    /\ \A s \in SendCall : /\ pc[s] \in {"setNX", "incr", "breach"} => held[s] < Len(Limit)
                           /\ pc[s] = "cancelWrite" => prev[s] \in SendCall
                           /\ undone[s] <= held[s]
                           /\ pc[s] # "rollback" => undone[s] = 0
VerifyLocal ==
    /\ code \in [Verifier -> Codes]
    /\ barred \in [Verifier -> SUBSET SendCall]
    /\ \A v \in Verifier : pc[v] \in VerifyPC => code[v] \in SendCall
Shared ==
    /\ count \in [Key -> Nat] /\ lasting \subseteq Key
    /\ active \in Codes /\ attempts \in Nat /\ ttl \in {"none", "old", "own"}
    /\ status \in [SendCall -> Statuses] /\ latest \in Codes
    /\ verifies \in 0..MaxVerify /\ errors \in 0..MaxErrors
    /\ wrong \in [SendCall -> Nat]
    /\ closed \subseteq SendCall
Flags == due \in BOOLEAN /\ reused \in BOOLEAN /\ undeleted \in BOOLEAN

\* TypeOK, variable by variable.
LEMMA TypeParts ==
    /\ TypeOK <=> Shared /\ SendLocal /\ VerifyLocal /\ Flags
    /\ TypeOK' <=> Shared' /\ SendLocal' /\ VerifyLocal' /\ Flags'
  BY Zenon DEF TypeOK, Shared, SendLocal, VerifyLocal, Flags


\* The steps of SendCode keep the types.
LEMMA SendType ==
    ASSUME TypeOK, NEW s \in SendCall, SendStep(s)
    PROVE  TypeOK'
<1>0. Shared /\ SendLocal /\ VerifyLocal /\ Flags
  BY TypeParts
<1> s \notin Verifier
  BY CodeAssumption
<1>1. CASE SetNX(s)
  <2>0. /\ pc[s] = "setNX"
        /\ UNCHANGED <<lasting, store, rows, undone, prev, code, verifies, errors,
                       ghosts, undeleted>>
    BY <1>1, Zenon DEF SetNX
  <2>a. Flags'
    BY <2>0, <1>0, Zenon DEF Flags, store, ghosts
  <2>1. CASE count[Current(s)] = 0
    <3>0. count' = [count EXCEPT ![Current(s)] = 1] /\ Admitted(s)
      BY <1>1, <2>1, Zenon DEF SetNX
    <3>1. Shared'
      BY <1>0, <2>0, <3>0 DEF Shared, store, rows, ghosts
    <3>2. /\ held[s] + 1 \in 0..Len(Limit)
          /\ Current(s) # Len(Limit) => held[s] + 1 < Len(Limit)
      BY <1>0, <2>0, LimitFacts DEF SendLocal, Current
    <3>3. SendLocal'
      BY <1>0, <2>0, <3>0, <3>2, LimitFacts DEF SendLocal, SendPC, Admitted
    <3>4. VerifyLocal'
      BY <1>0, <2>0, <3>0 DEF SendLocal, VerifyLocal, VerifyPC, Admitted, ghosts
    <3>6. QED
      BY <3>1, <3>3, <3>4, <2>a, TypeParts
  <2>2. CASE count[Current(s)] # 0
    <3>0. pc' = [pc EXCEPT ![s] = "incr"] /\ UNCHANGED <<count, held>>
      BY <1>1, <2>2, Zenon DEF SetNX
    <3>1. Shared'
      BY <1>0, <2>0, <3>0 DEF Shared, store, rows, ghosts
    <3>2. SendLocal'
      BY <1>0, <2>0, <3>0 DEF SendLocal, SendPC
    <3>3. VerifyLocal'
      BY <1>0, <2>0, <3>0 DEF SendLocal, VerifyLocal, VerifyPC, ghosts
    <3>5. QED
      BY <3>1, <3>2, <3>3, <2>a, TypeParts
  <2>3. QED
    BY <2>1, <2>2
<1>2. CASE Incr(s)
  <2> DEFINE over == Limit[Current(s)] > 0 /\ count'[Current(s)] > Limit[Current(s)]
  <2>0. /\ Current(s) \in Key
        /\ held[s] + 1 \in 0..Len(Limit)
        /\ held[s] < Len(Limit)
        /\ Current(s) # Len(Limit) => held[s] + 1 < Len(Limit)
    BY <1>2, <1>0, LimitFacts DEF Incr, SendLocal, Current, Key
  <2>1. Shared'
    BY <2>0, <1>2, <1>0 DEF Incr, Shared, store, rows, ghosts
  <2>2. \/ pc' = [pc EXCEPT ![s] = "breach"] /\ UNCHANGED held
        \/ Admitted(s)
    BY <1>2 DEF Incr
  <2>3. SendLocal'
    <3> USE <2>0, <1>2, <1>0, LimitFacts DEF Incr, SendLocal, SendPC
    <3>1. CASE pc' = [pc EXCEPT ![s] = "breach"] /\ UNCHANGED held
      BY <3>1
    <3>2. CASE Admitted(s)
      BY <3>2 DEF Admitted
    <3>3. QED
      BY <3>1, <3>2, <2>2
  <2>4. VerifyLocal'
    BY <2>2, <1>2, <1>0 DEF Incr, SendLocal, VerifyLocal, VerifyPC, Admitted, ghosts
  <2>5. Flags'
    BY <1>2, <1>0, Zenon DEF Flags, Incr, store, ghosts
  <2>6. QED
    BY <2>1, <2>3, <2>4, <2>5, TypeParts
<1>3. CASE Breach(s)
  <2> USE <1>3 DEF Breach, Goto, ghosts, store, rows, counters, send
  <2>1. Shared'
    BY <1>0, CodeAssumption, LimitFacts, DelCounterType, LimitFacts DEF Shared, SendLocal, Current, Key
  <2>2. SendLocal'
    BY <1>0, LimitFacts DEF SendLocal, Shared, SendPC, Key, Current
  <2>3. VerifyLocal'
    BY <1>0 DEF SendLocal, VerifyLocal, VerifyPC
  <2>4. Flags'
    BY <1>0, Zenon DEF Flags
  <2>5. QED
    BY <2>1, <2>2, <2>3, <2>4, TypeParts
<1>4. CASE LimitFails(s)
  <2> USE <1>4 DEF LimitFails, ghosts, store, rows, counters, send
  <2>1. Shared'
    BY <1>0, CodeAssumption, LimitFacts DEF Shared, SendLocal, Fails
  <2>2. SendLocal'
    BY <1>0, LimitFacts DEF SendLocal, Shared, SendPC, Key, Fails
  <2>3. VerifyLocal'
    BY <1>0 DEF SendLocal, VerifyLocal, VerifyPC
  <2>4. Flags'
    BY <1>0, Zenon DEF Flags
  <2>5. QED
    BY <2>1, <2>2, <2>3, <2>4, TypeParts
<1>5. CASE Rollback(s)
  <2> USE <1>5 DEF Rollback, ghosts, store, rows, counters, send
  <2>1. Shared'
    BY <1>0, CodeAssumption, LimitFacts, DelCounterType, LimitFacts DEF Shared, SendLocal, Current, Key
  <2>2. SendLocal'
    BY <1>0, LimitFacts DEF SendLocal, Shared, SendPC, Key, Current
  <2>3. VerifyLocal'
    BY <1>0 DEF SendLocal, VerifyLocal, VerifyPC
  <2>4. Flags'
    BY <1>0, Zenon DEF Flags
  <2>5. QED
    BY <2>1, <2>2, <2>3, <2>4, TypeParts
<1>6. CASE RolledBack(s)
  <2> USE <1>6 DEF RolledBack, Goto, ghosts, store, rows, counters, send
  <2>1. Shared'
    BY <1>0, CodeAssumption, LimitFacts DEF Shared, SendLocal, Codes
  <2>2. SendLocal'
    BY <1>0, LimitFacts DEF SendLocal, Shared, SendPC, Key, Codes
  <2>3. VerifyLocal'
    BY <1>0 DEF SendLocal, VerifyLocal, VerifyPC
  <2>4. Flags'
    BY <1>0, Zenon DEF Flags
  <2>5. QED
    BY <2>1, <2>2, <2>3, <2>4, TypeParts
<1>7. CASE MarkCancelled(s)
  <2> USE <1>7 DEF MarkCancelled, Goto, ghosts, store, rows, counters, send
  <2>1. Shared'
    BY <1>0, CodeAssumption, LimitFacts, StatusType DEF Shared, SendLocal, Statuses
  <2>2. SendLocal'
    BY <1>0, LimitFacts DEF SendLocal, Shared, SendPC, Key, Statuses
  <2>3. VerifyLocal'
    BY <1>0 DEF SendLocal, VerifyLocal, VerifyPC
  <2>4. Flags'
    BY <1>0, Zenon DEF Flags
  <2>5. QED
    BY <2>1, <2>2, <2>3, <2>4, TypeParts
<1>8. CASE CancelRead(s)
  <2> USE <1>8 DEF CancelRead, Goto, ghosts, store, rows, counters, send
  <2>1. Shared'
    BY <1>0, CodeAssumption, LimitFacts DEF Shared, SendLocal, Codes
  <2>2. SendLocal'
    BY <1>0, LimitFacts DEF SendLocal, Shared, SendPC, Key, Codes
  <2>3. VerifyLocal'
    BY <1>0 DEF SendLocal, VerifyLocal, VerifyPC
  <2>4. Flags'
    BY <1>0, Zenon DEF Flags
  <2>5. QED
    BY <2>1, <2>2, <2>3, <2>4, TypeParts
<1>9. CASE CancelWrite(s)
  <2> USE <1>9 DEF CancelWrite, Goto, ghosts, store, rows, counters, send
  <2>1. Shared'
    BY <1>0, CodeAssumption, LimitFacts DEF Shared, SendLocal, SetStatus, Statuses, Codes
  <2>2. SendLocal'
    BY <1>0, LimitFacts DEF SendLocal, Shared, SendPC, Key, SetStatus, Statuses, Codes
  <2>3. VerifyLocal'
    BY <1>0 DEF SendLocal, VerifyLocal, VerifyPC
  <2>4. Flags'
    BY <1>0, Zenon DEF Flags
  <2>5. QED
    BY <2>1, <2>2, <2>3, <2>4, TypeParts
<1>10. CASE HSet(s)
  <2> USE <1>10 DEF HSet, Goto, ghosts, store, rows, counters, send
  <2>1. Shared'
    BY <1>0, CodeAssumption, LimitFacts DEF Shared, SendLocal, Codes
  <2>2. SendLocal'
    BY <1>0, LimitFacts DEF SendLocal, Shared, SendPC, Key, Codes
  <2>3. VerifyLocal'
    BY <1>0 DEF SendLocal, VerifyLocal, VerifyPC
  <2>4. Flags'
    BY <1>0, Zenon DEF Flags
  <2>5. QED
    BY <2>1, <2>2, <2>3, <2>4, TypeParts
<1>11. CASE Expire(s)
  <2> USE <1>11 DEF Expire, Goto, ghosts, store, rows, counters, send
  <2>1. Shared'
    BY <1>0, CodeAssumption, LimitFacts DEF Shared, SendLocal, Codes
  <2>2. SendLocal'
    BY <1>0, LimitFacts DEF SendLocal, Shared, SendPC, Key, Codes
  <2>3. VerifyLocal'
    BY <1>0 DEF SendLocal, VerifyLocal, VerifyPC
  <2>4. Flags'
    BY <1>0, Zenon DEF Flags
  <2>5. QED
    BY <2>1, <2>2, <2>3, <2>4, TypeParts
<1>12. CASE Create(s)
  <2> USE <1>12 DEF Create, Goto, ghosts, store, rows, counters, send
  <2>1. Shared'
    BY <1>0, CodeAssumption, LimitFacts DEF Shared, SendLocal, Statuses, Codes
  <2>2. SendLocal'
    BY <1>0, LimitFacts DEF SendLocal, Shared, SendPC, Key, Statuses, Codes
  <2>3. VerifyLocal'
    BY <1>0 DEF SendLocal, VerifyLocal, VerifyPC
  <2>4. Flags'
    BY <1>0, Zenon DEF Flags
  <2>5. QED
    BY <2>1, <2>2, <2>3, <2>4, TypeParts
<1>13. CASE Dispatch(s)
  <2> USE <1>13 DEF Dispatch, Goto, ghosts, store, rows, counters, send
  <2>1. Shared'
    BY <1>0, CodeAssumption, LimitFacts DEF Shared, SendLocal
  <2>2. SendLocal'
    BY <1>0, LimitFacts DEF SendLocal, Shared, SendPC, Key
  <2>3. VerifyLocal'
    BY <1>0 DEF SendLocal, VerifyLocal, VerifyPC
  <2>4. Flags'
    BY <1>0, Zenon DEF Flags
  <2>5. QED
    BY <2>1, <2>2, <2>3, <2>4, TypeParts
<1>14. CASE SendFails(s)
  <2> USE <1>14 DEF SendFails, ghosts, store, rows, counters, send
  <2>1. Shared'
    BY <1>0, CodeAssumption, LimitFacts DEF Shared, SendLocal, Fails
  <2>2. SendLocal'
    BY <1>0, LimitFacts DEF SendLocal, Shared, SendPC, Key, Fails
  <2>3. VerifyLocal'
    BY <1>0 DEF SendLocal, VerifyLocal, VerifyPC
  <2>4. Flags'
    BY <1>0, Zenon DEF Flags
  <2>5. QED
    BY <2>1, <2>2, <2>3, <2>4, TypeParts
<1>15. CASE SendDel(s)
  <2> USE <1>15 DEF SendDel, Goto, ghosts, store, rows, counters, send
  <2>1. Shared'
    BY <1>0, CodeAssumption, LimitFacts, DelType DEF Shared, SendLocal
  <2>2. SendLocal'
    BY <1>0, LimitFacts DEF SendLocal, Shared, SendPC, Key
  <2>3. VerifyLocal'
    BY <1>0 DEF SendLocal, VerifyLocal, VerifyPC
  <2>4. Flags'
    BY <1>0, DelType, Zenon DEF Flags
  <2>5. QED
    BY <2>1, <2>2, <2>3, <2>4, TypeParts
<1>16. QED
  BY <1>1, <1>2, <1>3, <1>4, <1>5, <1>6, <1>7, <1>8, <1>9, <1>10, <1>11, <1>12, <1>13, <1>14, <1>15 DEF SendStep

\* The steps of VerifyCode keep the types.
LEMMA VerifyType ==
    ASSUME TypeOK, NEW v \in Verifier, VerifyStep(v)
    PROVE  TypeOK'
<1>0. Shared /\ SendLocal /\ VerifyLocal /\ Flags
  BY TypeParts
<1> v \notin SendCall
  BY CodeAssumption
<1>1. CASE VerifyCode(v)
  <2>0. active \in SendCall
    BY <1>0, <1>1 DEF VerifyCode, Shared, Codes
  <2>1. /\ pc[v] = "idle" /\ verifies < MaxVerify /\ verifies' = verifies + 1
        /\ barred' = [barred EXCEPT ![v] = closed]
        /\ code' = [code EXCEPT ![v] = active]
        /\ UNCHANGED <<counters, store, rows, send, errors, closed, reused, undeleted>>
    BY <1>1, Zenon DEF VerifyCode, VerifyBegin
  <2>2. PICK to \in {"delExpired", "markVerified", "hIncrBy"} : pc' = [pc EXCEPT ![v] = to]
    BY <1>1, Zenon DEF VerifyCode, Compare
  <2>3. wrong' \in [SendCall -> Nat]
    BY <1>1, <1>0, <2>0 DEF VerifyCode, Compare, Shared
  <2>4. Shared'
    BY <1>0, <2>1, <2>3, CodeAssumption DEF Shared, counters, store, rows
  <2>5. SendLocal'
    BY <1>0, <2>1, <2>2 DEF SendLocal, VerifyPC, send
  <2>6. VerifyLocal'
    BY <1>0, <2>0, <2>1, <2>2 DEF SendLocal, VerifyLocal, Shared, Codes
  <2>7. Flags'
    BY <1>0, <2>1, Zenon DEF Flags, store
  <2>8. QED
    BY <2>4, <2>5, <2>6, <2>7, TypeParts
<1>2. CASE HIncrBy(v)
  <2> USE <1>2 DEF HIncrBy, Return, ghosts, store, rows, counters, send
  <2>1. Shared'
    BY <1>0, CodeAssumption DEF Shared, VerifyLocal, VerifyPC, Statuses
  <2>2. SendLocal'
    BY <1>0 DEF SendLocal, VerifyPC
  <2>3. VerifyLocal'
    BY <1>0 DEF SendLocal, VerifyLocal, VerifyPC, Codes
  <2>4. Flags'
    BY <1>0, Zenon DEF Flags
  <2>5. QED
    BY <2>1, <2>2, <2>3, <2>4, TypeParts
<1>3. CASE DelLocked(v)
  <2> USE <1>3 DEF DelLocked, Goto, Close, ghosts, store, rows, counters, send
  <2>1. Shared'
    BY <1>0, CodeAssumption, DelType DEF Shared, VerifyLocal, VerifyPC, Statuses
  <2>2. SendLocal'
    BY <1>0 DEF SendLocal, VerifyPC
  <2>3. VerifyLocal'
    BY <1>0 DEF SendLocal, VerifyLocal, VerifyPC, Codes
  <2>4. Flags'
    BY <1>0, DelType, Zenon DEF Flags
  <2>5. QED
    BY <2>1, <2>2, <2>3, <2>4, TypeParts
<1>4. CASE MarkLocked(v)
  <2> USE <1>4 DEF MarkLocked, Mark, Return, ghosts, store, rows, counters, send
  <2>1. Shared'
    BY <1>0, CodeAssumption, StatusType DEF Shared, VerifyLocal, VerifyPC, Statuses
  <2>2. SendLocal'
    BY <1>0 DEF SendLocal, VerifyPC
  <2>3. VerifyLocal'
    BY <1>0 DEF SendLocal, VerifyLocal, VerifyPC, Codes
  <2>4. Flags'
    BY <1>0, Zenon DEF Flags
  <2>5. QED
    BY <2>1, <2>2, <2>3, <2>4, TypeParts
<1>5. CASE DelExpired(v)
  <2> USE <1>5 DEF DelExpired, Goto, Close, ghosts, store, rows, counters, send
  <2>1. Shared'
    BY <1>0, CodeAssumption, DelType DEF Shared, VerifyLocal, VerifyPC, Statuses
  <2>2. SendLocal'
    BY <1>0 DEF SendLocal, VerifyPC
  <2>3. VerifyLocal'
    BY <1>0 DEF SendLocal, VerifyLocal, VerifyPC, Codes
  <2>4. Flags'
    BY <1>0, DelType, Zenon DEF Flags
  <2>5. QED
    BY <2>1, <2>2, <2>3, <2>4, TypeParts
<1>6. CASE MarkExpired(v)
  <2> USE <1>6 DEF MarkExpired, Mark, Return, ghosts, store, rows, counters, send
  <2>1. Shared'
    BY <1>0, CodeAssumption, StatusType DEF Shared, VerifyLocal, VerifyPC, Statuses
  <2>2. SendLocal'
    BY <1>0 DEF SendLocal, VerifyPC
  <2>3. VerifyLocal'
    BY <1>0 DEF SendLocal, VerifyLocal, VerifyPC, Codes
  <2>4. Flags'
    BY <1>0, Zenon DEF Flags
  <2>5. QED
    BY <2>1, <2>2, <2>3, <2>4, TypeParts
<1>7. CASE MarkVerified(v)
  <2> USE <1>7 DEF MarkVerified, Goto, SetStatus, ghosts, store, rows, counters, send
  <2>1. Shared'
    BY <1>0, CodeAssumption DEF Shared, VerifyLocal, VerifyPC, Statuses
  <2>2. SendLocal'
    BY <1>0 DEF SendLocal, VerifyPC
  <2>3. VerifyLocal'
    BY <1>0 DEF SendLocal, VerifyLocal, VerifyPC, Codes
  <2>4. Flags'
    BY <1>0, Zenon DEF Flags
  <2>5. QED
    BY <2>1, <2>2, <2>3, <2>4, TypeParts
<1>8. CASE DelVerified(v)
  <2> USE <1>8 DEF DelVerified, Return, Close, ghosts, store, rows, counters, send
  <2>1. Shared'
    BY <1>0, CodeAssumption, DelType DEF Shared, VerifyLocal, VerifyPC, Statuses
  <2>2. SendLocal'
    BY <1>0 DEF SendLocal, VerifyPC
  <2>3. VerifyLocal'
    BY <1>0 DEF SendLocal, VerifyLocal, VerifyPC, Codes
  <2>4. Flags'
    BY <1>0, DelType, Zenon DEF Flags
  <2>5. QED
    BY <2>1, <2>2, <2>3, <2>4, TypeParts
<1>9. CASE VerifyFails(v)
  <2> USE <1>9 DEF VerifyFails, Fails, Return, ghosts, store, rows, counters, send
  <2>1. Shared'
    BY <1>0, CodeAssumption DEF Shared, VerifyLocal, VerifyPC, Statuses
  <2>2. SendLocal'
    BY <1>0 DEF SendLocal, VerifyPC
  <2>3. VerifyLocal'
    BY <1>0 DEF SendLocal, VerifyLocal, VerifyPC, Codes
  <2>4. Flags'
    BY <1>0, Zenon DEF Flags
  <2>5. QED
    BY <2>1, <2>2, <2>3, <2>4, TypeParts
<1>10. QED
  BY <1>1, <1>2, <1>3, <1>4, <1>5, <1>6, <1>7, <1>8, <1>9 DEF VerifyStep

\* Type correctness: every value the counters, the hash, the rows and the calls
\* of SendCode and VerifyCode hold; in particular a call that updates a row has
\* read its code, and no rollback runs past the counters its call has passed.
THEOREM TypeCorrect == Spec => []TypeOK
<1>1. ASSUME TypeOK, [Next]_vars PROVE TypeOK'
  <2>0. Shared /\ SendLocal /\ VerifyLocal /\ Flags
    BY <1>1, TypeParts
  <2>1. CASE CodeDue
    <3>1. Shared' /\ SendLocal' /\ VerifyLocal'
      BY <2>0, <2>1 DEF CodeDue, Shared, SendLocal, VerifyLocal, counters, rows, send, ghosts
    <3>2. Flags'
      BY <2>0, <2>1, Zenon DEF CodeDue, Flags, ghosts
    <3>3. QED
      BY <3>1, <3>2, TypeParts
  <2>2. CASE CodeExpires
    <3>1. Shared' /\ SendLocal' /\ VerifyLocal'
      BY <2>0, <2>2 DEF CodeExpires, Shared, SendLocal, VerifyLocal, counters, rows, send, Codes
    <3>2. Flags'
      BY <2>0, <2>2, Zenon DEF CodeExpires, Flags
    <3>3. QED
      BY <3>1, <3>2, TypeParts
  <2>3. ASSUME NEW k \in Key, WindowEnds(k) PROVE TypeOK'
    <3>1. Shared' /\ SendLocal' /\ VerifyLocal'
      BY <2>0, <2>3 DEF WindowEnds, Shared, SendLocal, VerifyLocal, store, rows, send, ghosts
    <3>2. Flags'
      BY <2>0, <2>3, Zenon DEF WindowEnds, Flags, store, ghosts
    <3>3. QED
      BY <3>1, <3>2, TypeParts
  <2>4. CASE UNCHANGED vars
    <3>1. Shared' /\ SendLocal' /\ VerifyLocal'
      BY <2>0, <2>4 DEF vars, Shared, SendLocal, VerifyLocal, store, rows, send, ghosts, counters
    <3>2. Flags'
      BY <2>0, <2>4, Zenon DEF vars, Flags, store, ghosts
    <3>3. QED
      BY <3>1, <3>2, TypeParts
  <2>5. QED
    BY <1>1, <2>1, <2>2, <2>3, <2>4, SendType, VerifyType DEF Next
<1>2. QED
  BY <1>1, InitType, PTL DEF Spec

-----------------------------------------------------------------------------
\* The inductive invariant. A code that is still to be written to the hash is
\* nowhere yet. Unless a deletion failed, the hash holds no closed code, no call
\* has read a code that was closed when the call began, and none was accepted.
Before == {"setNX", "incr", "breach", "cancelRead", "cancelWrite", "hset"}
Unsent ==
    \A s \in SendCall : pc[s] \in Before =>
        /\ s \notin closed /\ s # active
        /\ \A v \in Verifier : code[v] # s
ActiveOpen == active \notin closed
ReadOpen == \A v \in Verifier : pc[v] \in VerifyPC => code[v] \notin barred[v]
CodeInv == Unsent /\ (undeleted \/ (ActiveOpen /\ ReadOpen /\ ~ reused))

\* CodeInv holds in the beginning.
LEMMA InitCodeInv == Init => CodeInv
<1> SUFFICES ASSUME Init PROVE CodeInv
  OBVIOUS
<1>1. Unsent /\ ActiveOpen /\ ReadOpen
  BY CodeAssumption DEF Init, Unsent, ActiveOpen, ReadOpen, VerifyPC, NoCode
<1>2. ~ reused
  BY DEF Init
<1>3. QED
  BY <1>1, <1>2 DEF CodeInv

\* What a step may do without a second look: close codes that no pending SendCode
\* call owns while it empties the hash, and end calls of VerifyCode.
LEMMA Frame ==
    ASSUME TypeOK, CodeInv, NEW gone,
           closed' = closed \cup gone,
           \A s \in SendCall : pc'[s] \in Before => pc[s] \in Before /\ s \notin gone,
           \A v \in Verifier : code'[v] = code[v] \/ code'[v] = NoCode,
           \A v \in Verifier : pc'[v] \in VerifyPC =>
               pc[v] \in VerifyPC /\ code'[v] = code[v] /\ barred'[v] = barred[v],
           active' = active \/ active' = NoCode,
           undeleted' \/ (closed' \subseteq SendCall /\ active' = NoCode)
                      \/ (active' = active /\ gone = {}),
           undeleted => undeleted',
           undeleted' \/ ~ reused'
    PROVE  CodeInv'
<1>1. Unsent'
  <2>1. Unsent
    BY Zenon DEF CodeInv
  <2>2. QED
    BY <2>1, CodeAssumption DEF Unsent, NoCode
<1>2. CASE undeleted'
  BY <1>1, <1>2, Zenon DEF CodeInv
<1>3. CASE ~ undeleted'
  <2>1. ActiveOpen /\ ReadOpen
    BY <1>3, Zenon DEF CodeInv
  <2>2. (closed' \subseteq SendCall /\ active' = NoCode) \/ (active' = active /\ gone = {})
    BY <1>3, Zenon
  <2>3. ActiveOpen'
    BY <2>1, <2>2, CodeAssumption DEF ActiveOpen, NoCode
  <2>4. ReadOpen'
    BY <2>1 DEF ReadOpen
  <2>5. ~ reused'
    BY <1>3, Zenon
  <2>6. QED
    BY <1>1, <2>3, <2>4, <2>5, Zenon DEF CodeInv
<1>4. QED
  BY <1>2, <1>3

\* Del empties the hash unless it fails.
LEMMA DelFacts ==
    ASSUME TypeOK, Del
    PROVE  /\ active' = active \/ active' = NoCode
           /\ undeleted' \/ active' = NoCode
           /\ undeleted => undeleted'
<1>1. CASE active' = NoCode /\ UNCHANGED <<errors, undeleted>>
  <2>1. undeleted => undeleted'
    BY <1>1
  <2>2. QED
    BY <1>1, <2>1, Zenon
<1>2. CASE undeleted' = TRUE /\ UNCHANGED store
  <2>1. undeleted' /\ active' = active
    BY <1>2 DEF store
  <2>2. QED
    BY <2>1, Zenon
<1>3. QED
  BY <1>1, <1>2, Zenon DEF Del

\* Frame for a step that closes nothing and leaves the hash alone.
LEMMA Quiet ==
    ASSUME TypeOK, CodeInv,
           UNCHANGED <<active, closed, reused, undeleted>>,
           \A s \in SendCall : pc'[s] \in Before => pc[s] \in Before,
           \A v \in Verifier : code'[v] = code[v] \/ code'[v] = NoCode,
           \A v \in Verifier : pc'[v] \in VerifyPC =>
               pc[v] \in VerifyPC /\ code'[v] = code[v] /\ barred'[v] = barred[v]
    PROVE  CodeInv'
<1>1. Unsent => Unsent'
  BY CodeAssumption DEF Unsent, NoCode
<1>2. ActiveOpen => ActiveOpen'
  BY DEF ActiveOpen
<1>3. ReadOpen => ReadOpen'
  BY DEF ReadOpen
<1>4. undeleted => undeleted'
  OBVIOUS
<1>5. ~ reused => ~ reused'
  OBVIOUS
<1>6. QED
  BY <1>1, <1>2, <1>3, <1>4, <1>5, Zenon DEF CodeInv

\* A SendCode call that has written the hash, or has given up, does not return to
\* the steps before; HSet and SendDel are looked at on their own.
LEMMA SendMoves ==
    ASSUME TypeOK, NEW s \in SendCall, SendStep(s), ~ HSet(s) /\ ~ SendDel(s)
    PROVE  \E to \in SendPC : /\ pc' = [pc EXCEPT ![s] = to] \/ pc' = pc
                              /\ to \in Before => pc[s] \in Before
<1> USE DEF SendPC, Before, Goto
<1>1. CASE SetNX(s)
  BY <1>1 DEF SetNX, Admitted
<1>2. CASE Incr(s)
  BY <1>2 DEF Incr, Admitted
<1>3. CASE Breach(s)
  BY <1>3 DEF Breach
<1>4. CASE LimitFails(s)
  BY <1>4 DEF LimitFails
<1>5. CASE Rollback(s)
  BY <1>5 DEF Rollback
<1>6. CASE RolledBack(s)
  BY <1>6 DEF RolledBack
<1>7. CASE MarkCancelled(s)
  BY <1>7 DEF MarkCancelled
<1>8. CASE CancelRead(s)
  BY <1>8 DEF CancelRead
<1>9. CASE CancelWrite(s)
  BY <1>9 DEF CancelWrite
<1>10. CASE Expire(s) \/ Create(s) \/ Dispatch(s)
  BY <1>10 DEF Expire, Create, Dispatch
<1>11. CASE SendFails(s)
  BY <1>11 DEF SendFails
<1>12. QED
  BY <1>1, <1>2, <1>3, <1>4, <1>5, <1>6, <1>7, <1>8, <1>9, <1>10, <1>11, Zenon
  DEF SendStep

\* The steps of SendCode keep CodeInv.
LEMMA SendInv ==
    ASSUME TypeOK, CodeInv, NEW s \in SendCall, SendStep(s)
    PROVE  CodeInv'
<1>0. Shared /\ SendLocal /\ VerifyLocal
  BY TypeParts
<1> s \notin Verifier
  BY CodeAssumption
<1>1. undeleted \/ ~ reused
  BY Zenon DEF CodeInv
<1>2. CASE HSet(s)
  <2>1. /\ pc[s] = "hset" /\ pc' = [pc EXCEPT ![s] = "expire"]
        /\ active' = s /\ closed' = closed \cup ({active} \ {NoCode})
        /\ UNCHANGED <<code, barred, reused, undeleted>>
    BY <1>2, Zenon DEF HSet, Goto
  <2>2. Unsent
    BY Zenon DEF CodeInv
  <2>3. Unsent'
    BY <1>0, <2>1, <2>2 DEF Unsent, Before, SendLocal
  <2>4. ActiveOpen'
    BY <2>1, <2>2 DEF Unsent, Before, ActiveOpen
  <2>5. ReadOpen => ReadOpen'
    BY <1>0, <2>1 DEF ReadOpen, SendLocal
  <2>6. QED
    BY <2>1, <2>3, <2>4, <2>5, Zenon DEF CodeInv
<1>3. CASE SendDel(s)
  <2>1. /\ pc[s] = "del" /\ pc' = [pc EXCEPT ![s] = "rollback"]
        /\ UNCHANGED <<closed, code, barred, reused>>
    BY <1>3, Zenon DEF SendDel, Goto, ghosts
  <2>2. Del
    BY <1>3 DEF SendDel
  <2>3. /\ active' = active \/ active' = NoCode
        /\ undeleted' \/ active' = NoCode
        /\ undeleted => undeleted'
    BY <2>2, DelFacts, Zenon
  <2>4. undeleted' \/ ~ reused'
    BY <1>1, <2>1, <2>3, Zenon
  <2>a. PICK gone : gone = {}
    OBVIOUS
  <2>5. /\ \A t \in SendCall : pc'[t] \in Before => pc[t] \in Before /\ t \notin gone
        /\ \A v \in Verifier : pc'[v] = pc[v]
    BY <1>0, <2>1, <2>a DEF SendLocal, Before
  <2>6. closed' = closed \cup gone /\ closed' \subseteq SendCall
    BY <1>0, <2>1, <2>a DEF Shared
  <2>7. /\ \A v \in Verifier : code'[v] = code[v] \/ code'[v] = NoCode
        /\ \A v \in Verifier : pc'[v] \in VerifyPC =>
               pc[v] \in VerifyPC /\ code'[v] = code[v] /\ barred'[v] = barred[v]
    BY <2>1, <2>5
  <2>8. undeleted' \/ (closed' \subseteq SendCall /\ active' = NoCode)
    BY <2>3, <2>6, Zenon
  <2>9. QED
    BY <2>3, <2>4, <2>5, <2>6, <2>7, <2>8, Frame, Zenon
<1>4. CASE ~ HSet(s) /\ ~ SendDel(s)
  <2>1. UNCHANGED <<active, closed, code, barred, reused, undeleted>>
    BY <1>4, Zenon DEF SendStep, SetNX, Incr, Breach, LimitFails, Rollback, RolledBack,
       MarkCancelled, CancelRead, CancelWrite, Expire, Create, Dispatch, SendFails,
       store, ghosts
  <2>2. \E to \in SendPC : /\ pc' = [pc EXCEPT ![s] = to] \/ pc' = pc
                           /\ to \in Before => pc[s] \in Before
    BY <1>4, SendMoves
  <2>3. /\ \A t \in SendCall : pc'[t] \in Before => pc[t] \in Before
        /\ \A v \in Verifier : pc'[v] = pc[v]
    BY <1>0, <2>2 DEF SendLocal
  <2>4. QED
    BY <2>1, <2>3, Quiet
<1>5. QED
  BY <1>2, <1>3, <1>4

\* The steps of VerifyCode keep CodeInv.
LEMMA VerifyInv ==
    ASSUME TypeOK, CodeInv, NEW v \in Verifier, VerifyStep(v)
    PROVE  CodeInv'
<1>0. Shared /\ SendLocal /\ VerifyLocal
  BY TypeParts
<1> v \notin SendCall
  BY CodeAssumption
<1>1. Unsent /\ (undeleted \/ ~ reused) /\ (undeleted \/ ReadOpen) /\ (undeleted \/ ActiveOpen)
  BY Zenon DEF CodeInv
<1>2. CASE VerifyCode(v)
  <2>1. /\ barred' = [barred EXCEPT ![v] = closed]
        /\ code' = [code EXCEPT ![v] = active]
        /\ active # NoCode
        /\ UNCHANGED <<active, closed, reused, undeleted>>
    BY <1>2, Zenon DEF VerifyCode, VerifyBegin, store
  <2>2. PICK to \in {"delExpired", "markVerified", "hIncrBy"} : pc' = [pc EXCEPT ![v] = to]
    BY <1>2, Zenon DEF VerifyCode, Compare
  <2>3. Unsent'
    BY <1>0, <1>1, <2>1, <2>2 DEF Unsent, SendLocal, VerifyLocal
  <2>4. ActiveOpen => ActiveOpen'
    BY <2>1 DEF ActiveOpen
  <2>5. ActiveOpen /\ ReadOpen => ReadOpen'
    BY <1>0, <2>1, <2>2 DEF ActiveOpen, ReadOpen, SendLocal, VerifyLocal
  <2>6. QED
    BY <1>1, <2>1, <2>3, <2>4, <2>5, Zenon DEF CodeInv
<1>3. ASSUME pc[v] \in VerifyPC, Del, closed' = closed \cup {code[v]},
             \/ /\ UNCHANGED <<code, barred>>
                /\ \E to \in VerifyPC : pc' = [pc EXCEPT ![v] = to]
             \/ Return(v),
             reused' = (reused \/ code[v] \in barred[v]) \/ UNCHANGED reused
      PROVE  CodeInv'
  <2>1. /\ active' = active \/ active' = NoCode
        /\ undeleted' \/ active' = NoCode
        /\ undeleted => undeleted'
    BY <1>3, DelFacts, Zenon
  <2>2. undeleted \/ code[v] \notin barred[v]
    BY <1>1, <1>3, Zenon DEF ReadOpen
  <2>3. undeleted' \/ ~ reused'
    BY <1>1, <1>3, <2>1, <2>2, Zenon
  <2>4. closed' \subseteq SendCall
    BY <1>0, <1>3 DEF Shared, VerifyLocal
  <2>5. \A s \in SendCall : pc'[s] \in Before => pc[s] \in Before /\ s \notin {code[v]}
    BY <1>0, <1>1, <1>3 DEF Unsent, SendLocal, Return, Before
  <2>6. /\ \A w \in Verifier : code'[w] = code[w] \/ code'[w] = NoCode
        /\ \A w \in Verifier : pc'[w] \in VerifyPC =>
               pc[w] \in VerifyPC /\ code'[w] = code[w] /\ barred'[w] = barred[w]
    BY <1>0, <1>3 DEF SendLocal, VerifyLocal, Return, VerifyPC
  <2>7. QED
    BY <1>3, <2>1, <2>3, <2>4, <2>5, <2>6, Frame, Zenon
<1>4. CASE DelLocked(v) \/ DelExpired(v)
  <2>1. /\ pc[v] \in VerifyPC /\ Del /\ closed' = closed \cup {code[v]}
        /\ UNCHANGED <<code, barred, reused>>
        /\ \E to \in VerifyPC : pc' = [pc EXCEPT ![v] = to]
    BY <1>4, Zenon DEF DelLocked, DelExpired, Goto, Close, VerifyPC
  <2>2. QED
    BY <1>3, <2>1, Zenon
<1>5. CASE DelVerified(v)
  <2>1. /\ pc[v] \in VerifyPC /\ Del /\ closed' = closed \cup {code[v]} /\ Return(v)
        /\ reused' = (reused \/ code[v] \in barred[v])
    BY <1>5, Zenon DEF DelVerified, Close, VerifyPC
  <2>2. QED
    BY <1>3, <2>1, Zenon
<1>6. CASE \/ HIncrBy(v) \/ MarkLocked(v) \/ MarkExpired(v)
           \/ MarkVerified(v) \/ VerifyFails(v)
  <2>1. UNCHANGED <<active, closed, reused, undeleted>>
    BY <1>6, Zenon DEF HIncrBy, MarkLocked, MarkExpired, Mark, MarkVerified, VerifyFails,
       store, ghosts
  <2>2. pc[v] \in VerifyPC
    BY <1>6, Zenon DEF HIncrBy, MarkLocked, MarkExpired, Mark, MarkVerified, VerifyFails,
       Goto, VerifyPC
  <2>3. \/ UNCHANGED <<code, barred>> /\ \E to \in VerifyPC : pc' = [pc EXCEPT ![v] = to]
        \/ Return(v)
    BY <1>6, Zenon DEF HIncrBy, MarkLocked, MarkExpired, Mark, MarkVerified, VerifyFails,
       Goto, VerifyPC, ghosts
  <2>4. \A s \in SendCall : pc'[s] = pc[s]
    BY <1>0, <2>3 DEF SendLocal, Return
  <2>5. /\ \A w \in Verifier : code'[w] = code[w] \/ code'[w] = NoCode
        /\ \A w \in Verifier : pc'[w] \in VerifyPC =>
               pc[w] \in VerifyPC /\ code'[w] = code[w] /\ barred'[w] = barred[w]
    BY <1>0, <2>2, <2>3 DEF SendLocal, VerifyLocal, Return, VerifyPC
  <2>6. QED
    BY <2>1, <2>4, <2>5, Quiet
<1>7. QED
  BY <1>2, <1>4, <1>5, <1>6 DEF VerifyStep

\* The invariant holds always.
LEMMA CodeCorrect == Spec => []CodeInv
<1>1. ASSUME TypeOK, CodeInv, [Next]_vars PROVE CodeInv'
  <2>1. CASE CodeExpires
    <3>1. /\ active' = NoCode /\ closed' = closed \cup ({active} \ {NoCode})
          /\ UNCHANGED <<pc, code, barred, reused, undeleted>>
      BY <2>1, Zenon DEF CodeExpires
    <3>2. /\ closed' \subseteq SendCall
          /\ \A s \in SendCall : pc[s] \in Before => s \notin {active} \ {NoCode}
      BY <1>1, <3>1, TypeParts DEF Shared, Codes, CodeInv, Unsent
    <3>3. undeleted' \/ ~ reused'
      BY <1>1, <3>1, Zenon DEF CodeInv
    <3>4. QED
      BY <1>1, <3>1, <3>2, <3>3, Frame, Zenon
  <2>2. CASE CodeDue \/ (\E k \in Key : WindowEnds(k)) \/ UNCHANGED vars
    <3>1. UNCHANGED <<active, closed, pc, code, barred, reused, undeleted>>
      BY <2>2, Zenon DEF CodeDue, WindowEnds, vars, ghosts, store
    <3>2. QED
      BY <1>1, <3>1, Zenon DEF CodeInv, Unsent, ActiveOpen, ReadOpen
  <2>3. QED
    BY <1>1, <2>1, <2>2, SendInv, VerifyInv DEF Next
<1>2. QED
  BY <1>1, InitCodeInv, TypeCorrect, PTL DEF Spec

\* One-time use, for any number of calls, any limits and any number of failing
\* commands: a code that was used, locked, expired or replaced is not accepted by
\* a VerifyCode call that begins afterwards, unless a deletion of the hash failed.
THEOREM ClosedCorrect == Spec => []ClosedNotAccepted
<1>1. CodeInv => ClosedNotAccepted
  BY Zenon DEF CodeInv, ClosedNotAccepted
<1>2. QED
  BY <1>1, CodeCorrect, PTL

-----------------------------------------------------------------------------
\* Calls that are about to delete the hash because they locked the code, and
\* calls that have compared code s with a wrong one and not yet counted it.
Locking == {v \in Verifier : pc[v] = "delLocked"}
Guessing(s) == {v \in Verifier : pc[v] = "hIncrBy" /\ code[v] = s}

\* A code that is not in the hash yet was compared with nothing. Unless a deletion
\* failed, whoever counts beyond the limit is about to delete the hash; a wrong
\* comparison with the code in the hash is counted there, about to be counted or
\* paid for with an error; and no code, in the hash or not, exceeds the bound.
FreshCodes == \A s \in SendCall : pc[s] \in Before => wrong[s] = 0
Tally == attempts <= MaxAttempts - 1 + Cardinality(Locking)
Guesses == active # NoCode =>
               wrong[active] <= attempts + Cardinality(Guessing(active)) + errors
Bounded == \A s \in SendCall :
               wrong[s] <= MaxAttempts - 1 + Cardinality(Verifier) + errors
BoundInv == FreshCodes /\ (undeleted \/ (Tally /\ Guesses /\ Bounded))

\* The calls that are locking and those that are guessing one code are different
\* ones: together they are at most all calls.
CountsOK ==
    /\ IsFiniteSet(Locking) /\ Cardinality(Locking) \in Nat
    /\ \A s : IsFiniteSet(Guessing(s)) /\ Cardinality(Guessing(s)) \in Nat
    /\ Cardinality(Verifier) \in Nat
    /\ \A s : Cardinality(Locking) + Cardinality(Guessing(s)) <= Cardinality(Verifier)

\* That holds in every state.
LEMMA CountsHold == CountsOK
<1>1. IsFiniteSet(Verifier) /\ Cardinality(Verifier) \in Nat
  BY CodeAssumption, FS_CardinalityType
<1>2. Locking \in SUBSET Verifier /\ \A s : Guessing(s) \in SUBSET Verifier
  BY DEF Locking, Guessing
<1>3. IsFiniteSet(Locking) /\ Cardinality(Locking) \in Nat
  BY <1>1, <1>2, FS_Subset, FS_CardinalityType
<1>4. ASSUME NEW s
      PROVE  /\ IsFiniteSet(Guessing(s)) /\ Cardinality(Guessing(s)) \in Nat
             /\ Cardinality(Locking) + Cardinality(Guessing(s)) <= Cardinality(Verifier)
  <2>1. IsFiniteSet(Guessing(s)) /\ Cardinality(Guessing(s)) \in Nat
    BY <1>1, <1>2, FS_Subset, FS_CardinalityType
  <2>2. Locking \cap Guessing(s) = {}
    BY DEF Locking, Guessing
  <2>3. Cardinality(Locking \cap Guessing(s)) = 0
    BY <2>2, FS_EmptySet
  <2>4. /\ Cardinality(Locking \cup Guessing(s)) =
             Cardinality(Locking) + Cardinality(Guessing(s)) - Cardinality(Locking \cap Guessing(s))
    BY <1>3, <2>1, FS_Union
  <2>5. Locking \cup Guessing(s) \in SUBSET Verifier
    BY <1>2
  <2>6. Cardinality(Locking \cup Guessing(s)) <= Cardinality(Verifier)
    BY <1>1, <2>5, FS_Subset
  <2> QED BY <1>1, <1>3, <2>1, <2>3, <2>4, <2>6
<1> QED BY <1>1, <1>3, <1>4 DEF CountsOK

\* The same, spelt out for a step.
LEMMA CallCounts ==
    /\ Cardinality(Locking) \in Nat /\ Cardinality(Locking)' \in Nat
    /\ \A s : Cardinality(Guessing(s)) \in Nat
    /\ Cardinality(Verifier) \in Nat
    /\ \A s : (Cardinality(Locking) + Cardinality(Guessing(s)))' <= Cardinality(Verifier)
<1>1. CountsOK'
  BY CountsHold, PTL
<1> QED BY <1>1, CountsHold DEF CountsOK

\* A step that changes neither the tally nor who is counting.
LEMMA TallyQuiet ==
    ASSUME TypeOK, TypeOK', Tally, Guesses, Bounded, errors <= errors',
           UNCHANGED <<active, attempts, wrong, Locking>>,
           \A s \in SendCall : Guessing(s)' = Guessing(s)
    PROVE  (Tally /\ Guesses /\ Bounded)'
<1>1. errors \in Nat /\ errors' \in Nat /\ attempts \in Nat /\ active \in Codes
      /\ wrong \in [SendCall -> Nat]
  BY CodeAssumption DEF TypeOK
<1>2. MaxAttempts \in Nat /\ Cardinality(Verifier) \in Nat /\ Cardinality(Locking) \in Nat
  BY CodeAssumption, CallCounts
<1>3. Tally'
  BY DEF Tally
<1>4. Guesses'
  <2> SUFFICES ASSUME active # NoCode
               PROVE  wrong[active] <= attempts + Cardinality(Guessing(active)) + errors'
    BY <1>1 DEF Guesses, Codes
  <2>1. wrong[active] <= attempts + Cardinality(Guessing(active)) + errors
    BY DEF Guesses
  <2>2. wrong[active] \in Nat /\ Cardinality(Guessing(active)) \in Nat
    BY <1>1, CallCounts DEF Codes
  <2> QED BY <2>1, <2>2, <1>1
<1>5. Bounded'
  BY <1>1, <1>2 DEF Bounded
<1> QED BY <1>3, <1>4, <1>5

\* A step that empties the hash.
LEMMA TallyEmptied ==
    ASSUME TypeOK, TypeOK', Bounded, errors <= errors', active' = NoCode, attempts' = 0,
           wrong' = wrong
    PROVE  (Tally /\ Guesses /\ Bounded)'
<1>1. errors \in Nat /\ errors' \in Nat /\ wrong \in [SendCall -> Nat]
  BY CodeAssumption DEF TypeOK
<1>2. /\ MaxAttempts \in Nat \ {0} /\ Cardinality(Verifier) \in Nat
      /\ Cardinality(Locking)' \in Nat
  BY CodeAssumption, CallCounts
<1>3. Tally'
  BY <1>2 DEF Tally
<1>4. Guesses'
  BY DEF Guesses
<1>5. Bounded'
  BY <1>1, <1>2 DEF Bounded
<1> QED BY <1>3, <1>4, <1>5

\* Del resets the tally unless it fails.
LEMMA TallyDel ==
    ASSUME TypeOK, TypeOK', Bounded, Del, wrong' = wrong
    PROVE  undeleted' \/ (Tally /\ Guesses /\ Bounded)'
<1>1. errors \in Nat
  BY CodeAssumption DEF TypeOK
<1>2. CASE active' = NoCode /\ attempts' = 0 /\ UNCHANGED <<errors, undeleted>>
  <2>1. errors <= errors'
    BY <1>1, <1>2
  <2>2. (Tally /\ Guesses /\ Bounded)'
    BY <1>2, <2>1, TallyEmptied
  <2> QED BY <2>2, Zenon
<1>3. CASE undeleted' = TRUE
  BY <1>3, Zenon
<1> QED BY <1>2, <1>3, Zenon DEF Del

\* What the SendCode calls do to the tally.
LEMMA SendBound ==
    ASSUME TypeOK, TypeOK', BoundInv, NEW s \in SendCall, SendStep(s)
    PROVE  BoundInv'
<1>0. Shared /\ SendLocal /\ VerifyLocal
  BY TypeParts
<1> s \notin Verifier
  BY CodeAssumption
<1>1. FreshCodes /\ (undeleted \/ (Tally /\ Guesses /\ Bounded))
  BY Zenon DEF BoundInv
<1>2. CASE HSet(s)
  <2>1. /\ pc[s] = "hset" /\ pc' = [pc EXCEPT ![s] = "expire"]
        /\ active' = s /\ attempts' = 0
        /\ UNCHANGED <<code, wrong, errors, undeleted>>
    BY <1>2, Zenon DEF HSet, Goto
  <2>2. wrong[s] = 0
    BY <1>1, <2>1 DEF FreshCodes, Before
  <2>3. FreshCodes'
    BY <1>0, <1>1, <2>1 DEF FreshCodes, Before, SendLocal
  <2>4. Tally'
    BY <2>1, CallCounts, CodeAssumption DEF Tally
  <2>5. Guesses'
    <3>1. Cardinality(Guessing(s))' \in Nat
      <4>1. CountsOK'
        BY CountsHold, PTL
      <4> QED BY <4>1 DEF CountsOK
    <3>2. errors' \in Nat
      BY CodeAssumption DEF TypeOK
    <3>3. (Guessing(active))' = Guessing(s)'
      BY <2>1
    <3> QED BY <2>1, <2>2, <3>1, <3>2, <3>3 DEF Guesses
  <2>6. Bounded => Bounded'
    BY <2>1 DEF Bounded
  <2> QED BY <1>1, <2>1, <2>3, <2>4, <2>5, <2>6, Zenon DEF BoundInv
<1>3. CASE SendDel(s)
  <2>1. /\ pc[s] = "del" /\ pc' = [pc EXCEPT ![s] = "rollback"]
        /\ UNCHANGED <<wrong>>
    BY <1>3, Zenon DEF SendDel, Goto, ghosts
  <2>2. Del
    BY <1>3 DEF SendDel
  <2>3. FreshCodes'
    BY <1>0, <1>1, <2>1 DEF FreshCodes, Before, SendLocal
  <2>4. undeleted => undeleted'
    BY <2>2, DelFacts, Zenon
  <2>5. Bounded => undeleted' \/ (Tally /\ Guesses /\ Bounded)'
    BY <2>1, <2>2, TallyDel, Zenon
  <2> QED BY <1>1, <2>3, <2>4, <2>5, Zenon DEF BoundInv
<1>4. CASE ~ HSet(s) /\ ~ SendDel(s)
  <2>1. UNCHANGED <<active, attempts, code, wrong, undeleted>>
    BY <1>4, Zenon DEF SendStep, SetNX, Incr, Breach, LimitFails, Rollback, RolledBack,
       MarkCancelled, CancelRead, CancelWrite, Expire, Create, Dispatch, SendFails,
       store, ghosts
  <2>2. \E to \in SendPC : /\ pc' = [pc EXCEPT ![s] = to] \/ pc' = pc
                           /\ to \in Before => pc[s] \in Before
    BY <1>4, SendMoves
  <2>3. /\ \A t \in SendCall : pc'[t] \in Before => pc[t] \in Before
        /\ \A v \in Verifier : pc'[v] = pc[v]
    BY <1>0, <2>2 DEF SendLocal
  <2>4. errors' = errors \/ errors' = errors + 1
    BY <1>4, Zenon DEF SendStep, SetNX, Incr, Breach, LimitFails, Rollback, RolledBack,
       MarkCancelled, CancelRead, CancelWrite, Expire, Create, Dispatch, SendFails,
       DelCounter, SetStatus, TrySetStatus, Fails
  <2>5. errors <= errors'
    BY <2>4, CodeAssumption DEF TypeOK
  <2>6. Locking' = Locking /\ \A t \in SendCall : Guessing(t)' = Guessing(t)
    BY <2>1, <2>3 DEF Locking, Guessing
  <2>7. FreshCodes'
    BY <1>1, <2>1, <2>3 DEF FreshCodes
  <2>8. Tally /\ Guesses /\ Bounded => (Tally /\ Guesses /\ Bounded)'
    BY <2>1, <2>5, <2>6, TallyQuiet
  <2> QED BY <1>1, <2>1, <2>7, <2>8, Zenon DEF BoundInv
<1>5. QED
  BY <1>2, <1>3, <1>4

\* Taking one element away costs at most one.
LEMMA RemoveOne ==
    ASSUME NEW S, NEW x, IsFiniteSet(S)
    PROVE  /\ Cardinality(S) \in Nat /\ Cardinality(S \ {x}) \in Nat
           /\ Cardinality(S) <= Cardinality(S \ {x}) + 1
<1>1. /\ IsFiniteSet(S \ {x})
      /\ Cardinality(S \ {x}) = IF x \in S THEN Cardinality(S) - 1 ELSE Cardinality(S)
  BY FS_RemoveElement
<1>2. Cardinality(S) \in Nat /\ Cardinality(S \ {x}) \in Nat
  BY <1>1, FS_CardinalityType
<1> QED BY <1>1, <1>2

\* A wrong comparison: the call is about to count it.
LEMMA CompareBound ==
    ASSUME TypeOK, TypeOK', Tally, Guesses, Bounded, NEW v \in Verifier,
           pc[v] = "idle", pc' = [pc EXCEPT ![v] = "hIncrBy"], active \in SendCall,
           code' = [code EXCEPT ![v] = active], wrong' = [wrong EXCEPT ![active] = @ + 1],
           UNCHANGED <<active, attempts, errors>>
    PROVE  (Tally /\ Guesses /\ Bounded)'
<1>0. Shared /\ SendLocal /\ VerifyLocal
  BY TypeParts
<1>1. /\ attempts \in Nat /\ errors \in Nat /\ wrong \in [SendCall -> Nat]
      /\ MaxAttempts \in Nat
  BY <1>0, CodeAssumption DEF Shared
<1>2. /\ pc'[v] = "hIncrBy" /\ code'[v] = active
      /\ \A w \in Verifier : w # v => pc'[w] = pc[w] /\ code'[w] = code[w]
  BY <1>0 DEF SendLocal, VerifyLocal
<1>3. Locking' = Locking
  BY <1>2 DEF Locking
<1>4. Guessing(active)' = Guessing(active) \cup {v} /\ v \notin Guessing(active)
  BY <1>2 DEF Guessing
<1>5. Cardinality(Guessing(active)') = Cardinality(Guessing(active)) + 1
  BY <1>4, CountsHold, FS_AddElement DEF CountsOK
<1>6. Tally'
  BY <1>3 DEF Tally
<1>7. wrong[active] <= attempts + Cardinality(Guessing(active)) + errors
  BY CodeAssumption DEF Guesses, NoCode
<1>8. wrong'[active] = wrong[active] + 1 /\ wrong[active] \in Nat
  BY <1>1
<1>9. wrong'[active] <= attempts + Cardinality(Guessing(active)') + errors
  BY <1>1, <1>5, <1>7, <1>8, CallCounts
<1>10. Guesses'
  BY <1>9 DEF Guesses
<1>11. wrong'[active] <= MaxAttempts - 1 + Cardinality(Verifier) + errors
  <2>1. attempts <= MaxAttempts - 1 + Cardinality(Locking)
    BY DEF Tally
  <2>2. Cardinality(Locking) + Cardinality(Guessing(active)') <= Cardinality(Verifier)
    <3>1. CountsOK'
      BY CountsHold, PTL
    <3> QED BY <3>1, <1>3 DEF CountsOK
  <2>3. /\ Cardinality(Locking) \in Nat /\ Cardinality(Verifier) \in Nat
        /\ Cardinality(Guessing(active)') \in Nat
    BY <1>5, CallCounts
  <2> QED BY <1>1, <1>8, <1>9, <2>1, <2>2, <2>3
<1>12. Bounded'
  <2> SUFFICES ASSUME NEW s \in SendCall
               PROVE  wrong'[s] <= MaxAttempts - 1 + Cardinality(Verifier) + errors
    BY DEF Bounded
  <2>1. CASE s = active
    BY <2>1, <1>11
  <2>2. CASE s # active
    BY <2>2, <1>1 DEF Bounded
  <2> QED BY <2>1, <2>2
<1> QED BY <1>6, <1>10, <1>12

\* HIncrBy counts it; the call that reaches the limit locks the code.
LEMMA CountBound ==
    ASSUME TypeOK, TypeOK', Tally, Guesses, Bounded, NEW v \in Verifier, HIncrBy(v)
    PROVE  (Tally /\ Guesses /\ Bounded)'
<1>0. Shared /\ SendLocal /\ VerifyLocal
  BY TypeParts
<1>1. /\ attempts \in Nat /\ errors \in Nat /\ wrong \in [SendCall -> Nat]
      /\ MaxAttempts \in Nat \ {0} /\ active \in Codes
  BY <1>0, CodeAssumption DEF Shared
<1>2. /\ pc[v] = "hIncrBy" /\ attempts' = attempts + 1
      /\ UNCHANGED <<active, wrong, errors>>
  BY DEF HIncrBy
<1>3. \A w \in Verifier : w # v => pc'[w] = pc[w] /\ code'[w] = code[w]
  BY <1>0 DEF HIncrBy, Return, SendLocal, VerifyLocal
<1>4. pc'[v] = IF attempts + 1 >= MaxAttempts THEN "delLocked" ELSE "idle"
  BY <1>0 DEF HIncrBy, Return, SendLocal
<1>5. Tally'
  <2>1. CASE attempts + 1 >= MaxAttempts
    <3>1. Locking' = Locking \cup {v} /\ v \notin Locking
      BY <1>2, <1>3, <1>4, <2>1 DEF Locking
    <3>2. Cardinality(Locking') = Cardinality(Locking) + 1
      BY <3>1, CountsHold, FS_AddElement DEF CountsOK
    <3> QED BY <1>1, <1>2, <3>2, CallCounts DEF Tally
  <2>2. CASE ~(attempts + 1 >= MaxAttempts)
    BY <1>1, <1>2, <2>2, CallCounts DEF Tally
  <2> QED BY <2>1, <2>2
<1>6. Guesses'
  <2> SUFFICES ASSUME active # NoCode
               PROVE  wrong[active] <= (attempts + 1) + Cardinality(Guessing(active))' + errors
    BY <1>2 DEF Guesses
  <2>1. /\ wrong[active] <= attempts + Cardinality(Guessing(active)) + errors
        /\ wrong[active] \in Nat
    BY <1>1 DEF Guesses, Codes
  <2>2. Guessing(active)' = Guessing(active) \ {v}
    BY <1>2, <1>3, <1>4 DEF Guessing
  <2>3. IsFiniteSet(Guessing(active))
    BY CountsHold DEF CountsOK
  <2>4. /\ Cardinality(Guessing(active)) \in Nat /\ Cardinality(Guessing(active)') \in Nat
        /\ Cardinality(Guessing(active)) <= Cardinality(Guessing(active)') + 1
    BY <2>2, <2>3, RemoveOne
  <2> QED BY <1>1, <2>1, <2>4
<1>7. Bounded'
  BY <1>2 DEF Bounded
<1> QED BY <1>5, <1>6, <1>7

\* A call that fails before it counts is paid for with an error.
LEMMA FailBound ==
    ASSUME TypeOK, TypeOK', Tally, Guesses, Bounded, NEW v \in Verifier, VerifyFails(v)
    PROVE  (Tally /\ Guesses /\ Bounded)'
<1>0. Shared /\ SendLocal /\ VerifyLocal
  BY TypeParts
<1>1. /\ attempts \in Nat /\ errors \in Nat /\ wrong \in [SendCall -> Nat]
      /\ MaxAttempts \in Nat \ {0} /\ active \in Codes
  BY <1>0, CodeAssumption DEF Shared
<1>2. /\ pc[v] \in {"hIncrBy", "markVerified"} /\ errors' = errors + 1
      /\ UNCHANGED <<active, attempts, wrong>>
  BY DEF VerifyFails, Fails, store
<1>3. /\ pc'[v] = "idle"
      /\ \A w \in Verifier : w # v => pc'[w] = pc[w] /\ code'[w] = code[w]
  BY <1>0 DEF VerifyFails, Return, SendLocal, VerifyLocal
<1>4. Tally'
  <2>1. Locking' = Locking
    BY <1>2, <1>3 DEF Locking
  <2> QED BY <1>2, <2>1 DEF Tally
<1>5. Guesses'
  <2> SUFFICES ASSUME active # NoCode
               PROVE  wrong[active] <= attempts + Cardinality(Guessing(active))' + (errors + 1)
    BY <1>2 DEF Guesses
  <2>1. /\ wrong[active] <= attempts + Cardinality(Guessing(active)) + errors
        /\ wrong[active] \in Nat
    BY <1>1 DEF Guesses, Codes
  <2>2. Guessing(active)' = Guessing(active) \ {v}
    BY <1>2, <1>3 DEF Guessing
  <2>3. IsFiniteSet(Guessing(active))
    BY CountsHold DEF CountsOK
  <2>4. /\ Cardinality(Guessing(active)) \in Nat /\ Cardinality(Guessing(active)') \in Nat
        /\ Cardinality(Guessing(active)) <= Cardinality(Guessing(active)') + 1
    BY <2>2, <2>3, RemoveOne
  <2> QED BY <1>1, <2>1, <2>4
<1>6. Bounded'
  BY <1>1, <1>2, CallCounts DEF Bounded
<1> QED BY <1>4, <1>5, <1>6

\* What the VerifyCode calls do to the tally.
LEMMA VerifyBound ==
    ASSUME TypeOK, TypeOK', CodeInv, BoundInv, NEW v \in Verifier, VerifyStep(v)
    PROVE  BoundInv'
<1>0. Shared /\ SendLocal /\ VerifyLocal
  BY TypeParts
<1> v \notin SendCall
  BY CodeAssumption
<1>1. FreshCodes /\ (undeleted \/ (Tally /\ Guesses /\ Bounded))
  BY Zenon DEF BoundInv
<1>2. \A s \in SendCall : pc'[s] = pc[s]
  <2>1. \E to \in VerifyPC \cup {"idle"} : pc' = [pc EXCEPT ![v] = to]
    BY Zenon DEF VerifyStep, VerifyCode, Compare, HIncrBy, DelLocked, MarkLocked, DelExpired,
       MarkExpired, Mark, MarkVerified, DelVerified, VerifyFails, Return, Goto, VerifyPC
  <2> QED BY <1>0, <2>1 DEF SendLocal
<1>3. CASE VerifyCode(v)
  <2>1. /\ pc[v] = "idle" /\ active \in SendCall /\ code' = [code EXCEPT ![v] = active]
        /\ UNCHANGED <<active, attempts, errors, undeleted>>
    BY <1>0, <1>3 DEF VerifyCode, VerifyBegin, store, Shared, Codes
  <2>2. CASE pc' = [pc EXCEPT ![v] = "hIncrBy"] /\ wrong' = [wrong EXCEPT ![active] = @ + 1]
    \* the code in the hash is none that is still to be written
    <3>1. FreshCodes'
      <4>1. \A s \in SendCall : pc[s] \in Before => s # active
        BY Zenon DEF CodeInv, Unsent
      <4> QED BY <1>0, <1>1, <1>2, <2>2, <4>1 DEF FreshCodes, Shared
    <3>2. Tally /\ Guesses /\ Bounded => (Tally /\ Guesses /\ Bounded)'
      BY <2>1, <2>2, CompareBound
    <3> QED BY <1>1, <2>1, <3>1, <3>2, Zenon DEF BoundInv
  <2>3. CASE wrong' = wrong /\ \E to \in {"delExpired", "markVerified"} : pc' = [pc EXCEPT ![v] = to]
    <3>1. FreshCodes'
      BY <1>1, <1>2, <2>3 DEF FreshCodes
    <3>2. /\ pc'[v] \in {"delExpired", "markVerified"}
          /\ \A w \in Verifier : w # v => pc'[w] = pc[w] /\ code'[w] = code[w]
      BY <1>0, <2>1, <2>3 DEF SendLocal, VerifyLocal
    <3>3. Locking' = Locking /\ \A s \in SendCall : Guessing(s)' = Guessing(s)
      BY <2>1, <3>2 DEF Locking, Guessing
    <3>4. errors <= errors'
      BY <1>0, <2>1 DEF Shared
    <3>5. Tally /\ Guesses /\ Bounded => (Tally /\ Guesses /\ Bounded)'
      BY <2>1, <2>3, <3>3, <3>4, TallyQuiet
    <3> QED BY <1>1, <2>1, <3>1, <3>5, Zenon DEF BoundInv
  <2> QED BY <1>3, <2>2, <2>3 DEF VerifyCode, Compare
<1>4. CASE HIncrBy(v)
  <2>1. UNCHANGED <<wrong, undeleted>>
    BY <1>4 DEF HIncrBy
  <2>2. FreshCodes'
    BY <1>1, <1>2, <2>1 DEF FreshCodes
  <2>3. Tally /\ Guesses /\ Bounded => (Tally /\ Guesses /\ Bounded)'
    BY <1>4, CountBound
  <2> QED BY <1>1, <2>1, <2>2, <2>3, Zenon DEF BoundInv
<1>5. CASE VerifyFails(v)
  <2>1. UNCHANGED <<wrong, undeleted>>
    BY <1>5 DEF VerifyFails
  <2>2. FreshCodes'
    BY <1>1, <1>2, <2>1 DEF FreshCodes
  <2>3. Tally /\ Guesses /\ Bounded => (Tally /\ Guesses /\ Bounded)'
    BY <1>5, FailBound
  <2> QED BY <1>1, <2>1, <2>2, <2>3, Zenon DEF BoundInv
<1>6. CASE DelLocked(v) \/ DelExpired(v) \/ DelVerified(v)
  <2>1. Del /\ UNCHANGED wrong
    BY <1>6, Zenon DEF DelLocked, DelExpired, DelVerified, Close
  <2>2. FreshCodes'
    BY <1>1, <1>2, <2>1 DEF FreshCodes
  <2>3. undeleted => undeleted'
    BY <2>1, DelFacts, Zenon
  <2>4. Bounded => undeleted' \/ (Tally /\ Guesses /\ Bounded)'
    BY <2>1, TallyDel, Zenon
  <2> QED BY <1>1, <2>2, <2>3, <2>4, Zenon DEF BoundInv
<1>7. CASE MarkLocked(v) \/ MarkExpired(v) \/ MarkVerified(v)
  <2>1. UNCHANGED <<active, attempts, wrong, undeleted>>
    BY <1>7, Zenon DEF MarkLocked, MarkExpired, Mark, MarkVerified, store, ghosts
  <2>2. pc[v] \in {"markLocked", "markExpired", "markVerified"}
    BY <1>7, Zenon DEF MarkLocked, MarkExpired, Mark, MarkVerified, Goto
  <2>3. /\ pc'[v] \in {"idle", "delVerified"}
        /\ \A w \in Verifier : w # v => pc'[w] = pc[w] /\ code'[w] = code[w]
    BY <1>0, <1>7 DEF MarkLocked, MarkExpired, Mark, MarkVerified, Goto, Return, SendLocal,
       VerifyLocal, ghosts
  <2>4. errors' = errors \/ errors' = errors + 1
    BY <1>7, Zenon DEF MarkLocked, MarkExpired, Mark, MarkVerified, TrySetStatus, SetStatus, Fails
  <2>5. errors <= errors'
    BY <1>0, <2>4, CodeAssumption DEF Shared
  <2>6. Locking' = Locking /\ \A s \in SendCall : Guessing(s)' = Guessing(s)
    BY <2>2, <2>3 DEF Locking, Guessing
  <2>7. FreshCodes'
    BY <1>1, <1>2, <2>1 DEF FreshCodes
  <2>8. Tally /\ Guesses /\ Bounded => (Tally /\ Guesses /\ Bounded)'
    BY <2>1, <2>5, <2>6, TallyQuiet
  <2> QED BY <1>1, <2>1, <2>7, <2>8, Zenon DEF BoundInv
<1> QED BY <1>3, <1>4, <1>5, <1>6, <1>7 DEF VerifyStep

\* The bound on wrong guesses, for any number of calls, any limits and any number
\* of failing commands: only the calls that overlap the one that locks the code,
\* and the failed ones, come on top of MaxAttempts.
THEOREM GuessesCorrect == Spec => []GuessesBounded
<1>1. Init => BoundInv
  <2> SUFFICES ASSUME Init PROVE BoundInv
    OBVIOUS
  <2>1. FreshCodes
    BY DEF Init, FreshCodes
  <2>2. Tally
    BY CodeAssumption, CallCounts DEF Init, Tally
  <2>3. Guesses
    BY DEF Init, Guesses
  <2>4. Bounded
    BY CodeAssumption, CallCounts DEF Init, Bounded
  <2> QED BY <2>1, <2>2, <2>3, <2>4, Zenon DEF BoundInv
<1>2. ASSUME TypeOK, TypeOK', CodeInv, BoundInv, [Next]_vars PROVE BoundInv'
  <2>0. Shared /\ SendLocal /\ VerifyLocal
    BY <1>2, TypeParts
  <2>1. FreshCodes /\ (undeleted \/ (Tally /\ Guesses /\ Bounded))
    BY <1>2, Zenon DEF BoundInv
  <2>2. CASE CodeExpires
    <3>1. /\ active' = NoCode /\ attempts' = 0
          /\ UNCHANGED <<pc, wrong, errors, undeleted>>
      BY <2>2, Zenon DEF CodeExpires
    <3>2. errors <= errors'
      BY <2>0, <3>1 DEF Shared
    <3>3. Bounded => (Tally /\ Guesses /\ Bounded)'
      BY <1>2, <3>1, <3>2, TallyEmptied
    <3>4. FreshCodes'
      BY <2>1, <3>1 DEF FreshCodes
    <3> QED BY <2>1, <3>1, <3>3, <3>4, Zenon DEF BoundInv
  <2>3. CASE CodeDue \/ (\E k \in Key : WindowEnds(k)) \/ UNCHANGED vars
    <3>1. UNCHANGED <<active, attempts, pc, code, wrong, errors, undeleted>>
      BY <2>3, Zenon DEF CodeDue, WindowEnds, vars, ghosts, store
    <3>2. errors <= errors'
      BY <2>0, <3>1 DEF Shared
    <3>3. Locking' = Locking /\ \A s \in SendCall : Guessing(s)' = Guessing(s)
      BY <3>1 DEF Locking, Guessing
    <3>4. Tally /\ Guesses /\ Bounded => (Tally /\ Guesses /\ Bounded)'
      BY <1>2, <3>1, <3>2, <3>3, TallyQuiet
    <3>5. FreshCodes'
      BY <2>1, <3>1 DEF FreshCodes
    <3> QED BY <2>1, <3>1, <3>4, <3>5, Zenon DEF BoundInv
  <2> QED BY <1>2, <2>2, <2>3, SendBound, VerifyBound DEF Next
<1>3. BoundInv => GuessesBounded
  BY Zenon DEF BoundInv, Bounded, GuessesBounded
<1> QED BY <1>1, <1>2, <1>3, TypeCorrect, CodeCorrect, PTL DEF Spec
=============================================================================
