--------------------------- MODULE VerificationCode ---------------------------
(***************************************************************************)
(* The verification codes of one target and purpose: the active code (a    *)
(* Redis hash with an expiry), its audit row (verification_codes) and the  *)
(* rate-limit counters of SendCode.                                        *)
(*                                                                         *)
(* SendCode and VerifyCode are series of single Redis and SQL commands;    *)
(* the errors of most of them are ignored or undone by further commands,   *)
(* and nothing keeps two calls for one target apart.                       *)
(***************************************************************************)
EXTENDS Naturals, Sequences, FiniteSets

CONSTANTS SendCall,    \* SendCode calls; each makes one code, named after it
          Verifier,    \* goroutines that serve VerifyCode
          Limit,       \* the limits of the counters SendCode passes, in order;
                       \* 0: unlimited
          MaxAttempts, \* conf.Code.MaxAttempts
          MaxVerify,   \* bound: VerifyCode calls
          MaxErrors    \* bound: failing Redis, SQL and delivery commands

ASSUME CodeAssumption ==
    /\ MaxAttempts \in Nat \ {0} /\ MaxVerify \in Nat /\ MaxErrors \in Nat
    /\ Limit \in Seq(Nat) \ {<<>>}
    /\ SendCall \cap Verifier = {} /\ "none" \notin SendCall
    /\ IsFiniteSet(Verifier)

VARIABLES
    count,    \* Redis: the value of each counter; 0: no such key
    lasting,  \* Redis: the counters that have no expiry
    active,   \* Redis: the code the hash holds, "none" without the fields that
              \* SendCode writes
    attempts, \* Redis: the field attempts of the hash; the key exists if it
              \* holds a code or attempts > 0
    ttl,      \* Redis: "old" if the expiry of the hash was set for a code it no
              \* longer holds, "own" if afterwards, "none" without expiry
    status,   \* verification_codes: the status of each code, "none" without row
    latest,   \* the code of the row inserted last
    due,      \* whether the expires_at of the code in the hash has passed
    pc,
    held, undone, \* SendCode: counters it has passed, and how many of them it
              \* has rolled back
    prev,     \* SendCode: the row it has read
    code,     \* VerifyCode: the code it has read
    verifies, errors,
    wrong,    \* history: how often each code was compared with a wrong one
    closed,   \* history: codes that were used, locked, expired or replaced
    barred,   \* history: for each VerifyCode call, what was closed at its start
    reused,   \* history: some call accepted a code closed before its start
    undeleted \* history: some deletion of the hash has failed

counters == <<count, lasting>>
send   == <<held, undone, prev>>
store  == <<active, attempts, ttl, due>>
rows   == <<status, latest>>
ghosts == <<wrong, closed, barred, reused>>
vars   == <<counters, store, rows, pc, send, code, verifies, errors, ghosts, undeleted>>

NoCode == "none"
Codes  == SendCall \cup {NoCode}
Key    == 1..Len(Limit)
Statuses == {"none", "pending", "verified", "expired", "locked", "cancelled"}
SendPC == {"setNX", "incr", "breach", "cancelRead", "cancelWrite", "hset",
           "expire", "create", "dispatch", "del", "rollback", "markCancelled", "done"}
VerifyPC == {"hIncrBy", "delLocked", "markLocked", "delExpired", "markExpired",
             "markVerified", "delVerified"}

TypeOK ==
    /\ count \in [Key -> Nat] /\ lasting \subseteq Key
    /\ active \in Codes /\ attempts \in Nat /\ ttl \in {"none", "old", "own"}
    /\ status \in [SendCall -> Statuses] /\ latest \in Codes
    /\ due \in BOOLEAN
    /\ pc \in [SendCall \cup Verifier -> SendPC \cup VerifyPC \cup {"idle"}]
    /\ \A s \in SendCall : pc[s] \in SendPC
    /\ \A v \in Verifier : pc[v] \in VerifyPC \cup {"idle"}
    /\ held \in [SendCall -> 0..Len(Limit)]
    /\ undone \in [SendCall -> 0..Len(Limit)]
    /\ prev \in [SendCall -> Codes]
    /\ code \in [Verifier -> Codes]
    /\ verifies \in 0..MaxVerify /\ errors \in 0..MaxErrors
    /\ wrong \in [SendCall -> Nat]
    /\ closed \subseteq SendCall
    /\ barred \in [Verifier -> SUBSET SendCall]
    /\ reused \in BOOLEAN /\ undeleted \in BOOLEAN
    /\ \A v \in Verifier : pc[v] \in VerifyPC => code[v] \in SendCall
    /\ \A s \in SendCall : /\ pc[s] \in {"setNX", "incr", "breach"} => held[s] < Len(Limit)
                           /\ pc[s] = "cancelWrite" => prev[s] \in SendCall
                           /\ undone[s] <= held[s]
                           /\ pc[s] # "rollback" => undone[s] = 0

Init ==
    /\ count = [k \in Key |-> 0] /\ lasting = {}
    /\ active = NoCode /\ attempts = 0 /\ ttl = "none"
    /\ status = [s \in SendCall |-> "none"] /\ latest = NoCode
    /\ due = FALSE
    /\ pc = [c \in SendCall \cup Verifier |-> IF c \in SendCall THEN "setNX" ELSE "idle"]
    /\ held = [s \in SendCall |-> 0] /\ undone = [s \in SendCall |-> 0]
    /\ prev = [s \in SendCall |-> NoCode]
    /\ code = [v \in Verifier |-> NoCode]
    /\ verifies = 0 /\ errors = 0
    /\ wrong = [s \in SendCall |-> 0]
    /\ closed = {}
    /\ barred = [v \in Verifier |-> {}]
    /\ reused = FALSE /\ undeleted = FALSE

\* The call of v ends: its local variables are gone.
Return(v) ==
    /\ pc' = [pc EXCEPT ![v] = "idle"]
    /\ code' = [code EXCEPT ![v] = NoCode]
    /\ barred' = [barred EXCEPT ![v] = {}]

Goto(c, from, to) == pc[c] = from /\ pc' = [pc EXCEPT ![c] = to]
Fails == errors < MaxErrors /\ errors' = errors + 1

\* Del of the hash, whose error is ignored; the caller moves on either way.
Del ==
    \/ /\ active' = NoCode /\ attempts' = 0 /\ ttl' = "none" /\ due' = FALSE
       /\ UNCHANGED <<errors, undeleted>>
    \/ /\ Fails /\ undeleted' = TRUE
       /\ UNCHANGED store

\* Del of a counter, whose error is ignored too.
DelCounter(k) ==
    \/ /\ count' = [count EXCEPT ![k] = 0] /\ lasting' = lasting \ {k}
       /\ UNCHANGED errors
    \/ Fails /\ UNCHANGED counters

\* UpdateStatus: no row, no effect; its error is ignored by all but one caller.
SetStatus(c, st) ==
    /\ status' = IF status[c] = "none" THEN status ELSE [status EXCEPT ![c] = st]
    /\ UNCHANGED errors
TrySetStatus(c, st) == SetStatus(c, st) \/ (Fails /\ UNCHANGED status)

-----------------------------------------------------------------------------
(* SendCode *)

\* The counter the call has come to.
Current(s) == held[s] + 1

\* The counter has room: on to the next one, or to the code.
Admitted(s) ==
    /\ held' = [held EXCEPT ![s] = @ + 1]
    /\ pc' = [pc EXCEPT ![s] = IF Current(s) = Len(Limit) THEN "cancelRead" ELSE "setNX"]

\* applyRateLimits, incrementAndCheck: SetNX with the expiry, and Incr if the key
\* was there. The first is where SendCode, its arguments valid, begins.
SetNX(s) ==
    /\ pc[s] = "setNX"
    /\ IF count[Current(s)] = 0
       THEN count' = [count EXCEPT ![Current(s)] = 1] /\ Admitted(s)
       ELSE pc' = [pc EXCEPT ![s] = "incr"] /\ UNCHANGED <<count, held>>
    /\ UNCHANGED <<lasting, store, rows, undone, prev, code, verifies, errors, ghosts, undeleted>>

\* Incr makes the key again, without an expiry, if it went away since.
Incr(s) ==
    /\ pc[s] = "incr"
    /\ LET k == Current(s) IN
       /\ count' = [count EXCEPT ![k] = @ + 1]
       /\ lasting' = IF count[k] = 0 THEN lasting \cup {k} ELSE lasting
       /\ IF Limit[k] > 0 /\ count'[k] > Limit[k]
          THEN pc' = [pc EXCEPT ![s] = "breach"] /\ UNCHANGED held
          ELSE Admitted(s)
    /\ UNCHANGED <<store, rows, undone, prev, code, verifies, errors, ghosts, undeleted>>

\* Over the limit: the counter is deleted, then those passed before it.
Breach(s) ==
    /\ Goto(s, "breach", "rollback")
    /\ DelCounter(Current(s))
    /\ UNCHANGED <<store, rows, send, code, verifies, ghosts, undeleted>>

\* A counter cannot be read: the ones passed are rolled back.
LimitFails(s) ==
    /\ pc[s] \in {"setNX", "incr"}
    /\ Fails
    /\ pc' = [pc EXCEPT ![s] = "rollback"]
    /\ UNCHANGED <<counters, store, rows, send, code, verifies, ghosts, undeleted>>

\* rollbackRateLimits deletes the counters one by one.
Rollback(s) ==
    /\ pc[s] = "rollback" /\ undone[s] < held[s]
    /\ undone' = [undone EXCEPT ![s] = @ + 1]
    /\ DelCounter(undone[s] + 1)
    /\ UNCHANGED <<store, rows, pc, held, prev, code, verifies, ghosts, undeleted>>

\* Then the call fails; if the delivery failed, once the code was marked.
RolledBack(s) ==
    /\ undone[s] = held[s]
    /\ Goto(s, "rollback", IF status[s] = "none" THEN "done" ELSE "markCancelled")
    /\ held' = [held EXCEPT ![s] = 0] /\ undone' = [undone EXCEPT ![s] = 0]
    /\ prev' = [prev EXCEPT ![s] = NoCode]
    /\ UNCHANGED <<counters, store, rows, code, verifies, errors, ghosts, undeleted>>

MarkCancelled(s) ==
    /\ Goto(s, "markCancelled", "done")
    /\ TrySetStatus(s, "cancelled")
    /\ UNCHANGED <<counters, store, latest, send, code, verifies, ghosts, undeleted>>

\* cancelPreviousCode: GetLatestByTarget, then UpdateStatus if it is pending.
CancelRead(s) ==
    /\ Goto(s, "cancelRead",
            IF latest # NoCode /\ status[latest] = "pending" THEN "cancelWrite" ELSE "hset")
    /\ prev' = [prev EXCEPT ![s] = IF pc'[s] = "cancelWrite" THEN latest ELSE NoCode]
    /\ UNCHANGED <<counters, store, rows, held, undone, code, verifies, errors, ghosts, undeleted>>

CancelWrite(s) ==
    /\ Goto(s, "cancelWrite", "hset")
    /\ SetStatus(prev[s], "cancelled")
    /\ prev' = [prev EXCEPT ![s] = NoCode]
    /\ UNCHANGED <<counters, store, latest, held, undone, code, verifies, ghosts, undeleted>>

\* HSet of all fields: the code in the hash is replaced, its expiry stays.
HSet(s) ==
    /\ Goto(s, "hset", "expire")
    /\ active' = s /\ attempts' = 0 /\ due' = FALSE
    /\ ttl' = IF ttl = "none" THEN "none" ELSE "old"
    /\ closed' = closed \cup ({active} \ {NoCode})
    /\ UNCHANGED <<counters, rows, send, code, verifies, errors, wrong, barred, reused, undeleted>>

\* No key, no effect. The expiry ends after the expires_at of the code in the hash.
Expire(s) ==
    /\ Goto(s, "expire", "create")
    /\ ttl' = IF active # NoCode \/ attempts > 0 THEN "own" ELSE "none"
    /\ UNCHANGED <<counters, active, attempts, due, rows, send, code, verifies, errors, ghosts, undeleted>>

Create(s) ==
    /\ Goto(s, "create", "dispatch")
    /\ status' = [status EXCEPT ![s] = "pending"] /\ latest' = s
    /\ UNCHANGED <<counters, store, send, code, verifies, errors, ghosts, undeleted>>

\* dispatchCode: the sender has taken the code, and SendCode answers.
Dispatch(s) ==
    /\ Goto(s, "dispatch", "done")
    /\ held' = [held EXCEPT ![s] = 0]
    /\ UNCHANGED <<counters, store, rows, undone, prev, code, verifies, errors, ghosts, undeleted>>

\* A command fails: before the hash was written the counters are rolled back,
\* afterwards the hash is deleted first.
SendFails(s) ==
    /\ pc[s] \in {"cancelRead", "cancelWrite", "hset", "expire", "create", "dispatch"}
    /\ Fails
    /\ pc' = [pc EXCEPT ![s] =
                 IF pc[s] \in {"expire", "create", "dispatch"} THEN "del" ELSE "rollback"]
    /\ UNCHANGED <<counters, store, rows, send, code, verifies, ghosts, undeleted>>

SendDel(s) ==
    /\ Goto(s, "del", "rollback")
    /\ Del
    /\ UNCHANGED <<counters, rows, send, code, verifies, ghosts>>

-----------------------------------------------------------------------------
(* VerifyCode *)

VerifyBegin(v) ==
    /\ pc[v] = "idle" /\ verifies < MaxVerify
    /\ verifies' = verifies + 1
    /\ barred' = [barred EXCEPT ![v] = closed]
    /\ UNCHANGED <<counters, store, rows, send, errors, closed, reused, undeleted>>

\* HGetAll and the comparison: the code has expired, or is right, or wrong.
Compare(v) ==
    \/ /\ due
       /\ pc' = [pc EXCEPT ![v] = "delExpired"]
       /\ UNCHANGED wrong
    \/ /\ ~ due
       /\ pc' = [pc EXCEPT ![v] = "markVerified"]
       /\ UNCHANGED wrong
    \/ /\ ~ due
       /\ pc' = [pc EXCEPT ![v] = "hIncrBy"]
       /\ wrong' = [wrong EXCEPT ![active] = @ + 1]

\* Without a code in the hash the call fails and changes nothing
\* (resolveMissingCodeError only reads).
VerifyCode(v) ==
    /\ VerifyBegin(v)
    /\ active # NoCode
    /\ Compare(v)
    /\ code' = [code EXCEPT ![v] = active]

\* Mutant: the last attempt does not lock the code.
HIncrByOneMore(v) ==
    /\ pc[v] = "hIncrBy"
    /\ attempts' = attempts + 1
    /\ IF attempts' > MaxAttempts
       THEN pc' = [pc EXCEPT ![v] = "delLocked"] /\ UNCHANGED <<code, barred>>
       ELSE Return(v)
    /\ UNCHANGED <<counters, active, ttl, due, rows, send, verifies, errors, wrong, closed, reused, undeleted>>

\* A wrong code: HIncrBy makes the key again if it is gone; the new value decides
\* whether the code is locked. (IncrementAttempts only updates the audit row.)
HIncrBy(v) ==
    /\ pc[v] = "hIncrBy"
    /\ attempts' = attempts + 1
    /\ IF attempts' >= MaxAttempts
       THEN pc' = [pc EXCEPT ![v] = "delLocked"] /\ UNCHANGED <<code, barred>>
       ELSE Return(v)
    /\ UNCHANGED <<counters, active, ttl, due, rows, send, verifies, errors, wrong, closed, reused, undeleted>>

\* Del of the hash by a call that is done with code[v].
Close(v) ==
    /\ Del
    /\ closed' = closed \cup {code[v]}
    /\ UNCHANGED <<counters, rows, send, verifies, wrong>>

DelLocked(v) ==
    /\ Goto(v, "delLocked", "markLocked")
    /\ Close(v)
    /\ UNCHANGED <<code, barred, reused>>

DelExpired(v) ==
    /\ Goto(v, "delExpired", "markExpired")
    /\ Close(v)
    /\ UNCHANGED <<code, barred, reused>>

Mark(v, from, st) ==
    /\ pc[v] = from /\ Return(v)
    /\ TrySetStatus(code[v], st)
    /\ UNCHANGED <<counters, store, latest, send, verifies, wrong, closed, reused, undeleted>>

MarkLocked(v)  == Mark(v, "markLocked", "locked")
MarkExpired(v) == Mark(v, "markExpired", "expired")

\* The right code: UpdateVerifiedAt, then Del, and the call accepts the code.
MarkVerified(v) ==
    /\ Goto(v, "markVerified", "delVerified")
    /\ SetStatus(code[v], "verified")
    /\ UNCHANGED <<counters, store, latest, send, code, verifies, ghosts, undeleted>>

\* Mutant: the code is left in the hash until it expires.
DelVerifiedKeeps(v) ==
    /\ pc[v] = "delVerified" /\ Return(v)
    /\ reused' = (reused \/ code[v] \in barred[v])
    /\ closed' = closed \cup {code[v]}
    /\ UNCHANGED <<counters, store, rows, send, verifies, errors, wrong, undeleted>>

DelVerified(v) ==
    /\ pc[v] = "delVerified" /\ Return(v)
    /\ Close(v)
    /\ reused' = (reused \/ code[v] \in barred[v])

\* HIncrBy or UpdateVerifiedAt fails and ends the call. (A failing HGetAll ends
\* it before anything has happened.)
VerifyFails(v) ==
    /\ pc[v] \in {"hIncrBy", "markVerified"}
    /\ Fails
    /\ Return(v)
    /\ UNCHANGED <<counters, store, rows, send, verifies, wrong, closed, reused, undeleted>>

-----------------------------------------------------------------------------
\* Time: the expires_at of the code in the hash passes.
CodeDue ==
    /\ active # NoCode /\ ~ due
    /\ due' = TRUE
    /\ UNCHANGED <<counters, active, attempts, ttl, rows, pc, send, code, verifies, errors, ghosts, undeleted>>

\* Redis drops the hash when its expiry ends.
CodeExpires ==
    /\ ttl = "old" \/ (ttl = "own" /\ (due \/ active = NoCode))
    /\ active' = NoCode /\ attempts' = 0 /\ ttl' = "none" /\ due' = FALSE
    /\ closed' = closed \cup ({active} \ {NoCode})
    /\ UNCHANGED <<counters, rows, pc, send, code, verifies, errors, wrong, barred, reused, undeleted>>

\* Redis drops a counter at the end of its window.
WindowEnds(k) ==
    /\ count[k] > 0 /\ k \notin lasting
    /\ count' = [count EXCEPT ![k] = 0]
    /\ UNCHANGED <<lasting, store, rows, pc, send, code, verifies, errors, ghosts, undeleted>>

SendStep(s) ==
    \/ SetNX(s) \/ Incr(s) \/ Breach(s) \/ LimitFails(s)
    \/ Rollback(s) \/ RolledBack(s) \/ MarkCancelled(s)
    \/ CancelRead(s) \/ CancelWrite(s) \/ HSet(s) \/ Expire(s)
    \/ Create(s) \/ Dispatch(s) \/ SendFails(s) \/ SendDel(s)

VerifyStep(v) ==
    \/ VerifyCode(v) \/ HIncrBy(v)
    \/ DelLocked(v) \/ MarkLocked(v) \/ DelExpired(v) \/ MarkExpired(v)
    \/ MarkVerified(v) \/ DelVerified(v) \/ VerifyFails(v)

Next ==
    \/ \E s \in SendCall : SendStep(s)
    \/ \E v \in Verifier : VerifyStep(v)
    \/ CodeDue
    \/ CodeExpires
    \/ \E k \in Key : WindowEnds(k)

Spec == Init /\ [][Next]_vars

-----------------------------------------------------------------------------
\* "验证码最大错误次数": a code is compared with wrong ones at most MaxAttempts
\* times, and once more for every other call that overlaps the last of them and
\* for every failed HIncrBy, however the hash is deleted, made again by HIncrBy
\* and written by other SendCode calls in between; unless a deletion of the hash
\* failed.
GuessesBounded ==
    undeleted \/ \A s \in SendCall :
        wrong[s] <= MaxAttempts - 1 + Cardinality(Verifier) + errors

\* "一次性使用": a code that was used, locked, expired or replaced is not accepted
\* by a call that begins afterwards, unless a deletion of the hash failed.
ClosedNotAccepted ==
    reused => undeleted

=============================================================================
