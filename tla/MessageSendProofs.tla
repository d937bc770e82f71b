-------------------------- MODULE MessageSendProofs --------------------------
(***************************************************************************)
(* Proofs about MessageSend, for any number of handlers, keys,             *)
(* conversations and message ids.                                          *)
(***************************************************************************)
EXTENDS MessageSend, TLAPS

-----------------------------------------------------------------------------
(* Type correctness. *)

\* The initial tables, locks and handlers have their types.
LEMMA InitType == Init => TypeOK
BY SendAssumption DEF Init, TypeOK, PC, InTx

\* Every step of a handler, client, sender or reader keeps the types: in
\* particular a handler with a request in hand always knows its key.
LEMMA NextType == TypeOK /\ [Next]_vars => TypeOK'
<1> SUFFICES ASSUME TypeOK, [Next]_vars PROVE TypeOK'
  OBVIOUS
<1> USE SendAssumption
<1> USE DEF TypeOK, PC, InTx, MessageRow, Goto, Ends, ReleaseLocks,
            ReturnError, tables, locks, local, reader
<1>1. ASSUME NEW h \in Handler, Work(h) PROVE TypeOK'
  <2>1. CASE Authorize(h)
    BY <2>1 DEF Authorize
  <2>2. CASE AuthorizeDenied(h)
    BY <2>2 DEF AuthorizeDenied
  <2>3. CASE CreateIfNotExists(h)
    BY <2>3 DEF CreateIfNotExists
  <2>4. CASE GetForUpdateByKey(h)
    BY <2>4 DEF GetForUpdateByKey
  <2>5. CASE IdempotencyHit(h)
    BY <2>5 DEF IdempotencyHit
  <2>6. CASE HitDeleted(h)
    BY <2>6 DEF HitDeleted
  <2>7. CASE GetOrCreateSelect(h)
    BY <2>7 DEF GetOrCreateSelect
  <2>8. CASE GetOrCreateInsert(h)
    BY <2>8 DEF GetOrCreateInsert
  <2>9. CASE IncrementAndGet(h)
    BY <2>9 DEF IncrementAndGet
  <2>10. CASE \E id \in MsgId : CreateMessage(h, id)
    BY <2>10 DEF CreateMessage
  <2>11. CASE BindAndCommit(h)
    BY <2>11 DEF BindAndCommit
  <2>12. CASE PublishSkipped(h)
    BY <2>12 DEF PublishSkipped
  <2>13. CASE PublishPanics(h)
    BY <2>13 DEF PublishPanics
  <2>14. CASE Reply(h)
    BY <2>14 DEF Reply
  <2> QED
    BY <1>1, <2>1, <2>2, <2>3, <2>4, <2>5, <2>6, <2>7, <2>8, <2>9, <2>10,
       <2>11, <2>12, <2>13, <2>14 DEF Work
<1>2. ASSUME NEW h \in Handler, Error(h) PROVE TypeOK'
  BY <1>2 DEF Error
<1>3. ASSUME NEW h \in Handler, NEW k \in Key, Call(h, k) PROVE TypeOK'
  BY <1>3 DEF Call
<1>4. ASSUME NEW id \in MsgId, Delete(id) \/ Recall(id) PROVE TypeOK'
  BY <1>4 DEF Delete, Recall
<1>5. ASSUME NEW c \in Conv, GetMessages(c) \/ GetMessagesAfter(c) PROVE TypeOK'
  <2>1. PICK n \in Nat : ReadPage(c, n)
    BY <1>5 DEF GetMessages, GetMessagesAfter
  <2>2. PICK last \in {n} \cup {m.seq : m \in After(c, n)} :
          /\ seen' = seen \cup {m.id : m \in {x \in After(c, n) : x.seq <= last}}
          /\ cursor' = [cursor EXCEPT ![c] = IF last > @ THEN last ELSE @]
          /\ UNCHANGED <<tables, locks, pc, local, calls, errors, replies>>
    BY <2>1 DEF ReadPage
  <2>3. last \in Nat /\ After(c, n) \subseteq MessageRow
    BY <2>2 DEF After
  <2>4. cursor' \in [Conv -> Nat]
    BY <2>2, <2>3
  <2>5. seen' \subseteq MsgId
    BY <2>2, <2>3
  <2> QED
    BY <2>2, <2>4, <2>5
<1>6. CASE UNCHANGED vars
  BY <1>6 DEF vars
<1> QED
  BY <1>1, <1>2, <1>3, <1>4, <1>5, <1>6 DEF Next

\* The type invariant of SendMessage's tables, locks and handlers holds in
\* every reachable state.
THEOREM TypeCorrect == Spec => []TypeOK
BY InitType, NextType, PTL DEF Spec

-----------------------------------------------------------------------------
(* The inductive invariant.  What makes the tables consistent is that a      *)
(* transaction holds the rows it depends on until it commits: the key's      *)
(* idempotency row while it decides whether the key is new, and the          *)
(* conversation's sequence row from the increment to the commit, so that the *)
(* sequence it is about to commit is still the next one.                     *)

NewMessage == {"selectSeq", "insertSeq", "updateSeq", "insertMsg", "commit"}

\* A row lock belongs to a transaction on that row, at a statement after the
\* one that takes it; the statements that need the lock have it.
LockDiscipline ==
    /\ \A h \in Handler, k \in Key : idemLock[k] = h =>
         req[h] = k /\ pc[h] \in NewMessage \cup {"lockIdem", "hit"}
    /\ \A h \in Handler, c \in Conv : seqLock[c] = h =>
         ConvOf[req[h]] = c /\ pc[h] \in {"updateSeq", "insertMsg", "commit"}
    /\ \A h \in Handler : pc[h] \in NewMessage \cup {"hit"} =>
         idemLock[req[h]] = h
    /\ \A h \in Handler : pc[h] \in {"insertMsg", "commit"} =>
         seqLock[ConvOf[req[h]]] = h

\* What a handler has read or allocated is still so.
HandlerKnows ==
    /\ \A h \in Handler : pc[h] \in NewMessage => idem[req[h]] = NoMsg
    /\ \A h \in Handler : pc[h] \in {"insertMsg", "commit"} =>
         seq[h] = curSeq[ConvOf[req[h]]] + 1
    /\ \A h \in Handler : pc[h] = "commit" => \A m \in messages : m.id # mid[h]
    /\ \A g, h \in Handler :
         pc[g] = "commit" /\ pc[h] = "commit" /\ mid[g] = mid[h] => g = h
    /\ \A h \in Handler : pc[h] \in {"publish", "reply"} =>
         [id |-> mid[h], key |-> req[h], seq |-> seq[h]] \in messages

\* The idempotency table and the messages name each other.
TablesAgree ==
    /\ \A m \in messages : idem[m.key] = m.id
    /\ \A k \in Key : idem[k] # NoMsg =>
         \E m \in messages : m.key = k /\ m.id = idem[k]
    /\ \A p, q \in messages : p.id = q.id => p = q

\* The reader has received rows of the table, none of them beyond its cursor,
\* and the cursor is not beyond the last sequence.
CursorBehind ==
    /\ \A c \in Conv : cursor[c] <= curSeq[c]
    /\ \A i \in seen : \E m \in messages : m.id = i
    /\ \A m \in messages : m.id \in seen => m.seq <= cursor[ConvOf[m.key]]

SendInv ==
    /\ TypeOK
    /\ LockDiscipline
    /\ HandlerKnows
    /\ TablesAgree
    /\ SequencesDense
    /\ RepliesAgree
    /\ CursorBehind
    /\ ReaderMissesNothing
    /\ RowsExist

\* Reading a page touches neither the tables nor the handlers.
LEMMA ReadingChangesNoTable ==
    \A c \in Conv : GetMessages(c) \/ GetMessagesAfter(c) =>
        UNCHANGED <<idem, curSeq, messages, recalled, deleted, idemLock, seqLock,
                    pc, req, seq, mid, calls, errors, replies>>
BY DEF GetMessages, GetMessagesAfter, ReadPage, tables, locks, local

\* Each step keeps the lock discipline: a row is locked before it is used
\* and given back only when its transaction ends.
LEMMA LocksStep == SendInv /\ [Next]_vars => LockDiscipline'
<1> SUFFICES ASSUME SendInv, [Next]_vars PROVE LockDiscipline'
  OBVIOUS
<1> USE SendAssumption
<1>0. TypeOK /\ TypeOK'
  BY NextType DEF SendInv
<1> USE DEF SendInv, TypeOK, LockDiscipline, NewMessage, PC, InTx, Goto, Ends,
            ReleaseLocks, ReturnError, tables, locks, local, reader
<1>1. ASSUME NEW h \in Handler, Work(h) PROVE LockDiscipline'
  <2>1. CASE Authorize(h)
    BY <1>0, <2>1 DEF Authorize
  <2>2. CASE AuthorizeDenied(h)
    BY <1>0, <2>2 DEF AuthorizeDenied
  <2>3. CASE CreateIfNotExists(h)
    BY <1>0, <2>3 DEF CreateIfNotExists
  <2>4. CASE GetForUpdateByKey(h)
    BY <1>0, <2>4 DEF GetForUpdateByKey
  <2>5. CASE IdempotencyHit(h)
    BY <1>0, <2>5 DEF IdempotencyHit
  <2>6. CASE HitDeleted(h)
    BY <1>0, <2>6 DEF HitDeleted
  <2>7. CASE GetOrCreateSelect(h)
    BY <1>0, <2>7 DEF GetOrCreateSelect
  <2>8. CASE GetOrCreateInsert(h)
    BY <1>0, <2>8 DEF GetOrCreateInsert
  <2>9. CASE IncrementAndGet(h)
    BY <1>0, <2>9 DEF IncrementAndGet
  <2>10. CASE \E id \in MsgId : CreateMessage(h, id)
    BY <1>0, <2>10 DEF CreateMessage
  <2>11. CASE BindAndCommit(h)
    BY <1>0, <2>11 DEF BindAndCommit
  <2>12. CASE PublishSkipped(h)
    BY <1>0, <2>12 DEF PublishSkipped
  <2>13. CASE PublishPanics(h)
    BY <1>0, <2>13 DEF PublishPanics
  <2>14. CASE Reply(h)
    BY <1>0, <2>14 DEF Reply
  <2> QED
    BY <1>1, <2>1, <2>2, <2>3, <2>4, <2>5, <2>6, <2>7, <2>8, <2>9, <2>10, <2>11, <2>12, <2>13, <2>14 DEF Work
<1>2. ASSUME NEW h \in Handler, Error(h) PROVE LockDiscipline'
  BY <1>0, <1>2 DEF Error
<1>3. ASSUME NEW h \in Handler, NEW k \in Key, Call(h, k) PROVE LockDiscipline'
  BY <1>0, <1>3 DEF Call
<1>4. ASSUME NEW id \in MsgId, Delete(id) \/ Recall(id) PROVE LockDiscipline'
  BY <1>0, <1>4 DEF Delete, Recall
<1>5. ASSUME NEW c \in Conv, GetMessages(c) \/ GetMessagesAfter(c)
      PROVE LockDiscipline'
  BY <1>0, <1>5, ReadingChangesNoTable DEF SendInv
<1>6. CASE UNCHANGED vars
  BY <1>0, <1>6 DEF vars
<1> QED
  BY <1>1, <1>2, <1>3, <1>4, <1>5, <1>6 DEF Next

\* Each step keeps what the handlers rely on.
LEMMA KnowsStep == SendInv /\ [Next]_vars => HandlerKnows'
<1> SUFFICES ASSUME SendInv, [Next]_vars PROVE HandlerKnows'
  OBVIOUS
<1> USE SendAssumption
<1>0. TypeOK /\ TypeOK'
  BY NextType DEF SendInv
<1> USE DEF SendInv, TypeOK, LockDiscipline, HandlerKnows, NewMessage, PC, InTx, Goto, Ends,
            ReleaseLocks, ReturnError, tables, locks, local, reader, MessageRow, TablesAgree
<1>1. ASSUME NEW h \in Handler, Work(h) PROVE HandlerKnows'
  <2>1. CASE Authorize(h)
    BY <1>0, <2>1 DEF Authorize
  <2>2. CASE AuthorizeDenied(h)
    BY <1>0, <2>2 DEF AuthorizeDenied
  <2>3. CASE CreateIfNotExists(h)
    BY <1>0, <2>3 DEF CreateIfNotExists
  <2>4. CASE GetForUpdateByKey(h)
    BY <1>0, <2>4 DEF GetForUpdateByKey
  <2>5. CASE IdempotencyHit(h)
    <3>1. PICK m \in messages : /\ m.id = idem[req[h]]
                              /\ pc[h] = "hit"
                              /\ pc' = [pc EXCEPT ![h] = "reply"]
                              /\ mid' = [mid EXCEPT ![h] = m.id]
                              /\ seq' = [seq EXCEPT ![h] = m.seq]
                              /\ UNCHANGED <<idem, curSeq, messages, req>>
      BY <2>5 DEF IdempotencyHit
    <3>2. m = [id |-> m.id, key |-> req[h], seq |-> m.seq]
      BY <1>0, <3>1
    <3> QED
      BY <1>0, <3>1, <3>2
  <2>6. CASE HitDeleted(h)
    BY <1>0, <2>6 DEF HitDeleted
  <2>7. CASE GetOrCreateSelect(h)
    BY <1>0, <2>7 DEF GetOrCreateSelect
  <2>8. CASE GetOrCreateInsert(h)
    BY <1>0, <2>8 DEF GetOrCreateInsert
  <2>9. CASE IncrementAndGet(h)
    BY <1>0, <2>9 DEF IncrementAndGet
  <2>10. CASE \E id \in MsgId : CreateMessage(h, id)
    BY <1>0, <2>10 DEF CreateMessage
  <2>11. CASE BindAndCommit(h)
    BY <1>0, <2>11 DEF BindAndCommit
  <2>12. CASE PublishSkipped(h)
    BY <1>0, <2>12 DEF PublishSkipped
  <2>13. CASE PublishPanics(h)
    BY <1>0, <2>13 DEF PublishPanics
  <2>14. CASE Reply(h)
    BY <1>0, <2>14 DEF Reply
  <2> QED
    BY <1>1, <2>1, <2>2, <2>3, <2>4, <2>5, <2>6, <2>7, <2>8, <2>9, <2>10, <2>11, <2>12, <2>13, <2>14 DEF Work
<1>2. ASSUME NEW h \in Handler, Error(h) PROVE HandlerKnows'
  BY <1>0, <1>2 DEF Error
<1>3. ASSUME NEW h \in Handler, NEW k \in Key, Call(h, k) PROVE HandlerKnows'
  BY <1>0, <1>3 DEF Call
<1>4. ASSUME NEW id \in MsgId, Delete(id) \/ Recall(id) PROVE HandlerKnows'
  BY <1>0, <1>4 DEF Delete, Recall
<1>5. ASSUME NEW c \in Conv, GetMessages(c) \/ GetMessagesAfter(c)
      PROVE HandlerKnows'
  BY <1>0, <1>5, ReadingChangesNoTable DEF SendInv
<1>6. CASE UNCHANGED vars
  BY <1>0, <1>6 DEF vars
<1> QED
  BY <1>1, <1>2, <1>3, <1>4, <1>5, <1>6 DEF Next

\* Only a commit changes the rows of the three tables.
LEMMA OnlyCommitWrites ==
    [Next]_vars => \/ \E h \in Handler : BindAndCommit(h)
                   \/ UNCHANGED <<idem, curSeq, messages>>
<1> SUFFICES ASSUME [Next]_vars, ~ \E h \in Handler : BindAndCommit(h)
             PROVE UNCHANGED <<idem, curSeq, messages>>
  OBVIOUS
<1> USE DEF tables, ReturnError
<1>1. ASSUME NEW h \in Handler, Work(h) \/ Error(h)
      PROVE UNCHANGED <<idem, curSeq, messages>>
  BY <1>1 DEF Work, Error, Authorize, AuthorizeDenied, CreateIfNotExists,
              GetForUpdateByKey, IdempotencyHit, HitDeleted, GetOrCreateSelect,
              GetOrCreateInsert, IncrementAndGet, CreateMessage, PublishSkipped,
              PublishPanics, Reply
<1> QED
  BY <1>1, ReadingChangesNoTable DEF Next, Call, Delete, Recall, vars

\* What a commit writes, seen from the invariant: the key was not bound, the
\* message id is fresh and the sequence is the next one.
LEMMA CommitWrites ==
    ASSUME SendInv, NEW h \in Handler, BindAndCommit(h)
    PROVE  /\ req[h] \in Key /\ mid[h] \in MsgId /\ ConvOf[req[h]] \in Conv
           /\ idem[req[h]] = NoMsg
           /\ seq[h] = curSeq[ConvOf[req[h]]] + 1
           /\ \A m \in messages : m.id # mid[h]
           /\ idem' = [idem EXCEPT ![req[h]] = mid[h]]
           /\ curSeq' = [curSeq EXCEPT ![ConvOf[req[h]]] = @ + 1]
           /\ messages' = messages \cup
                {[id |-> mid[h], key |-> req[h],
                  seq |-> curSeq[ConvOf[req[h]]] + 1]}
           /\ UNCHANGED <<recalled, deleted, cursor, seen, replies>>
BY SendAssumption
   DEF SendInv, TypeOK, HandlerKnows, NewMessage, BindAndCommit, Goto, reader

\* A commit binds its key to its message and nothing else changes the binding.
LEMMA TablesStep == SendInv /\ [Next]_vars => TablesAgree'
<1> SUFFICES ASSUME SendInv, [Next]_vars PROVE TablesAgree'
  OBVIOUS
<1>1. ASSUME NEW h \in Handler, BindAndCommit(h) PROVE TablesAgree'
  <2> DEFINE k == req[h]
             new == [id |-> mid[h], key |-> k, seq |-> curSeq[ConvOf[k]] + 1]
  <2> USE SendAssumption DEF TypeOK, TablesAgree, MessageRow
  <2>1. /\ k \in Key /\ mid[h] \in MsgId /\ idem[k] = NoMsg
        /\ \A m \in messages : m.id # new.id
        /\ idem' = [idem EXCEPT ![k] = mid[h]]
        /\ messages' = messages \cup {new}
        /\ TypeOK /\ TablesAgree
    BY <1>1, CommitWrites DEF SendInv
  <2>2. \A m \in messages' : idem'[m.key] = m.id
    BY <2>1
  <2>3. \A j \in Key : idem'[j] # NoMsg =>
          \E m \in messages' : m.key = j /\ m.id = idem'[j]
    BY <2>1
  <2>4. \A p, q \in messages' : p.id = q.id => p = q
    BY <2>1
  <2> QED
    BY <2>2, <2>3, <2>4
<1>2. CASE UNCHANGED <<idem, curSeq, messages>>
  BY <1>2 DEF SendInv, TablesAgree
<1> QED
  BY <1>1, <1>2, OnlyCommitWrites

\* A commit extends its conversation's sequences by exactly the next one.
LEMMA DenseStep == SendInv /\ [Next]_vars => SequencesDense'
<1> SUFFICES ASSUME SendInv, [Next]_vars PROVE SequencesDense'
  OBVIOUS
<1>1. ASSUME NEW h \in Handler, BindAndCommit(h) PROVE SequencesDense'
  <2> DEFINE k == req[h]
             new == [id |-> mid[h], key |-> k, seq |-> curSeq[ConvOf[k]] + 1]
  <2> USE SendAssumption DEF TypeOK, MessageRow
  <2>1. /\ k \in Key /\ ConvOf[k] \in Conv
        /\ curSeq' = [curSeq EXCEPT ![ConvOf[k]] = @ + 1]
        /\ messages' = messages \cup {new}
        /\ TypeOK /\ SequencesDense
    BY <1>1, CommitWrites DEF SendInv
  <2>2. \A m \in messages' : m.seq \in 1..curSeq'[ConvOf[m.key]]
    BY <2>1 DEF SequencesDense
  <2>3. \A m \in messages : ConvOf[m.key] = ConvOf[k] => m.seq # new.seq
    BY <2>1 DEF SequencesDense
  <2>4. \A p, q \in messages' :
           ConvOf[p.key] = ConvOf[q.key] /\ p.seq = q.seq => p = q
    BY <2>1, <2>3 DEF SequencesDense
  <2>5. ASSUME NEW c \in Conv, NEW n \in 1..curSeq'[c]
        PROVE \E m \in messages' : ConvOf[m.key] = c /\ m.seq = n
    <3>1. CASE n \in 1..curSeq[c]
      BY <3>1, <2>1 DEF SequencesDense
    <3>2. CASE c = ConvOf[k] /\ n = new.seq
      BY <3>2, <2>1
    <3> QED
      BY <3>1, <3>2, <2>1
  <2> QED
    BY <2>2, <2>4, <2>5 DEF SequencesDense
<1>2. CASE UNCHANGED <<idem, curSeq, messages>>
  BY <1>2 DEF SendInv, SequencesDense
<1> QED
  BY <1>1, <1>2, OnlyCommitWrites

\* A response carries a committed row, and committed rows stay.
LEMMA RepliesStep == SendInv /\ [Next]_vars => RepliesAgree'
<1> SUFFICES ASSUME SendInv, [Next]_vars PROVE RepliesAgree'
  OBVIOUS
<1>1. messages \subseteq messages'
  BY OnlyCommitWrites, CommitWrites
<1>2. ASSUME NEW h \in Handler, Reply(h) PROVE RepliesAgree'
  BY <1>1, <1>2 DEF Reply, SendInv, RepliesAgree, HandlerKnows
<1>3. CASE ~ \E h \in Handler : Reply(h)
  <2>1. UNCHANGED replies
    BY <1>3, ReadingChangesNoTable
    DEF Next, Work, Error, Authorize, AuthorizeDenied, CreateIfNotExists,
        GetForUpdateByKey, IdempotencyHit, HitDeleted, GetOrCreateSelect,
        GetOrCreateInsert, IncrementAndGet, CreateMessage, BindAndCommit,
        PublishSkipped, PublishPanics, Call, Delete, Recall, ReturnError, vars
  <2> QED
    BY <1>1, <2>1 DEF SendInv, RepliesAgree
<1> QED
  BY <1>2, <1>3

\* The reader's cursor stays behind the sequences, so a commit, whose sequence
\* is the next one, never lands at or before it; a page holds every message
\* between its anchor and its last message of status normal.
LEMMA ReaderStep ==
    SendInv /\ [Next]_vars => CursorBehind' /\ ReaderMissesNothing'
<1> SUFFICES ASSUME SendInv, [Next]_vars
             PROVE CursorBehind' /\ ReaderMissesNothing'
  OBVIOUS
<1> USE SendAssumption DEF CursorBehind, ReaderMissesNothing, TypeOK, MessageRow
<1>1. ASSUME NEW h \in Handler, BindAndCommit(h)
      PROVE CursorBehind' /\ ReaderMissesNothing'
  <2> DEFINE k == req[h]
             new == [id |-> mid[h], key |-> k, seq |-> curSeq[ConvOf[k]] + 1]
  <2>1. /\ k \in Key /\ ConvOf[k] \in Conv
        /\ \A m \in messages : m.id # new.id
        /\ curSeq' = [curSeq EXCEPT ![ConvOf[k]] = @ + 1]
        /\ messages' = messages \cup {new}
        /\ UNCHANGED <<recalled, deleted, cursor, seen>>
        /\ TypeOK /\ CursorBehind /\ ReaderMissesNothing
    BY <1>1, CommitWrites DEF SendInv
  <2>2. new.id \notin seen /\ ~(new.seq <= cursor[ConvOf[new.key]])
    BY <2>1
  <2>3. \A c \in Conv : cursor'[c] <= curSeq'[c]
    BY <2>1
  <2>4. \A m \in messages' : /\ m.id \in seen => m.seq <= cursor[ConvOf[m.key]]
                             /\ m.seq <= cursor[ConvOf[m.key]] =>
                                  m.id \in seen \cup recalled \cup deleted
    BY <2>1, <2>2
  <2> QED
    BY <2>1, <2>3, <2>4
<1>2. ASSUME NEW c \in Conv, GetMessages(c) \/ GetMessagesAfter(c)
      PROVE CursorBehind' /\ ReaderMissesNothing'
  <2>0. TypeOK /\ CursorBehind /\ ReaderMissesNothing /\ SequencesDense /\ TablesAgree
    BY DEF SendInv
  <2>1. PICK n \in Nat : ReadPage(c, n) /\ n <= cursor[c]
    <3>1. CASE GetMessages(c)
      BY <2>0, <3>1 DEF GetMessages
    <3>2. CASE GetMessagesAfter(c)
      BY <2>0, <3>2 DEF GetMessagesAfter
    <3> QED
      BY <1>2, <3>1, <3>2
  <2> DEFINE A == After(c, n)
  <2>2. PICK last \in {n} \cup {m.seq : m \in A} :
          /\ seen' = seen \cup {m.id : m \in {x \in A : x.seq <= last}}
          /\ cursor' = [cursor EXCEPT ![c] = IF last > @ THEN last ELSE @]
    BY <2>1 DEF ReadPage
  <2>3. UNCHANGED <<messages, curSeq, recalled, deleted>>
    BY <1>2, ReadingChangesNoTable
  <2>4. A = {m \in messages : ConvOf[m.key] = c /\ m.seq > n /\ m.id \notin recalled \cup deleted}
    BY DEF After
  <2>5. last \in Nat /\ last <= curSeq[c]
    BY <2>0, <2>1, <2>2, <2>4 DEF SequencesDense
  <2>6. cursor' \in [Conv -> Nat] /\ (\A d \in Conv : cursor'[d] <= curSeq[d])
    BY <2>0, <2>2, <2>5
  <2>7. \A i \in seen' : \E m \in messages : m.id = i
    BY <2>0, <2>2, <2>4
  <2>8. \A m \in messages : m.id \in seen' => m.seq <= cursor'[ConvOf[m.key]]
    <3> SUFFICES ASSUME NEW m \in messages, m.id \in seen'
                 PROVE m.seq <= cursor'[ConvOf[m.key]]
      OBVIOUS
    <3>1. CASE m.id \in seen
      BY <3>1, <2>0, <2>2, <2>5
    <3>2. CASE m.id \notin seen
      <4>1. PICK x \in A : x.seq <= last /\ x.id = m.id
        BY <3>2, <2>2
      <4>2. x = m /\ ConvOf[m.key] = c
        BY <4>1, <2>0, <2>4 DEF TablesAgree
      <4> QED
        BY <4>1, <4>2, <2>0, <2>2, <2>5
    <3> QED
      BY <3>1, <3>2
  <2>9. \A m \in messages : m.seq <= cursor'[ConvOf[m.key]] =>
           m.id \in seen' \cup recalled \cup deleted
    <3> SUFFICES ASSUME NEW m \in messages, m.seq <= cursor'[ConvOf[m.key]]
                 PROVE m.id \in seen' \cup recalled \cup deleted
      OBVIOUS
    <3>1. CASE m.seq <= cursor[ConvOf[m.key]]
      BY <3>1, <2>0, <2>2
    <3>2. CASE ~(m.seq <= cursor[ConvOf[m.key]])
      <4>1. ConvOf[m.key] = c /\ m.seq <= last /\ m.seq > n
        BY <3>2, <2>0, <2>1, <2>2, <2>5
      <4> QED
        BY <4>1, <2>2, <2>4
    <3> QED
      BY <3>1, <3>2
  <2> QED
    BY <2>3, <2>6, <2>7, <2>8, <2>9
<1>3. CASE /\ UNCHANGED <<idem, curSeq, messages, cursor, seen>>
           /\ recalled \cup deleted \subseteq recalled' \cup deleted'
  BY <1>3 DEF SendInv
<1>4. ASSUME ~ \E h \in Handler : BindAndCommit(h),
             ~ \E c \in Conv : GetMessages(c) \/ GetMessagesAfter(c)
      PROVE UNCHANGED <<cursor, seen>> /\ recalled \cup deleted \subseteq recalled' \cup deleted'
  BY <1>4 DEF Next, Work, Error, Authorize, AuthorizeDenied, CreateIfNotExists,
     GetForUpdateByKey, IdempotencyHit, HitDeleted, GetOrCreateSelect,
     GetOrCreateInsert, IncrementAndGet, CreateMessage, PublishSkipped,
     PublishPanics, Reply, Call, Delete, Recall, ReturnError, vars, tables, reader
<1> QED
  BY <1>1, <1>2, <1>3, <1>4, OnlyCommitWrites

\* Committed rows stay, and an uncommitted row stays for the transaction that
\* inserted it.
LEMMA RowsStep == SendInv /\ [Next]_vars => RowsExist'
<1> SUFFICES ASSUME SendInv, [Next]_vars PROVE RowsExist'
  OBVIOUS
<1> USE SendAssumption
<1>0. TypeOK /\ TypeOK'
  BY NextType DEF SendInv
<1> USE DEF SendInv, TypeOK, RowsExist, LockDiscipline, NewMessage, PC, InTx, Goto,
            Ends, ReleaseLocks, ReturnError, HandlerKnows, tables, locks, local,
            reader
<1>1. ASSUME NEW h \in Handler, Work(h) PROVE RowsExist'
  <2>1. CASE Authorize(h)
    BY <1>0, <2>1 DEF Authorize
  <2>2. CASE AuthorizeDenied(h)
    BY <1>0, <2>2 DEF AuthorizeDenied
  <2>3. CASE CreateIfNotExists(h)
    BY <1>0, <2>3 DEF CreateIfNotExists
  <2>4. CASE GetForUpdateByKey(h)
    BY <1>0, <2>4 DEF GetForUpdateByKey
  <2>5. CASE IdempotencyHit(h)
    BY <1>0, <2>5 DEF IdempotencyHit
  <2>6. CASE HitDeleted(h)
    BY <1>0, <2>6 DEF HitDeleted
  <2>7. CASE GetOrCreateSelect(h)
    BY <1>0, <2>7 DEF GetOrCreateSelect
  <2>8. CASE GetOrCreateInsert(h)
    BY <1>0, <2>8 DEF GetOrCreateInsert
  <2>9. CASE IncrementAndGet(h)
    BY <1>0, <2>9 DEF IncrementAndGet
  <2>10. CASE \E id \in MsgId : CreateMessage(h, id)
    BY <1>0, <2>10 DEF CreateMessage
  <2>11. CASE BindAndCommit(h)
    BY <1>0, <2>11 DEF BindAndCommit
  <2>12. CASE PublishSkipped(h)
    BY <1>0, <2>12 DEF PublishSkipped
  <2>13. CASE PublishPanics(h)
    BY <1>0, <2>13 DEF PublishPanics
  <2>14. CASE Reply(h)
    BY <1>0, <2>14 DEF Reply
  <2> QED
    BY <1>1, <2>1, <2>2, <2>3, <2>4, <2>5, <2>6, <2>7, <2>8, <2>9, <2>10, <2>11, <2>12, <2>13, <2>14 DEF Work
<1>2. ASSUME NEW h \in Handler, Error(h) PROVE RowsExist'
  BY <1>0, <1>2 DEF Error
<1>3. ASSUME NEW h \in Handler, NEW k \in Key, Call(h, k) PROVE RowsExist'
  BY <1>0, <1>3 DEF Call
<1>4. ASSUME NEW id \in MsgId, Delete(id) \/ Recall(id) PROVE RowsExist'
  BY <1>0, <1>4 DEF Delete, Recall
<1>5. ASSUME NEW c \in Conv, GetMessages(c) \/ GetMessagesAfter(c)
      PROVE RowsExist'
  BY <1>0, <1>5, ReadingChangesNoTable DEF SendInv
<1>6. CASE UNCHANGED vars
  BY <1>0, <1>6 DEF vars
<1> QED
  BY <1>1, <1>2, <1>3, <1>4, <1>5, <1>6 DEF Next

-----------------------------------------------------------------------------
(* The theorems. *)

\* The empty tables satisfy the inductive invariant.
LEMMA InitInv == Init => SendInv
<1> SUFFICES ASSUME Init PROVE SendInv
  OBVIOUS
<1>1. TypeOK
  BY InitType
<1> QED
  BY <1>1, SendAssumption
  DEF Init, SendInv, LockDiscipline, NewMessage, HandlerKnows, TablesAgree,
      SequencesDense, RepliesAgree, CursorBehind, ReaderMissesNothing, RowsExist,
      TypeOK

\* The inductive invariant holds in every reachable state.
THEOREM InvCorrect == Spec => []SendInv
<1>1. SendInv /\ [Next]_vars => SendInv'
  BY NextType, LocksStep, KnowsStep, TablesStep, DenseStep, RepliesStep,
     ReaderStep, RowsStep DEF SendInv
<1> QED
  BY InitInv, <1>1, PTL DEF Spec

\* Sequence allocation: every conversation's committed sequences are exactly
\* 1 .. current_seq, for any number of concurrent handlers and any failures.
THEOREM SequencesAreDense == Spec => []SequencesDense
<1>1. SendInv => SequencesDense
  BY DEF SendInv
<1> QED
  BY <1>1, InvCorrect, PTL

\* Idempotency: a key creates at most one message, however often and however
\* concurrently SendMessage is called with it.
THEOREM OneMessage == Spec => []OneMessagePerKey
<1>1. SendInv => OneMessagePerKey
  BY DEF SendInv, TablesAgree, OneMessagePerKey
<1> QED
  BY <1>1, InvCorrect, PTL

\* Every successful response names the row its key created.
THEOREM RepliesCorrect == Spec => []RepliesAgree
<1>1. SendInv => RepliesAgree
  BY DEF SendInv
<1> QED
  BY <1>1, InvCorrect, PTL

\* Paging forward never skips a message: none commits behind the cursor.
THEOREM ReaderCorrect == Spec => []ReaderMissesNothing
<1>1. SendInv => ReaderMissesNothing
  BY DEF SendInv
<1> QED
  BY <1>1, InvCorrect, PTL

\* FOR UPDATE and UPDATE always find the row the preceding insert provides for.
THEOREM RowsAreThere == Spec => []RowsExist
<1>1. SendInv => RowsExist
  BY DEF SendInv
<1> QED
  BY <1>1, InvCorrect, PTL

-----------------------------------------------------------------------------
(* MessageSend implements ConversationLog.  The log of a conversation is     *)
(* read off the message table by sequence; a commit appends, a response      *)
(* acknowledges, and every other step leaves the log and the                 *)
(* acknowledgements alone.                                                   *)

KeyAt(rows, c, n) == (CHOOSE m \in rows : ConvOf[m.key] = c /\ m.seq = n).key
LogOf == [c \in Conv |-> [n \in 1..curSeq[c] |-> KeyAt(messages, c, n)]]
Acked == {<<r.key, r.seq>> : r \in replies}

\* The key at a position is the key of the message with that sequence.
LEMMA KeyAtMessage ==
    ASSUME NEW rows,
           \A p, q \in rows :
             ConvOf[p.key] = ConvOf[q.key] /\ p.seq = q.seq => p = q
    PROVE  \A m \in rows : KeyAt(rows, ConvOf[m.key], m.seq) = m.key
BY DEF KeyAt

\* Every position of a log is that of a message.
LEMMA KeyAtExists ==
    ASSUME SendInv, NEW c \in Conv, NEW n \in 1..curSeq[c]
    PROVE  \E m \in messages :
             KeyAt(messages, c, n) = m.key /\ ConvOf[m.key] = c /\ m.seq = n
<1>1. PICK m \in messages : ConvOf[m.key] = c /\ m.seq = n
  BY DEF SendInv, SequencesDense
<1>2. KeyAt(messages, ConvOf[m.key], m.seq) = m.key
  BY KeyAtMessage DEF SendInv, SequencesDense
<1> QED
  BY <1>1, <1>2

\* A log is a sequence of keys, as long as the conversation's last sequence.
LEMMA LogType ==
    ASSUME SendInv, NEW c \in Conv
    PROVE  /\ LogOf[c] = [n \in 1..curSeq[c] |-> KeyAt(messages, c, n)]
           /\ curSeq[c] \in Nat
           /\ LogOf[c] \in Seq(Key)
           /\ Len(LogOf[c]) = curSeq[c]
<1>1. LogOf[c] = [n \in 1..curSeq[c] |-> KeyAt(messages, c, n)]
  BY DEF LogOf
<1>2. curSeq[c] \in Nat
  BY DEF SendInv, TypeOK
<1>3. \A n \in 1..curSeq[c] : KeyAt(messages, c, n) \in Key
  BY KeyAtExists DEF SendInv, TypeOK, MessageRow
<1> QED
  BY <1>1, <1>2, <1>3

\* A commit appends its key, which was not there, to its conversation's log.
LEMMA CommitAppends ==
    ASSUME SendInv, SendInv', NEW h \in Handler, BindAndCommit(h),
           NEW k \in Key, k = req[h], NEW d \in Conv, d = ConvOf[k]
    PROVE  /\ LogOf' = [LogOf EXCEPT ![d] = Append(@, k)]
           /\ \A n \in 1..Len(LogOf[d]) : LogOf[d][n] # k
<1> DEFINE new == [id |-> mid[h], key |-> k, seq |-> curSeq[d] + 1]
<1>1. /\ idem[k] = NoMsg
      /\ curSeq' = [curSeq EXCEPT ![d] = @ + 1]
      /\ messages' = messages \cup {new}
  BY CommitWrites
<1>2. /\ curSeq \in [Conv -> Nat]
      /\ \A m \in messages' : KeyAt(messages', ConvOf[m.key], m.seq) = m.key
  BY KeyAtMessage DEF SendInv, TypeOK, SequencesDense
<1>3. ASSUME NEW c \in Conv, NEW n \in 1..curSeq[c]
      PROVE KeyAt(messages', c, n) = KeyAt(messages, c, n)
  <2>1. PICK m \in messages :
          KeyAt(messages, c, n) = m.key /\ ConvOf[m.key] = c /\ m.seq = n
    BY KeyAtExists
  <2>2. m \in messages'
    BY <1>1
  <2> QED
    BY <2>1, <2>2, <1>2
<1>4. KeyAt(messages', d, curSeq[d] + 1) = k
  <2>1. new \in messages' /\ new.key = k /\ new.seq = curSeq[d] + 1
    BY <1>1
  <2> QED
    BY <2>1, <1>2
<1>5. LogOf' = [c \in Conv |-> [n \in 1..curSeq'[c] |-> KeyAt(messages', c, n)]]
  BY DEF LogOf
<1>6. LogOf'[d] = Append(LogOf[d], k)
  <2>1. LogOf'[d] = [n \in 1..(curSeq[d] + 1) |-> KeyAt(messages', d, n)]
    BY <1>1, <1>2, <1>5
  <2>2. \A n \in 1..(curSeq[d] + 1) :
          KeyAt(messages', d, n) = IF n = curSeq[d] + 1 THEN k ELSE LogOf[d][n]
    <3> SUFFICES ASSUME NEW n \in 1..(curSeq[d] + 1)
                 PROVE KeyAt(messages', d, n) =
                       IF n = curSeq[d] + 1 THEN k ELSE LogOf[d][n]
      OBVIOUS
    <3>1. LogOf[d] = [j \in 1..curSeq[d] |-> KeyAt(messages, d, j)]
      BY LogType
    <3>2. CASE n = curSeq[d] + 1
      BY <3>2, <1>4
    <3>3. CASE n \in 1..curSeq[d]
      BY <3>1, <3>3, <1>2, <1>3
    <3> QED
      BY <3>2, <3>3, <1>2
  <2>3. LogOf[d] \in Seq(Key) /\ Len(LogOf[d]) = curSeq[d] /\ curSeq[d] \in Nat
    BY LogType
  <2>4. Append(LogOf[d], k) =
          [n \in 1..(curSeq[d] + 1) |-> IF n = curSeq[d] + 1 THEN k ELSE LogOf[d][n]]
    BY <2>3
  <2> QED
    BY <2>1, <2>2, <2>4
<1>7. ASSUME NEW c \in Conv \ {d} PROVE LogOf'[c] = LogOf[c]
  <2>1. LogOf[c] = [n \in 1..curSeq[c] |-> KeyAt(messages, c, n)]
    BY LogType
  <2>2. LogOf'[c] = [n \in 1..curSeq[c] |-> KeyAt(messages', c, n)]
    BY <1>1, <1>2, <1>5
  <2> QED
    BY <2>1, <2>2, <1>3
<1>8. LogOf' = [LogOf EXCEPT ![d] = Append(@, k)]
  BY <1>5, <1>6, <1>7 DEF LogOf
<1>9. ASSUME NEW n \in 1..Len(LogOf[d]) PROVE LogOf[d][n] # k
  <2>1. /\ LogOf[d] = [j \in 1..curSeq[d] |-> KeyAt(messages, d, j)]
        /\ Len(LogOf[d]) = curSeq[d]
    BY LogType
  <2>4. n \in 1..curSeq[d]
    BY <2>1
  <2>2. PICK m \in messages : KeyAt(messages, d, n) = m.key
    BY <2>4, KeyAtExists
  <2>3. LogOf[d][n] = m.key
    BY <2>1, <2>2
  <2> QED
    BY <2>3, <1>1, SendAssumption DEF SendInv, TablesAgree, TypeOK, MessageRow
<1> QED
  BY <1>8, <1>9

\* The empty tables are the empty logs.
LEMMA InitLog == Init => Log!LogInit
<1> SUFFICES ASSUME Init PROVE Log!LogInit
  OBVIOUS
<1>1. \A c \in Conv : LogOf[c] = <<>>
  BY DEF LogOf, Init
<1>2. LogOf = [c \in Conv |-> <<>>] /\ Acked = {}
  BY <1>1 DEF LogOf, Acked, Init
<1> QED
  BY <1>2 DEF Log!LogInit, LogOf, Acked, KeyAt

\* Every step of SendMessage is a step of the logs or leaves them alone.
LEMMA NextLog ==
    SendInv /\ SendInv' /\ [Next]_vars => [Log!LogNext]_(Log!logVars)
<1> SUFFICES ASSUME SendInv, SendInv', [Next]_vars
             PROVE [Log!LogNext]_(Log!logVars)
  OBVIOUS
<1>1. ASSUME NEW h \in Handler, BindAndCommit(h) PROVE Log!LogNext
  <2>1. PICK k \in Key, d \in Conv : k = req[h] /\ d = ConvOf[k]
    BY <1>1, CommitWrites
  <2>2. /\ LogOf' = [LogOf EXCEPT ![ConvOf[k]] = Append(@, k)]
        /\ \A n \in 1..Len(LogOf[ConvOf[k]]) : LogOf[ConvOf[k]][n] # k
    BY <1>1, <2>1, CommitAppends
  <2>3. UNCHANGED Acked
    BY <1>1, CommitWrites DEF Acked
  <2>4. Log!LogAppend(k)
    BY <2>2, <2>3 DEF Log!LogAppend, LogOf, Acked, KeyAt
  <2> QED
    BY <2>4 DEF Log!LogNext
<1>2. ASSUME NEW h \in Handler, Reply(h) PROVE Log!LogNext
  <2> DEFINE r == [id |-> mid[h], key |-> req[h], seq |-> seq[h]]
  <2>1. r \in messages /\ replies' = replies \cup {r} /\ UNCHANGED <<curSeq, messages>>
    BY <1>2 DEF SendInv, HandlerKnows, Reply, tables
  <2>2. PICK k \in Key, n \in Nat : k = r.key /\ n = r.seq
    BY <2>1 DEF SendInv, TypeOK, MessageRow
  <2>3. n \in 1..curSeq[ConvOf[k]] /\ ConvOf[k] \in Conv
    BY <2>1, <2>2, SendAssumption DEF SendInv, SequencesDense
  <2>4. KeyAt(messages, ConvOf[k], n) = k
    BY <2>1, <2>2, KeyAtMessage DEF SendInv, SequencesDense
  <2>5. n \in 1..Len(LogOf[ConvOf[k]]) /\ LogOf[ConvOf[k]][n] = k
    BY <2>3, <2>4, LogType
  <2>6. Acked' = Acked \cup {<<k, n>>} /\ UNCHANGED LogOf
    BY <2>1, <2>2 DEF Acked, LogOf
  <2>7. Log!LogAck(k, n)
    BY <2>5, <2>6 DEF Log!LogAck, LogOf, Acked, KeyAt
  <2> QED
    BY <2>5, <2>7 DEF Log!LogNext, LogOf, KeyAt
<1>3. ASSUME UNCHANGED <<curSeq, messages, replies>>
      PROVE UNCHANGED Log!logVars
  BY <1>3 DEF Log!logVars
<1>4. ASSUME ~ \E h \in Handler : Reply(h) PROVE UNCHANGED replies
  BY <1>4, ReadingChangesNoTable
  DEF Next, Work, Error, Authorize, AuthorizeDenied, CreateIfNotExists,
      GetForUpdateByKey, IdempotencyHit, HitDeleted, GetOrCreateSelect,
      GetOrCreateInsert, IncrementAndGet, CreateMessage, BindAndCommit,
      PublishSkipped, PublishPanics, Call, Delete, Recall, ReturnError, vars
<1> QED
  BY <1>1, <1>2, <1>3, <1>4, OnlyCommitWrites

\* SendMessage implements the append-only, exactly-once conversation log.
THEOREM ImplementsLog == Spec => LogSpec
BY InitLog, NextLog, InvCorrect, PTL DEF Spec, LogSpec, Log!LogSpec
=============================================================================
