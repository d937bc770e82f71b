----------------------------- MODULE MessageSend -----------------------------
(***************************************************************************)
(* SendMessage of the message service, over PostgreSQL at READ COMMITTED.  *)
(*                                                                         *)
(* A handler serves one SendMessage call at a time.  The call is           *)
(* authorised by RPCs to other services, then runs one transaction over    *)
(* three tables (message_send_idempotency, conversation_sequences,         *)
(* messages), then publishes and answers.  Each SQL statement is one step; *)
(* what a transaction has written is invisible to the others until it      *)
(* commits, and the rows it has written or locked make the others wait.    *)
(* Clients repeat a call whenever they like, so several handlers may serve *)
(* the same key at once.  A handler may fail at any step.                  *)
(*                                                                         *)
(* A reader follows each conversation with GetMessages and                 *)
(* GetMessagesAfter, a page at a time.                                     *)
(***************************************************************************)
EXTENDS Naturals, Sequences, FiniteSets

CONSTANTS Handler,     \* goroutines serving SendMessage
          Key,         \* idempotency keys (sender_id, conversation_id, local_id)
          Conv,        \* conversations
          ConvOf,      \* ConvOf[k]: the conversation_id of key k
          Single,      \* the conversations of type single; the others are groups
          MsgId,       \* message ids (uuid)
          NoKey, NoMsg, Free,  \* no request, no row, nobody holds the row lock
          MaxCalls,    \* bound: how often clients may call with one key
          MaxErrors,   \* bound: how many database errors, timeouts and crashes
          ReadLimit    \* page size of the reader

ASSUME SendAssumption ==
    /\ ConvOf \in [Key -> Conv]
    /\ Single \subseteq Conv
    /\ NoKey \notin Key
    /\ NoMsg \notin MsgId
    /\ Free \notin Handler
    /\ MaxCalls \in Nat
    /\ MaxErrors \in Nat
    /\ ReadLimit \in Nat \ {0}

VARIABLES
    \* committed rows
    idem,       \* message_send_idempotency: the message_id bound to a key
    curSeq,     \* conversation_sequences.current_seq; 0: no row yet
    messages,   \* messages: [id, key, seq]
    recalled,   \* ids of the messages whose status is recalled
    deleted,    \* ids of the messages whose status is deleted
    \* row locks, held until the transaction ends
    idemLock,   \* holder of the key's idempotency row
    seqLock,    \* holder of the conversation's sequence row
    \* handlers
    pc,         \* where each handler is
    req,        \* the key it serves
    seq,        \* the sequence its transaction has allocated or found
    mid,        \* the message it inserted or found
    \* the environment and what it has observed
    calls,      \* calls made so far per key
    errors,     \* environment errors so far
    replies,    \* successful responses: [id, key, seq]
    cursor,     \* highest sequence the reader has received, per conversation
    seen        \* ids of the messages the reader has received

tables == <<idem, curSeq, messages, recalled, deleted>>
locks  == <<idemLock, seqLock>>
local  == <<req, seq, mid>>
reader == <<cursor, seen>>
vars   == <<idem, curSeq, messages, recalled, deleted, idemLock, seqLock,
            pc, req, seq, mid, calls, errors, replies, cursor, seen>>

\* The statements a transaction is about to execute.
InTx == {"insertIdem", "lockIdem", "hit", "selectSeq", "insertSeq",
         "updateSeq", "insertMsg", "commit"}
PC == InTx \cup {"idle", "authorize", "publish", "reply"}

MessageRow == [id : MsgId, key : Key, seq : Nat]

TypeOK ==
    /\ idem \in [Key -> MsgId \cup {NoMsg}]
    /\ curSeq \in [Conv -> Nat]
    /\ messages \subseteq MessageRow
    /\ recalled \subseteq MsgId
    /\ deleted \subseteq MsgId
    /\ idemLock \in [Key -> Handler \cup {Free}]
    /\ seqLock \in [Conv -> Handler \cup {Free}]
    /\ pc \in [Handler -> PC]
    /\ req \in [Handler -> Key \cup {NoKey}]
    /\ seq \in [Handler -> Nat]
    /\ mid \in [Handler -> MsgId \cup {NoMsg}]
    /\ calls \in [Key -> Nat]
    /\ errors \in Nat
    /\ replies \subseteq MessageRow
    /\ cursor \in [Conv -> Nat]
    /\ seen \subseteq MsgId
    /\ \A h \in Handler :
          /\ pc[h] # "idle" => req[h] \in Key
          /\ pc[h] \in {"commit", "publish", "reply"} => mid[h] \in MsgId

Init ==
    /\ idem = [k \in Key |-> NoMsg]
    /\ curSeq = [c \in Conv |-> 0]
    /\ messages = {}
    /\ recalled = {}
    /\ deleted = {}
    /\ idemLock = [k \in Key |-> Free]
    /\ seqLock = [c \in Conv |-> Free]
    /\ pc = [h \in Handler |-> "idle"]
    /\ req = [h \in Handler |-> NoKey]
    /\ seq = [h \in Handler |-> 0]
    /\ mid = [h \in Handler |-> NoMsg]
    /\ calls = [k \in Key |-> 0]
    /\ errors = 0
    /\ replies = {}
    /\ cursor = [c \in Conv |-> 0]
    /\ seen = {}

-----------------------------------------------------------------------------
Goto(h, from, to) == pc[h] = from /\ pc' = [pc EXCEPT ![h] = to]

\* The call is over: the handler forgets its request and its open transaction,
\* if any, is rolled back, which frees the rows it has locked.
Ends(h) ==
    /\ pc' = [pc EXCEPT ![h] = "idle"]
    /\ req' = [req EXCEPT ![h] = NoKey]
    /\ seq' = [seq EXCEPT ![h] = 0]
    /\ mid' = [mid EXCEPT ![h] = NoMsg]

ReleaseLocks(h) ==
    /\ idemLock' = [k \in Key |-> IF idemLock[k] = h THEN Free ELSE idemLock[k]]
    /\ seqLock' = [c \in Conv |-> IF seqLock[c] = h THEN Free ELSE seqLock[c]]

ReturnError(h) ==
    /\ Ends(h)
    /\ ReleaseLocks(h)
    /\ UNCHANGED <<tables, calls, replies, reader>>

\* A client calls SendMessage, for the first time or again with the same key.
Call(h, k) ==
    /\ calls[k] < MaxCalls
    /\ calls' = [calls EXCEPT ![k] = @ + 1]
    /\ Goto(h, "idle", "authorize")
    /\ req' = [req EXCEPT ![h] = k]
    /\ UNCHANGED <<tables, locks, seq, mid, errors, replies, reader>>

\* authorizeSend asks the conversation service for the conversation, then the
\* group service for the membership or the friend service for the blacklist.
Authorize(h) ==
    /\ Goto(h, "authorize", "insertIdem")
    /\ UNCHANGED <<tables, locks, local, calls, errors, replies, reader>>

\* One of those calls fails, or its answer forbids the message.
AuthorizeDenied(h) ==
    /\ pc[h] = "authorize"
    /\ ReturnError(h)
    /\ UNCHANGED errors

\* INSERT ... ON CONFLICT DO NOTHING: nothing when the row is committed; waits
\* while another transaction's insert of the same key is undecided.
CreateIfNotExists(h) ==
    LET k == req[h] IN
    /\ Goto(h, "insertIdem", "lockIdem")
    /\ \/ /\ idem[k] # NoMsg
          /\ UNCHANGED idemLock
       \/ /\ idem[k] = NoMsg
          /\ idemLock[k] = Free
          /\ idemLock' = [idemLock EXCEPT ![k] = h]
    /\ UNCHANGED <<tables, seqLock, local, calls, errors, replies, reader>>

\* Mutant: the test of the bound message_id is dropped.
GetForUpdateNoHit(h) ==
    LET k == req[h] IN
    /\ Goto(h, "lockIdem", "selectSeq")
    /\ idemLock[k] \in {Free, h}
    /\ idemLock' = [idemLock EXCEPT ![k] = h]
    /\ UNCHANGED <<tables, seqLock, local, calls, errors, replies, reader>>

\* SELECT ... FOR UPDATE: waits for the row, then sees its committed content.
GetForUpdateByKey(h) ==
    LET k == req[h] IN
    /\ Goto(h, "lockIdem", IF idem[k] # NoMsg THEN "hit" ELSE "selectSeq")
    /\ idemLock[k] \in {Free, h}
    /\ idemLock' = [idemLock EXCEPT ![k] = h]
    /\ UNCHANGED <<tables, seqLock, local, calls, errors, replies, reader>>

\* Mutant: a hit answers with the conversation's current sequence.
HitCurrentSeq(h) ==
    \E m \in messages :
        /\ Goto(h, "hit", "reply")
        /\ m.id = idem[req[h]]
        /\ m.id \notin deleted
        /\ mid' = [mid EXCEPT ![h] = m.id]
        /\ seq' = [seq EXCEPT ![h] = curSeq[ConvOf[m.key]]]
        /\ ReleaseLocks(h)
        /\ UNCHANGED <<tables, req, calls, errors, replies, reader>>

\* Idempotency hit: the answer is the message the key is bound to, and the
\* transaction commits without a change.
IdempotencyHit(h) ==
    \E m \in messages :
        /\ Goto(h, "hit", "reply")
        /\ m.id = idem[req[h]]
        /\ m.id \notin deleted
        /\ mid' = [mid EXCEPT ![h] = m.id]
        /\ seq' = [seq EXCEPT ![h] = m.seq]
        /\ ReleaseLocks(h)
        /\ UNCHANGED <<tables, req, calls, errors, replies, reader>>

\* GetByMessageID does not find a deleted message: the call fails.
HitDeleted(h) ==
    /\ pc[h] = "hit"
    /\ idem[req[h]] \in deleted
    /\ ReturnError(h)
    /\ UNCHANGED errors

\* GetOrCreate looks for the sequence row ...
GetOrCreateSelect(h) ==
    /\ Goto(h, "selectSeq",
            IF curSeq[ConvOf[req[h]]] > 0 THEN "updateSeq" ELSE "insertSeq")
    /\ UNCHANGED <<tables, locks, local, calls, errors, replies, reader>>

\* ... and inserts it, ON CONFLICT DO NOTHING, if it found none.
GetOrCreateInsert(h) ==
    LET c == ConvOf[req[h]] IN
    /\ Goto(h, "insertSeq", "updateSeq")
    /\ \/ /\ curSeq[c] > 0
          /\ UNCHANGED seqLock
       \/ /\ curSeq[c] = 0
          /\ seqLock[c] = Free
          /\ seqLock' = [seqLock EXCEPT ![c] = h]
    /\ UNCHANGED <<tables, idemLock, local, calls, errors, replies, reader>>

\* Mutant: the sequence is taken outside the transaction, so nothing is locked
\* until the message commits.
IncrementOutsideTx(h) ==
    LET c == ConvOf[req[h]] IN
    /\ Goto(h, "updateSeq", "insertMsg")
    /\ seqLock' = [seqLock EXCEPT ![c] = Free]
    /\ curSeq' = [curSeq EXCEPT ![c] = @ + 1]
    /\ seq' = [seq EXCEPT ![h] = curSeq[c] + 1]
    /\ UNCHANGED <<idem, messages, recalled, deleted, idemLock, req, mid, calls, errors,
                   replies, reader>>

\* UPDATE current_seq = current_seq + 1 waits for the row and increments its
\* committed value; the SELECT that follows reads the transaction's own write.
IncrementAndGet(h) ==
    LET c == ConvOf[req[h]] IN
    /\ Goto(h, "updateSeq", "insertMsg")
    /\ seqLock[c] \in {Free, h}
    /\ seqLock' = [seqLock EXCEPT ![c] = h]
    /\ seq' = [seq EXCEPT ![h] = curSeq[c] + 1]
    /\ UNCHANGED <<tables, idemLock, req, mid, calls, errors, replies, reader>>

\* INSERT into messages under a fresh uuid; the unique constraint
\* uk_conversation_sequence refuses a sequence the conversation already has.
SequenceTaken(c, n) ==
    \E m \in messages : ConvOf[m.key] = c /\ m.seq = n

CreateMessage(h, id) ==
    /\ Goto(h, "insertMsg", "commit")
    /\ ~SequenceTaken(ConvOf[req[h]], seq[h])
    /\ \A m \in messages : m.id # id
    /\ \A g \in Handler : mid[g] # id
    /\ mid' = [mid EXCEPT ![h] = id]
    /\ UNCHANGED <<tables, locks, req, seq, calls, errors, replies, reader>>

\* BindMessageID, then COMMIT: all writes become visible and the locks go.
BindAndCommit(h) ==
    LET k == req[h] IN
    /\ Goto(h, "commit", "publish")
    /\ idem' = [idem EXCEPT ![k] = mid[h]]
    /\ curSeq' = [curSeq EXCEPT ![ConvOf[k]] = seq[h]]
    /\ messages' = messages \cup {[id |-> mid[h], key |-> k, seq |-> seq[h]]}
    /\ ReleaseLocks(h)
    /\ UNCHANGED <<recalled, deleted, local, calls, errors, replies, reader>>

\* A group message without another member to notify, or whose member list
\* cannot be loaded, is not published; the error is only logged.
PublishSkipped(h) ==
    /\ Goto(h, "publish", "reply")
    /\ ConvOf[req[h]] \notin Single
    /\ UNCHANGED <<tables, locks, local, calls, errors, replies, reader>>

\* Otherwise PublishToUser or PublishToUsers is called on the broker field,
\* which NewMessageService leaves nil: the handler panics, and the recovery
\* middleware turns the panic into an error.  The message stays committed.
PublishPanics(h) ==
    /\ pc[h] = "publish"
    /\ ReturnError(h)
    /\ UNCHANGED errors

\* SendMessageResponse with the message.
Reply(h) ==
    /\ pc[h] = "reply"
    /\ replies' = replies \cup
                  {[id |-> mid[h], key |-> req[h], seq |-> seq[h]]}
    /\ Ends(h)
    /\ UNCHANGED <<tables, locks, calls, errors, reader>>

\* Mutant: the open transaction is not rolled back.
ErrorWithoutRollback(h) ==
    /\ pc[h] # "idle"
    /\ errors < MaxErrors
    /\ errors' = errors + 1
    /\ Ends(h)
    /\ UNCHANGED <<tables, locks, calls, replies, reader>>

\* A database error, a timeout, a lost response or a crash, at any point.
Error(h) ==
    /\ pc[h] # "idle"
    /\ errors < MaxErrors
    /\ errors' = errors + 1
    /\ ReturnError(h)

\* The sender deletes the message, or it expires (see MessageLifecycle).
Delete(id) ==
    /\ \E m \in messages : m.id = id
    /\ recalled' = recalled \ {id}
    /\ deleted' = deleted \cup {id}
    /\ UNCHANGED <<idem, curSeq, messages, locks, pc, local, calls, errors,
                   replies, reader>>

\* The sender recalls the message, which GetByMessageID then still finds; the
\* message may have been deleted since RecallMessage has read it.
Recall(id) ==
    /\ \E m \in messages : m.id = id
    /\ recalled' = recalled \cup {id}
    /\ deleted' = deleted \ {id}
    /\ UNCHANGED <<idem, curSeq, messages, locks, pc, local, calls, errors,
                   replies, reader>>

\* GetByConversation: the messages of status normal after sequence n, the
\* first ReadLimit by ascending sequence.  The reader remembers how far it got.
After(c, n) ==
    {m \in messages : ConvOf[m.key] = c /\ m.seq > n /\ m.id \notin recalled \cup deleted}

ReadPage(c, n) ==
    \E last \in {n} \cup {m.seq : m \in After(c, n)} :
        LET page == {m \in After(c, n) : m.seq <= last}
        IN  /\ \/ Cardinality(page) = ReadLimit
               \/ page = After(c, n) /\ Cardinality(page) < ReadLimit
            /\ seen' = seen \cup {m.id : m \in page}
            /\ cursor' = [cursor EXCEPT ![c] = IF last > @ THEN last ELSE @]
            /\ UNCHANGED <<tables, locks, pc, local, calls, errors, replies>>

\* GetMessages returns the first page of the conversation.
GetMessages(c) == ReadPage(c, 0)

\* GetMessagesAfter continues from a message the reader has, which must still
\* be there, recalled or not (getAnchorMessage).
GetMessagesAfter(c) ==
    \E m \in messages :
        /\ ConvOf[m.key] = c
        /\ m.id \in seen \ deleted
        /\ ReadPage(c, m.seq)

-----------------------------------------------------------------------------
\* What the handler does by itself.
Work(h) ==
    \/ Authorize(h) \/ AuthorizeDenied(h)
    \/ CreateIfNotExists(h) \/ GetForUpdateByKey(h)
    \/ IdempotencyHit(h) \/ HitDeleted(h)
    \/ GetOrCreateSelect(h) \/ GetOrCreateInsert(h) \/ IncrementAndGet(h)
    \/ (\E id \in MsgId : CreateMessage(h, id)) \/ BindAndCommit(h)
    \/ PublishSkipped(h) \/ PublishPanics(h) \/ Reply(h)

Next ==
    \/ \E h \in Handler : Work(h) \/ Error(h)
    \/ \E h \in Handler, k \in Key : Call(h, k)
    \/ \E id \in MsgId : Delete(id) \/ Recall(id)
    \/ \E c \in Conv : GetMessages(c) \/ GetMessagesAfter(c)

Spec == Init /\ [][Next]_vars

\* The Go scheduler keeps running a handler that can run, and PostgreSQL grants
\* a row lock to a waiter once it is free.  Nothing is promised about clients,
\* errors or the reader.
FairSpec == Spec /\ \A h \in Handler : WF_vars(Work(h))

-----------------------------------------------------------------------------
\* Every conversation's sequences are 1, 2, ..., current_seq without a gap or
\* a repetition, whatever fails in the middle of IncrementAndGet and Create.
SequencesDense ==
    /\ \A m \in messages : m.seq \in 1..curSeq[ConvOf[m.key]]
    /\ \A m1, m2 \in messages :
          ConvOf[m1.key] = ConvOf[m2.key] /\ m1.seq = m2.seq => m1 = m2
    /\ \A c \in Conv : \A n \in 1..curSeq[c] :
          \E m \in messages : ConvOf[m.key] = c /\ m.seq = n

\* However often SendMessage is called with one key, it creates one message.
OneMessagePerKey ==
    \A m1, m2 \in messages : m1.key = m2.key => m1 = m2

\* Every successful response to a key, first or repeated, carries the id and
\* the sequence of the row the key created.
RepliesAgree == replies \subseteq messages

\* A reader that pages forward with GetMessages and GetMessagesAfter never has
\* a later message commit behind its back: whatever is at or before its cursor
\* it has received, unless it was recalled or deleted first.
ReaderMissesNothing ==
    \A m \in messages :
        m.seq <= cursor[ConvOf[m.key]] => m.id \in seen \cup recalled \cup deleted

\* The statements after an ON CONFLICT DO NOTHING insert find the row, although
\* the insert that won may have been rolled back meanwhile.
RowsExist ==
    \A h \in Handler :
        /\ pc[h] = "lockIdem" => idem[req[h]] # NoMsg \/ idemLock[req[h]] = h
        /\ pc[h] = "updateSeq" =>
             curSeq[ConvOf[req[h]]] > 0 \/ seqLock[ConvOf[req[h]]] = h

\* Every call ends, with an answer or an error: handlers never wait for each
\* other's rows for ever, and a failed handler leaves nothing locked.
CallsEnd == \A h \in Handler : pc[h] # "idle" ~> pc[h] = "idle"

\* SendMessage answers the call whose message it has committed: no step of the
\* publication takes the handler back to idle without a response.
CommittedCallIsAnswered ==
    [][\A h \in Handler : pc[h] = "publish" => pc'[h] \in {"publish", "reply"}]_vars

\* MessageSend implements the append-only log with positions.
Log == INSTANCE ConversationLog WITH
    log <- [c \in Conv |-> [n \in 1..curSeq[c] |->
              (CHOOSE m \in messages : ConvOf[m.key] = c /\ m.seq = n).key]],
    acked <- {<<r.key, r.seq>> : r \in replies}

LogSpec == Log!LogSpec
=============================================================================
