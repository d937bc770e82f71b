--------------------------- MODULE ConversationView ---------------------------
(***************************************************************************)
(* The conversations of one user in the conversation service, and the view *)
(* of them that the user's devices keep from the notifications.            *)
(*                                                                         *)
(* Every setter is one UPDATE of one column followed by a notification     *)
(* with the new value, in two steps: the notifications of two calls can    *)
(* leave in the other order than their updates, or not at all (a failed    *)
(* publication is only logged).                                            *)
(***************************************************************************)
EXTENDS Naturals, FiniteSets

CONSTANTS Target,        \* the user's targets, with a conversation type that parses
          ConvId,        \* conversation ids; every insert draws a new one
          NoConv,        \* no conversation
          ConvCall,      \* setter calls in flight
          MaxConvCalls,  \* bound: how many setter calls are made
          MaxValue       \* bound: durations and counts run from 0 to this

ASSUME ConvAssumption == MaxConvCalls \in Nat /\ MaxValue \in Nat

\* The columns the setters write.
Column == {"is_pinned", "is_muted", "burn_after_reading", "auto_delete_duration",
           "unread_count"}

Setting == [Column -> 0..MaxValue]
Fresh   == [k \in Column |-> 0]
Unknown == MaxValue + 1      \* the device has been told to read the value again

VARIABLES
    target,    \* the rows: target of each conversation; NoConv: no row
    drawn,     \* ids drawn so far
    setting,   \* the columns of each row
    view,      \* what the devices know of each row
    cpc,       \* where each call is: "idle" or "publish"
    creq,      \* what it will announce: conversation, column and value
    cmade,     \* calls made so far
    blurred    \* columns whose notifications were lost or left out of order

convVars == <<target, drawn, setting, view, cpc, creq, cmade, blurred>>

NoRequest == [conv |-> NoConv, column |-> "none", value |-> 0]

ConvTypeOK ==
    /\ target \in [ConvId -> Target \cup {NoConv}]
    /\ drawn \subseteq ConvId
    /\ setting \in [ConvId -> Setting]
    /\ view \in [ConvId -> [Column -> 0..Unknown]]
    /\ cpc \in [ConvCall -> {"idle", "publish"}]
    /\ cmade \in 0..MaxConvCalls
    /\ blurred \subseteq ConvId \X Column

ConvInit ==
    /\ target = [i \in ConvId |-> NoConv]
    /\ drawn = {}
    /\ setting = [i \in ConvId |-> Fresh]
    /\ view = [i \in ConvId |-> Fresh]
    /\ cpc = [c \in ConvCall |-> "idle"]
    /\ creq = [c \in ConvCall |-> NoRequest]
    /\ cmade = 0
    /\ blurred = {}

\* Another call for the same column has written and not yet announced.
Overlaps(c, i, k) ==
    \E d \in ConvCall \ {c} : cpc[d] = "publish" /\ creq[d].conv = i /\ creq[d].column = k

-----------------------------------------------------------------------------
\* The unique constraint on (user_id, conversation_type, target_id).
RowOf(t) == {i \in ConvId : target[i] = t}

\* Mutant: the upsert resets the settings of the row it finds.
UpsertResetsRow(t, i) ==
    IF RowOf(t) = {}
    THEN /\ target' = [target EXCEPT ![i] = t]
         /\ UNCHANGED setting
    ELSE /\ setting' = [j \in ConvId |-> IF j \in RowOf(t) THEN Fresh ELSE setting[j]]
         /\ UNCHANGED target

\* The upsert of CreateOrUpdateConversation: a new row with id i, or on conflict
\* only the last message of the row that is there.
UpsertConversation(t, i) ==
    /\ target' = IF RowOf(t) = {} THEN [target EXCEPT ![i] = t] ELSE target
    /\ UNCHANGED setting

\* CreateOrUpdateConversation; the row it reads back is only for the answer.
CreateOrUpdateConversation(t, i) ==
    /\ i \notin drawn
    /\ drawn' = drawn \cup {i}
    /\ UpsertConversation(t, i)
    /\ UNCHANGED <<view, cpc, creq, cmade, blurred>>

\* DeleteConversation removes the row; the devices drop what they know of it.
DeleteConversation(i) ==
    /\ target[i] # NoConv
    /\ target' = [target EXCEPT ![i] = NoConv]
    /\ UNCHANGED <<drawn, setting, view, cpc, creq, cmade, blurred>>

\* A setter's UPDATE WHERE conversation_id AND user_id: no row is no error, and
\* the notification follows all the same.
Update(c, i, k, written, announced) ==
    /\ cmade < MaxConvCalls
    /\ cmade' = cmade + 1
    /\ cpc[c] = "idle"
    /\ i \in drawn
    /\ cpc' = [cpc EXCEPT ![c] = "publish"]
    /\ creq' = [creq EXCEPT ![c] = [conv |-> i, column |-> k, value |-> announced]]
    /\ setting' = IF target[i] = NoConv THEN setting ELSE [setting EXCEPT ![i][k] = written]
    /\ blurred' = IF Overlaps(c, i, k) THEN blurred \cup {<<i, k>>} ELSE blurred
    /\ UNCHANGED <<target, drawn, view>>

SetPinned(c, i, v)           == v \in {0, 1} /\ Update(c, i, "is_pinned", v, v)
SetMuted(c, i, v)            == v \in {0, 1} /\ Update(c, i, "is_muted", v, v)
SetBurnAfterReading(c, i, v) == Update(c, i, "burn_after_reading", v, v)
SetAutoDelete(c, i, v)       == Update(c, i, "auto_delete_duration", v, v)
ClearUnread(c, i)            == Update(c, i, "unread_count", 0, 0)

\* IncrUnread adds in the database and announces no value: the devices read it.
IncrUnread(c, i) ==
    /\ setting[i]["unread_count"] < MaxValue
    /\ Update(c, i, "unread_count", setting[i]["unread_count"] + 1, Unknown)

ConvEnds(c) ==
    /\ cpc[c] = "publish"
    /\ cpc' = [cpc EXCEPT ![c] = "idle"]
    /\ creq' = [creq EXCEPT ![c] = NoRequest]
    /\ UNCHANGED <<target, drawn, setting, cmade>>

\* PublishToUser: the devices take the value over.  A value they take over with
\* no other call on its way is the last one written, so they are up to date.
Publish(c) ==
    LET r == creq[c] IN
    /\ ConvEnds(c)
    /\ view' = [view EXCEPT ![r.conv][r.column] = r.value]
    /\ UNCHANGED blurred

\* The publication fails, which is only logged.
PublishFails(c) ==
    LET r == creq[c] IN
    /\ ConvEnds(c)
    /\ blurred' = blurred \cup {<<r.conv, r.column>>}
    /\ UNCHANGED view

\* A device reads the conversation (GetConversations, GetConversation).
GetConversation(i) ==
    /\ target[i] # NoConv
    /\ view' = [view EXCEPT ![i] = setting[i]]
    /\ blurred' = {b \in blurred :
                     b[1] # i \/ \E c \in ConvCall : cpc[c] = "publish" /\ creq[c].conv = i}
    /\ UNCHANGED <<target, drawn, setting, cpc, creq, cmade>>

ConvNext ==
    \/ \E i \in ConvId :
         \/ \E t \in Target : CreateOrUpdateConversation(t, i)
         \/ DeleteConversation(i) \/ GetConversation(i)
         \/ \E c \in ConvCall :
              \/ \E v \in 0..MaxValue :
                   \/ SetPinned(c, i, v) \/ SetMuted(c, i, v)
                   \/ SetBurnAfterReading(c, i, v) \/ SetAutoDelete(c, i, v)
              \/ ClearUnread(c, i) \/ IncrUnread(c, i)
    \/ \E c \in ConvCall : Publish(c) \/ PublishFails(c)

ConvSpec == ConvInit /\ [][ConvNext]_convVars

-----------------------------------------------------------------------------
\* A target has at most one row, and what the devices know of a column is what
\* the row holds, unless a call for it is on its way or a notification for it
\* was lost or overtaken: the setters and the upsert of CreateOrUpdateConversation
\* write no column that they do not announce.
ViewAgrees ==
    /\ \A i \in ConvId, j \in ConvId : target[i] = target[j] => i = j \/ target[i] = NoConv
    /\ \A i \in ConvId, k \in Column :
         target[i] # NoConv =>
            \/ view[i][k] \in {setting[i][k], Unknown}
            \/ <<i, k>> \in blurred
            \/ \E c \in ConvCall : cpc[c] = "publish" /\ creq[c].conv = i /\ creq[c].column = k
=============================================================================
