------------------------------- MODULE RtcCall -------------------------------
(***************************************************************************)
(* One-to-one calls and meetings of the RTC service: rows of call_sessions *)
(* and meeting_rooms, and the LiveKit rooms behind them.                   *)
(*                                                                         *)
(* JoinCall, RejectCall, EndCall and EndMeeting read the row, check its    *)
(* status and later write the whole row back with gorm's Save; the write   *)
(* repeats no condition and its failure is only logged.  The room is       *)
(* deleted by a goroutine nobody waits for.                                *)
(***************************************************************************)
EXTENDS Naturals, FiniteSets

CONSTANTS CallId, MeetingId, \* calls and meetings that may be started
          RtcHandler,        \* requests being served
          MaxRequests,       \* bound: requests in all
          MaxRtcErrors       \* bound: failing database, LiveKit and broker calls

ASSUME RtcAssumption ==
    /\ CallId \cap MeetingId = {}
    /\ MaxRequests \in Nat /\ MaxRtcErrors \in Nat

VARIABLES
    call,      \* call_sessions: status, and whether connected_at, ended_at and
               \* duration are set
    meeting,   \* meeting_rooms: status
    room,      \* LiveKit: "none", "open" or "gone"
    deleting,  \* goroutines about to delete the room
    kept,      \* history: rooms whose deletion failed
    told,      \* history: call statuses the other side was told; "lost" if a
               \* publication failed
    rtcPc, on, seen, note, \* of each handler: where it is, the call or meeting, the
               \* row it has read, and the status it will publish
    requests, rtcErrors

rtcVars == <<call, meeting, room, deleting, kept, told, rtcPc, on, seen, note,
          requests, rtcErrors>>
rooms == <<room, deleting, kept>>
local == <<on, seen, note>>

Id == CallId \cup MeetingId
Status == {"none", "ringing", "connected", "ended", "rejected", "cancelled"}
CallRow == [status : Status, connected : BOOLEAN, ended : BOOLEAN, timed : BOOLEAN]
NoRow == [status |-> "none", connected |-> FALSE, ended |-> FALSE, timed |-> FALSE]
Fresh == [NoRow EXCEPT !.status = "ringing"]
Over(r) == r.status \in {"ended", "rejected", "cancelled"}

RtcPC == {"idle", "insert", "join", "reject", "end", "endMeeting", "insertMeeting",
       "notify"}

RtcTypeOK ==
    /\ call \in [CallId -> CallRow]
    /\ meeting \in [MeetingId -> {"none", "active", "ended"}]
    /\ room \in [Id -> {"none", "open", "gone"}]
    /\ deleting \in [Id -> Nat]
    /\ kept \subseteq Id
    /\ told \in [CallId -> SUBSET (Status \cup {"lost"})]
    /\ rtcPc \in [RtcHandler -> RtcPC]
    /\ on \in [RtcHandler -> Id \cup {"none"}]
    /\ seen \in [RtcHandler -> CallRow]
    /\ note \in [RtcHandler -> Status]
    /\ requests \in 0..MaxRequests
    /\ rtcErrors \in 0..MaxRtcErrors
    /\ \A h \in RtcHandler :
          /\ rtcPc[h] \in {"insert", "join", "reject", "end", "notify"} => on[h] \in CallId
          /\ rtcPc[h] \in {"insertMeeting", "endMeeting"} => on[h] \in MeetingId

RtcInit ==
    /\ call = [c \in CallId |-> NoRow]
    /\ meeting = [m \in MeetingId |-> "none"]
    /\ room = [i \in Id |-> "none"]
    /\ deleting = [i \in Id |-> 0]
    /\ kept = {}
    /\ told = [c \in CallId |-> {}]
    /\ rtcPc = [h \in RtcHandler |-> "idle"]
    /\ on = [h \in RtcHandler |-> "none"]
    /\ seen = [h \in RtcHandler |-> NoRow]
    /\ note = [h \in RtcHandler |-> "none"]
    /\ requests = 0
    /\ rtcErrors = 0

RtcGoto(h, from, to) == rtcPc[h] = from /\ rtcPc' = [rtcPc EXCEPT ![h] = to]
RtcFails == rtcErrors < MaxRtcErrors /\ rtcErrors' = rtcErrors + 1

\* The request is served and its handler forgets it.
Served(h) ==
    /\ rtcPc' = [rtcPc EXCEPT ![h] = "idle"]
    /\ on' = [on EXCEPT ![h] = "none"]
    /\ seen' = [seen EXCEPT ![h] = NoRow]
    /\ note' = [note EXCEPT ![h] = "none"]
    /\ UNCHANGED requests

\* A request about i arrives and its first reads succeed.
Begin(h, i, to) ==
    /\ requests < MaxRequests
    /\ requests' = requests + 1
    /\ RtcGoto(h, "idle", to)
    /\ on' = [on EXCEPT ![h] = i]

\* UpdateCallSession saves the whole row; a failure is only logged.
UpdateCallSession(h, r) ==
    \/ call' = [call EXCEPT ![on[h]] = r] /\ UNCHANGED rtcErrors
    \/ RtcFails /\ UNCHANGED call

\* The handler goes on to publish status s and starts the room's deletion or not.
Publish(h, from, s) ==
    /\ RtcGoto(h, from, "notify")
    /\ note' = [note EXCEPT ![h] = s]
    /\ UNCHANGED <<meeting, room, kept, told, on, seen, requests>>
GoDeleteRoom(i) == deleting' = [deleting EXCEPT ![i] = @ + 1]

-----------------------------------------------------------------------------
\* InitiateCall: the callee has not blocked the caller and the room is created.
InitiateCall(h, c) ==
    /\ room[c] = "none"
    /\ Begin(h, c, "insert")
    /\ room' = [room EXCEPT ![c] = "open"]
    /\ UNCHANGED <<call, meeting, deleting, kept, told, seen, note, rtcErrors>>

\* CreateCallSession.
CreateCallSession(h) ==
    /\ Publish(h, "insert", "ringing")
    /\ call' = [call EXCEPT ![on[h]] = Fresh]
    /\ UNCHANGED <<deleting, rtcErrors>>

\* No token or no row: the call fails, and the room stays.
InitiateFails(h) ==
    /\ rtcPc[h] \in {"insert", "insertMeeting"}
    /\ RtcFails
    /\ Served(h)
    /\ UNCHANGED <<call, meeting, rooms, told>>

\* The row a request works on.
Read(h, c) ==
    /\ seen' = [seen EXCEPT ![h] = call[c]]
    /\ UNCHANGED <<call, meeting, rooms, told, note, rtcErrors>>

\* Mutant: the call need not be ringing.
JoinCallAny(h, c) ==
    /\ call[c].status # "none"
    /\ Begin(h, c, "join")
    /\ Read(h, c)

\* JoinCall by the callee of a ringing call.
JoinCall(h, c) ==
    /\ call[c].status = "ringing"
    /\ Begin(h, c, "join")
    /\ Read(h, c)

\* Mutant: only the two columns are updated.
JoinCallUpdatesColumns(h) ==
    /\ Publish(h, "join", "connected")
    /\ UpdateCallSession(h, [call[on[h]] EXCEPT !.status = "connected", !.connected = TRUE])
    /\ UNCHANGED deleting

JoinCallSave(h) ==
    /\ Publish(h, "join", "connected")
    /\ UpdateCallSession(h, [seen[h] EXCEPT !.status = "connected", !.connected = TRUE])
    /\ UNCHANGED deleting

\* RejectCall by the callee of a ringing call.
RejectCall(h, c) ==
    /\ call[c].status = "ringing"
    /\ Begin(h, c, "reject")
    /\ Read(h, c)

RejectCallSave(h) ==
    /\ Publish(h, "reject", "rejected")
    /\ UpdateCallSession(h, [seen[h] EXCEPT !.status = "rejected", !.ended = TRUE])
    /\ GoDeleteRoom(on[h])

\* EndCall by either side of a call that is not ended or rejected.
EndCall(h, c) ==
    /\ call[c].status \notin {"none", "ended", "rejected"}
    /\ Begin(h, c, "end")
    /\ Read(h, c)

EndStatus(h) == IF seen[h].status = "ringing" THEN "cancelled" ELSE "ended"

\* Mutant: the status published is the one that was read.
EndCallSaveTellsOld(h) ==
    /\ Publish(h, "end", seen[h].status)
    /\ UpdateCallSession(h, [seen[h] EXCEPT !.status = EndStatus(h), !.ended = TRUE,
                                            !.timed = seen[h].connected \/ @])
    /\ GoDeleteRoom(on[h])

\* Mutant: a cancelled call keeps its room.
EndCallSaveKeepsRoom(h) ==
    /\ Publish(h, "end", EndStatus(h))
    /\ UpdateCallSession(h, [seen[h] EXCEPT !.status = EndStatus(h), !.ended = TRUE,
                                            !.timed = seen[h].connected \/ @])
    /\ IF EndStatus(h) = "cancelled" THEN UNCHANGED deleting ELSE GoDeleteRoom(on[h])

EndCallSave(h) ==
    /\ Publish(h, "end", EndStatus(h))
    /\ UpdateCallSession(h, [seen[h] EXCEPT !.status = EndStatus(h), !.ended = TRUE,
                                            !.timed = seen[h].connected \/ @])
    /\ GoDeleteRoom(on[h])

\* PublishToUser, the last step of the four; a failure is only logged.
Notify(h) ==
    /\ rtcPc[h] = "notify"
    /\ told' = [told EXCEPT ![on[h]] = @ \cup {note[h]}]
    /\ Served(h)
    /\ UNCHANGED <<call, meeting, rooms, rtcErrors>>

NotifyFails(h) ==
    /\ rtcPc[h] = "notify"
    /\ RtcFails
    /\ told' = [told EXCEPT ![on[h]] = @ \cup {"lost"}]
    /\ Served(h)
    /\ UNCHANGED <<call, meeting, rooms>>

-----------------------------------------------------------------------------
\* CreateMeeting: the room is created, then the row.
CreateMeeting(h, m) ==
    /\ room[m] = "none"
    /\ Begin(h, m, "insertMeeting")
    /\ room' = [room EXCEPT ![m] = "open"]
    /\ UNCHANGED <<call, meeting, deleting, kept, told, seen, note, rtcErrors>>

InsertMeeting(h) ==
    /\ rtcPc[h] = "insertMeeting"
    /\ meeting' = [meeting EXCEPT ![on[h]] = "active"]
    /\ Served(h)
    /\ UNCHANGED <<call, rooms, told, rtcErrors>>

\* EndMeeting by the creator of a meeting that is not ended.
EndMeeting(h, m) ==
    /\ meeting[m] = "active"
    /\ Begin(h, m, "endMeeting")
    /\ UNCHANGED <<call, meeting, rooms, told, seen, note, rtcErrors>>

\* UpdateMeeting, whose failure is only logged, and the room's deletion.
EndMeetingSave(h) ==
    /\ rtcPc[h] = "endMeeting"
    /\ \/ meeting' = [meeting EXCEPT ![on[h]] = "ended"] /\ UNCHANGED rtcErrors
       \/ RtcFails /\ UNCHANGED meeting
    /\ GoDeleteRoom(on[h])
    /\ Served(h)
    /\ UNCHANGED <<call, room, kept, told>>

-----------------------------------------------------------------------------
\* deleteRoom: LiveKit deletes the room, or the call fails or times out.
DeleteRoom(i) ==
    /\ deleting[i] > 0
    /\ deleting' = [deleting EXCEPT ![i] = @ - 1]
    /\ \/ /\ room' = [room EXCEPT ![i] = "gone"]
          /\ UNCHANGED <<kept, rtcErrors>>
       \/ /\ RtcFails
          /\ kept' = kept \cup {i}
          /\ UNCHANGED room
    /\ UNCHANGED <<call, meeting, told, rtcPc, local, requests>>

\* LiveKit closes a room that stays empty.
EmptyTimeout(i) ==
    /\ room[i] = "open"
    /\ room' = [room EXCEPT ![i] = "gone"]
    /\ UNCHANGED <<call, meeting, deleting, kept, told, rtcPc, local, requests, rtcErrors>>

Serve(h) ==
    \/ CreateCallSession(h) \/ InitiateFails(h) \/ JoinCallSave(h)
    \/ RejectCallSave(h) \/ EndCallSave(h) \/ Notify(h) \/ NotifyFails(h)
    \/ InsertMeeting(h) \/ EndMeetingSave(h)

RtcNext ==
    \/ \E h \in RtcHandler :
          \/ Serve(h)
          \/ \E c \in CallId : InitiateCall(h, c) \/ JoinCall(h, c)
                               \/ RejectCall(h, c) \/ EndCall(h, c)
          \/ \E m \in MeetingId : CreateMeeting(h, m) \/ EndMeeting(h, m)
    \/ \E i \in Id : DeleteRoom(i) \/ EmptyTimeout(i)

\* A request that is being served goes on, and so does a started goroutine;
\* nobody need make a request, and LiveKit need not close a room by itself.
Fairness ==
    /\ \A h \in RtcHandler : WF_rtcVars(Serve(h))
    /\ \A i \in Id : WF_rtcVars(DeleteRoom(i))

RtcSpec == RtcInit /\ [][RtcNext]_rtcVars /\ Fairness

-----------------------------------------------------------------------------
\* The row of a call tells one story, whichever of the overlapping JoinCall,
\* RejectCall and EndCall wrote last: ended_at is set just when it is over, a
\* connected call has connected_at, a rejected or cancelled one does not, and
\* there is a duration only for a call that was connected.
RowConsistent ==
    \A c \in CallId : LET r == call[c] IN
        /\ r.ended <=> Over(r)
        /\ r.status = "connected" => r.connected
        /\ r.status \in {"rejected", "cancelled"} => ~r.connected
        /\ r.timed => r.connected

\* Handlers about to write a row of call c that they read before it was over.
LateWriter(c) ==
    \E h \in RtcHandler : /\ on[h] = c /\ ~Over(seen[h])
                          /\ rtcPc[h] \in {"insert", "join", "reject", "end"}

\* A call that is over stays so unless a request overlapped its end: nobody who
\* reads the row afterwards can make it ring or connect again.
OverStaysOver ==
    [][\A c \in CallId : Over(call[c]) /\ ~LateWriter(c) => Over(call'[c])]_rtcVars

\* When a call is over and its requests are served, the other side has been told
\* that it was ended, rejected or cancelled (or the publication failed).
OverAnnounced ==
    \A c \in CallId :
        Over(call[c]) /\ (\A h \in RtcHandler : on[h] = c => rtcPc[h] = "idle") =>
            told[c] \cap {"ended", "rejected", "cancelled", "lost"} # {}

\* EndCall, RejectCall and EndMeeting leave the room to a goroutine: the room of
\* a call or meeting that is over goes away, or its deletion has failed.
RoomReleased ==
    \A i \in Id :
        (IF i \in CallId THEN Over(call[i]) ELSE meeting[i] = "ended")
            ~> (room[i] = "gone" \/ i \in kept)
=============================================================================
