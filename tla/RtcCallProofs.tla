---------------------------- MODULE RtcCallProofs ----------------------------
(***************************************************************************)
(* For any number of calls, meetings, overlapping requests and errors: the *)
(* row of a call is consistent, a call that is over stays over unless a    *)
(* request overlapped its end, and its end is announced.                   *)
(***************************************************************************)
EXTENDS RtcCall, TLAPS

Consistent(r) ==
    /\ r.ended <=> Over(r)
    /\ r.status = "connected" => r.connected
    /\ r.status \in {"none", "ringing", "rejected", "cancelled"} => ~r.connected
    /\ r.timed => r.connected

\* The rows, and what a handler may hold of them: JoinCall and RejectCall a row
\* that rings, EndCall one that is not ended, and InitiateCall none.
IInv ==
    /\ RtcTypeOK
    /\ \A c \in CallId : Consistent(call[c])
    /\ \A h \in RtcHandler :
          /\ rtcPc[h] \in {"idle", "insert", "insertMeeting", "endMeeting"} =>
                seen[h] = NoRow
          /\ rtcPc[h] \in {"join", "reject"} =>
                seen[h].status = "ringing" /\ Consistent(seen[h])
          /\ rtcPc[h] = "end" => Consistent(seen[h]) /\ seen[h].status \in
                {"ringing", "connected", "cancelled"}

\* The rows there are before and when a call is made.
LEMMA RowFacts ==
    /\ NoRow \in CallRow /\ Fresh \in CallRow
    /\ Consistent(NoRow) /\ Consistent(Fresh) /\ ~Over(NoRow)
  BY DEF NoRow, Fresh, CallRow, Status, Consistent, Over

\* What the three writers make of the row they hold.
LEMMA JoinRow ==
    ASSUME NEW r \in CallRow, r.status = "ringing", Consistent(r)
    PROVE  LET w == [r EXCEPT !.status = "connected", !.connected = TRUE] IN
           w \in CallRow /\ Consistent(w)
  BY DEF CallRow, Status, Consistent, Over

\* RejectCall makes a consistent row of a consistent one.
LEMMA RejectRow ==
    ASSUME NEW r \in CallRow, r.status = "ringing", Consistent(r)
    PROVE  LET w == [r EXCEPT !.status = "rejected", !.ended = TRUE] IN
           w \in CallRow /\ Consistent(w)
  BY DEF CallRow, Status, Consistent, Over

EndRow(r) == [r EXCEPT !.status = IF r.status = "ringing" THEN "cancelled" ELSE "ended",
                       !.ended = TRUE, !.timed = r.connected \/ @]

\* So does EndCall.
LEMMA EndRowFacts ==
    ASSUME NEW r \in CallRow, Consistent(r),
           r.status \in {"ringing", "connected", "cancelled"}
    PROVE  EndRow(r) \in CallRow /\ Consistent(EndRow(r)) /\ Over(EndRow(r))
<1> DEFINE timed == r.connected \/ r.timed
           status == IF r.status = "ringing" THEN "cancelled" ELSE "ended"
<1>1. timed \in BOOLEAN /\ (timed => r.connected)
  BY DEF Consistent, CallRow
<1>2. EndRow(r) = [r EXCEPT !.status = status, !.ended = TRUE, !.timed = timed]
  BY DEF EndRow
<1> HIDE DEF timed
<1>3. QED
  BY <1>1, <1>2 DEF CallRow, Status, Consistent, Over

\* IInv holds in the beginning.
LEMMA InitInv == RtcInit => IInv
<1> SUFFICES ASSUME RtcInit PROVE IInv
  OBVIOUS
<1>1. call \in [CallId -> CallRow] /\ seen \in [RtcHandler -> CallRow]
  BY RowFacts DEF RtcInit
<1>2. rtcPc \in [RtcHandler -> RtcPC] /\ \A h \in RtcHandler : rtcPc[h] = "idle"
  BY DEF RtcInit, RtcPC
<1>3. /\ meeting \in [MeetingId -> {"none", "active", "ended"}]
      /\ room \in [Id -> {"none", "open", "gone"}]
      /\ deleting \in [Id -> Nat]
      /\ kept \subseteq Id
      /\ told \in [CallId -> SUBSET (Status \cup {"lost"})]
      /\ on \in [RtcHandler -> Id \cup {"none"}]
      /\ note \in [RtcHandler -> Status]
  BY DEF RtcInit, Status
<1>4. requests \in 0..MaxRequests /\ rtcErrors \in 0..MaxRtcErrors
  BY RtcAssumption DEF RtcInit
<1>5. RtcTypeOK
  BY <1>1, <1>2, <1>3, <1>4 DEF RtcTypeOK
<1>6. QED
  BY <1>2, <1>5, RowFacts DEF RtcInit, IInv

\* The save of row r leaves every row consistent, whether it fails or not.
LEMMA SaveKeeps ==
    ASSUME IInv, NEW h \in RtcHandler, on[h] \in CallId, NEW r \in CallRow, Consistent(r),
           UpdateCallSession(h, r)
    PROVE  /\ call' \in [CallId -> CallRow]
           /\ \A c \in CallId : Consistent(call'[c])
           /\ rtcErrors' \in 0..MaxRtcErrors
<1> USE RtcAssumption DEF IInv, RtcTypeOK
<1>1. CASE call' = [call EXCEPT ![on[h]] = r] /\ UNCHANGED rtcErrors
  BY <1>1
<1>2. CASE RtcFails /\ UNCHANGED call
  BY <1>2 DEF RtcFails
<1>3. QED
  BY <1>1, <1>2 DEF UpdateCallSession

\* Every step keeps IInv.
LEMMA NextInv == IInv /\ [RtcNext]_rtcVars => IInv'
<1> SUFFICES ASSUME IInv, [RtcNext]_rtcVars PROVE IInv'
  OBVIOUS
<1> USE RtcAssumption, RowFacts DEF IInv, RtcTypeOK, RtcPC, Id
<1>1. CASE UNCHANGED rtcVars
  BY <1>1 DEF rtcVars
<1>2. ASSUME NEW h \in RtcHandler, NEW c \in CallId, InitiateCall(h, c) PROVE IInv'
  BY <1>2 DEF InitiateCall, Begin, RtcGoto
<1>3. ASSUME NEW h \in RtcHandler, NEW c \in CallId, JoinCall(h, c) PROVE IInv'
  BY <1>3 DEF JoinCall, Begin, Read, RtcGoto, rooms
<1>4. ASSUME NEW h \in RtcHandler, NEW c \in CallId, RejectCall(h, c) PROVE IInv'
  BY <1>4 DEF RejectCall, Begin, Read, RtcGoto, rooms
<1>5. ASSUME NEW h \in RtcHandler, NEW c \in CallId, EndCall(h, c) PROVE IInv'
  BY <1>5 DEF EndCall, Begin, Read, RtcGoto, rooms, CallRow, Status
<1>6. ASSUME NEW h \in RtcHandler, NEW m \in MeetingId, CreateMeeting(h, m) PROVE IInv'
  BY <1>6 DEF CreateMeeting, Begin, RtcGoto
<1>7. ASSUME NEW h \in RtcHandler, NEW m \in MeetingId, EndMeeting(h, m) PROVE IInv'
  BY <1>7 DEF EndMeeting, Begin, RtcGoto, rooms
<1>8. ASSUME NEW h \in RtcHandler, Serve(h) PROVE IInv'
  <2>1. CASE CreateCallSession(h)
    BY <2>1 DEF CreateCallSession, Publish, RtcGoto, Status
  <2>2. CASE InitiateFails(h)
    BY <2>2 DEF InitiateFails, Served, RtcFails, rooms, Status
  <2>3. CASE JoinCallSave(h)
    <3>1. /\ on[h] \in CallId
          /\ seen[h] \in CallRow /\ seen[h].status = "ringing" /\ Consistent(seen[h])
      BY <2>3 DEF JoinCallSave, Publish, RtcGoto
    <3>2. /\ call' \in [CallId -> CallRow]
          /\ \A c \in CallId : Consistent(call'[c])
          /\ rtcErrors' \in 0..MaxRtcErrors
      BY <2>3, <3>1, JoinRow, SaveKeeps DEF JoinCallSave
    <3>3. QED
      BY <2>3, <3>1, <3>2 DEF JoinCallSave, Publish, RtcGoto, Status
  <2>4. CASE RejectCallSave(h)
    <3>1. /\ on[h] \in CallId
          /\ seen[h] \in CallRow /\ seen[h].status = "ringing" /\ Consistent(seen[h])
      BY <2>4 DEF RejectCallSave, Publish, RtcGoto
    <3>2. /\ call' \in [CallId -> CallRow]
          /\ \A c \in CallId : Consistent(call'[c])
          /\ rtcErrors' \in 0..MaxRtcErrors
      BY <2>4, <3>1, RejectRow, SaveKeeps DEF RejectCallSave
    <3>3. QED
      BY <2>4, <3>1, <3>2 DEF RejectCallSave, Publish, GoDeleteRoom, RtcGoto, Status
  <2>5. CASE EndCallSave(h)
    <3>1. /\ on[h] \in CallId
          /\ seen[h] \in CallRow /\ Consistent(seen[h])
          /\ seen[h].status \in {"ringing", "connected", "cancelled"}
      BY <2>5 DEF EndCallSave, Publish, RtcGoto
    <3>2. UpdateCallSession(h, EndRow(seen[h]))
      BY <2>5 DEF EndCallSave, EndRow, EndStatus
    <3>3. /\ call' \in [CallId -> CallRow]
          /\ \A c \in CallId : Consistent(call'[c])
          /\ rtcErrors' \in 0..MaxRtcErrors
      BY <3>1, <3>2, EndRowFacts, SaveKeeps
    <3>4. QED
      BY <2>5, <3>1, <3>3 DEF EndCallSave, EndStatus, Publish, GoDeleteRoom, RtcGoto, Status
  <2>6. CASE Notify(h)
    BY <2>6 DEF Notify, Served, rooms, Status
  <2>7. CASE NotifyFails(h)
    BY <2>7 DEF NotifyFails, RtcFails, Served, rooms, Status
  <2>8. CASE InsertMeeting(h)
    BY <2>8 DEF InsertMeeting, Served, rooms, Status
  <2>9. CASE EndMeetingSave(h)
    BY <2>9 DEF EndMeetingSave, GoDeleteRoom, RtcFails, Served, Status
  <2>10. QED
    BY <1>8, <2>1, <2>2, <2>3, <2>4, <2>5, <2>6, <2>7, <2>8, <2>9 DEF Serve
<1>9. ASSUME NEW i \in Id, DeleteRoom(i) PROVE IInv'
  BY <1>9 DEF DeleteRoom, RtcFails, local
<1>10. ASSUME NEW i \in Id, EmptyTimeout(i) PROVE IInv'
  BY <1>10 DEF EmptyTimeout, local
<1>11. QED
  BY <1>1, <1>2, <1>3, <1>4, <1>5, <1>6, <1>7, <1>8, <1>9, <1>10 DEF RtcNext

\* IInv holds always.
LEMMA Invariance == RtcSpec => []IInv
  BY InitInv, NextInv, PTL DEF RtcSpec

\* Every variable keeps its type; a handler at work knows its call or meeting.
THEOREM TypeCorrect == RtcSpec => []RtcTypeOK
<1>1. IInv => RtcTypeOK
  BY DEF IInv
<1>2. QED
  BY <1>1, Invariance, PTL

\* Whichever of JoinCall, RejectCall and EndCall writes last, the row of a call
\* is consistent.
THEOREM RowCorrect == RtcSpec => []RowConsistent
<1>1. IInv => RowConsistent
  BY DEF IInv, Consistent, RowConsistent
<1>2. QED
  BY <1>1, Invariance, PTL

\* The only steps that change a row are the four writers', and three of them
\* hold a row that was not over.
LEMMA OverStep ==
    IInv /\ [RtcNext]_rtcVars =>
        [\A c \in CallId : Over(call[c]) /\ ~LateWriter(c) => Over(call'[c])]_rtcVars
<1> SUFFICES ASSUME IInv, RtcNext, NEW c \in CallId, Over(call[c]), ~LateWriter(c)
             PROVE  Over(call'[c])
  OBVIOUS
<1> USE DEF IInv, RtcTypeOK
<1>1. ASSUME NEW h \in RtcHandler, rtcPc[h] \in {"insert", "join", "reject"}
      PROVE  on[h] # c
  BY <1>1, RowFacts DEF LateWriter, Over
<1>2. ASSUME NEW h \in RtcHandler, NEW r, UpdateCallSession(h, r), on[h] # c
      PROVE  call'[c] = call[c]
  BY <1>2 DEF UpdateCallSession
<1>3. ASSUME NEW h \in RtcHandler, CreateCallSession(h) PROVE Over(call'[c])
  BY <1>1, <1>3 DEF CreateCallSession, Publish, RtcGoto
<1>4. ASSUME NEW h \in RtcHandler, JoinCallSave(h) PROVE Over(call'[c])
  BY <1>1, <1>2, <1>4 DEF JoinCallSave, Publish, RtcGoto
<1>5. ASSUME NEW h \in RtcHandler, RejectCallSave(h) PROVE Over(call'[c])
  BY <1>1, <1>2, <1>5 DEF RejectCallSave, Publish, RtcGoto
<1>6. ASSUME NEW h \in RtcHandler, EndCallSave(h) PROVE Over(call'[c])
  <2>1. Over(EndRow(seen[h]))
    BY <1>6, EndRowFacts DEF EndCallSave, Publish, RtcGoto
  <2>2. UpdateCallSession(h, EndRow(seen[h]))
    BY <1>6 DEF EndCallSave, EndRow, EndStatus
  <2>3. QED
    BY <2>1, <2>2 DEF UpdateCallSession
<1>7. CASE UNCHANGED call
  BY <1>7
<1>8. ASSUME NEW h \in RtcHandler, Serve(h) PROVE Over(call'[c])
  BY <1>3, <1>4, <1>5, <1>6, <1>7, <1>8
     DEF Serve, InitiateFails, Notify, NotifyFails, InsertMeeting, EndMeetingSave
<1>9. QED
  BY <1>7, <1>8 DEF RtcNext, InitiateCall, JoinCall, RejectCall, EndCall, Read,
                    CreateMeeting, EndMeeting, DeleteRoom, EmptyTimeout

\* For any number of requests, nobody who reads the row of a call after its end
\* makes it ring or connect again.
THEOREM OverCorrect == RtcSpec => OverStaysOver
  BY Invariance, OverStep, PTL DEF RtcSpec, OverStaysOver

-----------------------------------------------------------------------------
Final == {"ended", "rejected", "cancelled"}

\* A handler is about to publish that call c is over.
Announcing(c) == \E h \in RtcHandler : rtcPc[h] = "notify" /\ on[h] = c /\ note[h] \in Final
Announced(c) == told[c] \cap (Final \cup {"lost"}) # {} \/ Announcing(c)

\* The save that ends a call and the decision to publish are one step, so that
\* at every moment a call that is over has been announced or is about to be.
AnnounceInv == \A c \in CallId : Over(call[c]) => Announced(c)

\* A step in which no handler leaves "notify" and nothing is forgotten keeps
\* what has been announced.
LEMMA StillAnnounced ==
    ASSUME NEW c \in CallId, Announced(c), told'[c] = told[c],
           \A g \in RtcHandler : rtcPc[g] = "notify" =>
               rtcPc'[g] = "notify" /\ on'[g] = on[g] /\ note'[g] = note[g]
    PROVE  Announced(c)'
  BY DEF Announced, Announcing

\* A handler that goes on to publish: it was not publishing before, and if the
\* status it publishes is final its call is announced.
LEMMA PublishAnnounces ==
    ASSUME IInv, NEW h \in RtcHandler, NEW from, NEW s \in Status, from # "notify",
           Publish(h, from, s)
    PROVE  /\ \A c \in CallId : Announced(c) => Announced(c)'
           /\ s \in Final => \A c \in CallId : on[h] = c => Announced(c)'
<1> USE DEF IInv, RtcTypeOK
<1>1. /\ rtcPc[h] = from /\ rtcPc'[h] = "notify" /\ note'[h] = s /\ on' = on /\ told' = told
      /\ \A g \in RtcHandler : g # h => rtcPc'[g] = rtcPc[g] /\ note'[g] = note[g]
  BY DEF Publish, RtcGoto
<1>2. \A c \in CallId : Announced(c) => Announced(c)'
  BY <1>1, StillAnnounced
<1>3. s \in Final => \A c \in CallId : on[h] = c => Announced(c)'
  BY <1>1 DEF Announced, Announcing
<1>4. QED
  BY <1>2, <1>3

\* The publication turns the intention into a status told, or a loss.
LEMMA NotifyAnnounces ==
    ASSUME IInv, NEW h \in RtcHandler, NEW w, rtcPc[h] = "notify",
           w = note[h] \/ w = "lost",
           told' = [told EXCEPT ![on[h]] = @ \cup {w}], Served(h),
           NEW c \in CallId, Announced(c)
    PROVE  Announced(c)'
<1> USE DEF IInv, RtcTypeOK
<1>1. told[c] \subseteq told'[c] /\ w \in told'[on[h]]
  OBVIOUS
<1>2. \A g \in RtcHandler : g # h => rtcPc'[g] = rtcPc[g] /\ on'[g] = on[g] /\ note'[g] = note[g]
  BY DEF Served
<1>3. CASE told[c] \cap (Final \cup {"lost"}) # {}
  BY <1>1, <1>3 DEF Announced
<1>4. CASE on[h] = c /\ note[h] \in Final
  BY <1>1, <1>4 DEF Announced
<1>5. ASSUME NEW g \in RtcHandler, g # h, rtcPc[g] = "notify", on[g] = c, note[g] \in Final
      PROVE  Announced(c)'
  BY <1>2, <1>5 DEF Announced, Announcing
<1>6. QED
  BY <1>3, <1>4, <1>5 DEF Announced, Announcing

\* Every step keeps AnnounceInv.
LEMMA AnnounceStep == IInv /\ AnnounceInv /\ [RtcNext]_rtcVars => AnnounceInv'
<1> SUFFICES ASSUME IInv, AnnounceInv, [RtcNext]_rtcVars, NEW c \in CallId, Over(call'[c])
             PROVE  Announced(c)'
  BY DEF AnnounceInv
<1> USE DEF IInv, RtcTypeOK
<1>1. ASSUME call' = call, told' = told,
             \A g \in RtcHandler : rtcPc[g] = "notify" =>
                 rtcPc'[g] = "notify" /\ on'[g] = on[g] /\ note'[g] = note[g]
      PROVE  Announced(c)'
  BY <1>1, StillAnnounced DEF AnnounceInv
<1>2. ASSUME NEW h \in RtcHandler, NEW r, NEW from, NEW s \in Final, from # "notify",
             Publish(h, from, s), UpdateCallSession(h, r)
      PROVE  Announced(c)'
  <2>1. \A d \in CallId : Announced(d) => Announced(d)'
    BY <1>2, PublishAnnounces DEF Status, Final
  <2>2. on[h] = c => Announced(c)'
    BY <1>2, PublishAnnounces DEF Status, Final
  <2>3. call'[c] = call[c] \/ c = on[h]
    BY <1>2 DEF UpdateCallSession
  <2>4. QED
    BY <2>1, <2>2, <2>3 DEF AnnounceInv
<1>3. ASSUME NEW h \in RtcHandler, CreateCallSession(h) PROVE Announced(c)'
  <2>1. on[h] \in CallId /\ call'[on[h]] = Fresh /\ ~Over(Fresh)
    BY <1>3 DEF CreateCallSession, Publish, RtcGoto, Fresh, NoRow, Over
  <2>2. c # on[h] /\ Over(call[c])
    BY <1>3, <2>1 DEF CreateCallSession
  <2>3. QED
    BY <1>3, <2>2, PublishAnnounces DEF CreateCallSession, Status, AnnounceInv
<1>4. ASSUME NEW h \in RtcHandler, JoinCallSave(h) PROVE Announced(c)'
  <2>1. on[h] \in CallId /\ seen[h] \in CallRow
    BY <1>4 DEF JoinCallSave, Publish, RtcGoto
  <2>2. ~Over([seen[h] EXCEPT !.status = "connected", !.connected = TRUE])
    BY <2>1 DEF Over, CallRow
  <2>3. Over(call[c])
    BY <1>4, <2>1, <2>2 DEF JoinCallSave, UpdateCallSession
  <2>4. QED
    BY <1>4, <2>3, PublishAnnounces DEF JoinCallSave, Status, AnnounceInv
<1>5. ASSUME NEW h \in RtcHandler, RejectCallSave(h) PROVE Announced(c)'
  BY <1>2, <1>5 DEF RejectCallSave, Final
<1>6. ASSUME NEW h \in RtcHandler, EndCallSave(h) PROVE Announced(c)'
  BY <1>2, <1>6 DEF EndCallSave, EndStatus, Final
<1>7. ASSUME NEW h \in RtcHandler, Notify(h) \/ NotifyFails(h) PROVE Announced(c)'
  BY <1>7, NotifyAnnounces DEF Notify, NotifyFails, AnnounceInv
<1>8. ASSUME NEW h \in RtcHandler, InitiateFails(h) \/ InsertMeeting(h) \/ EndMeetingSave(h)
      PROVE  Announced(c)'
  BY <1>1, <1>8 DEF InitiateFails, InsertMeeting, EndMeetingSave, Served
<1>9. ASSUME NEW h \in RtcHandler, Serve(h) PROVE Announced(c)'
  BY <1>3, <1>4, <1>5, <1>6, <1>7, <1>8, <1>9 DEF Serve
<1>10. ASSUME NEW h \in RtcHandler, NEW i, NEW to, Begin(h, i, to), UNCHANGED <<call, told, note>>
       PROVE  Announced(c)'
  BY <1>1, <1>10 DEF Begin, RtcGoto
<1>11. ASSUME NEW i \in Id, DeleteRoom(i) \/ EmptyTimeout(i) PROVE Announced(c)'
  BY <1>1, <1>11 DEF DeleteRoom, EmptyTimeout, local
<1>12. CASE UNCHANGED rtcVars
  BY <1>1, <1>12 DEF rtcVars
<1>13. QED
  BY <1>9, <1>10, <1>11, <1>12
     DEF RtcNext, InitiateCall, JoinCall, RejectCall, EndCall, Read, CreateMeeting, EndMeeting

\* For any number of overlapping requests: when a call is over and the requests
\* about it are served, the other side was told so or a publication failed.
THEOREM OverAnnouncedCorrect == RtcSpec => []OverAnnounced
<1>1. RtcInit => AnnounceInv
  BY RowFacts DEF RtcInit, AnnounceInv
<1>2. AnnounceInv => OverAnnounced
  BY DEF AnnounceInv, Announced, Announcing, OverAnnounced, Final
<1>3. QED
  BY <1>1, <1>2, AnnounceStep, Invariance, PTL DEF RtcSpec
=============================================================================
