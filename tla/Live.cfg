CONSTANTS
    \* Realtime and RequestPath
    Conn = {1, 2}
    Device = {phone, laptop}
    NoConn = NoConn
    NoDevice = NoDevice
    MaxNotif = 1
    Entry = {"gateway", "websocket", "service"}
    \* Friendship
    User = {u, v}
    Req = {1, 2, 3}
    Call = {d1, d2}
    NoReq = NoReq
    NoPair = NoPair
    Unlocked = Unlocked
    MaxCalls = 3
    MaxErrors = 1
    \* RtcCall
    CallId = {x1}
    MeetingId = {m1}
    RtcHandler = {h1, h2, h3}
    MaxRequests = 4
    MaxRtcErrors = 1
SPECIFICATION LiveSpec
INVARIANTS
    DoneClosedOnce
    NotEvicted
    NoLeakedSubscription
    AtMostOnce
    NoSilentLoss
    AnswerTellsEffect
    ActsForCaller
    Symmetric
    AcceptedWereFriends
    RowConsistent
    OverAnnounced
PROPERTIES
    ReplacedEnds
    Answered
    CallsEnd
    OverStaysOver
    RoomReleased
CHECK_DEADLOCK FALSE
