------------------------------ MODULE RequestPath ------------------------------
(***************************************************************************)
(* The way of one request through the servers: from a client over the      *)
(* gateway (HTTP) or the realtime server (WebSocket), or directly (gRPC,   *)
(* the services the gateway does not proxy), to the handler of a service,  *)
(* from there to the services it calls in turn, and back as a status.      *)
(*                                                                         *)
(* A handler may need two things: the user, which travels as the x-user-id *)
(* metadata that a caller appends, and the fields of the request.  Some    *)
(* operations act for a user that the request itself names instead.  What  *)
(* the service does with them is in the other modules; here it calls       *)
(* others, takes effect, and ends well, with an error or a panic.          *)
(***************************************************************************)
EXTENDS Naturals, Sequences

CONSTANT Entry    \* the ways in that are used, of "gateway", "websocket", "service"

ASSUME EntryAssumption == Entry \subseteq {"gateway", "websocket", "service"}

-----------------------------------------------------------------------------
(* The handlers: what each checks, in the order it checks it. *)
Own      == <<"user", "fields">>
FieldOwn == <<"fields", "user">>
OwnFree  == <<"user">>
Open     == <<"fields">>
Free     == <<>>

MessageReads ==
    [SendMessage |-> Own, GetMessages |-> Open, GetMessagesBefore |-> Own,
     GetMessagesAfter |-> Own, GetMessagesAroundAnchor |-> Own]
MessageAnchors ==
    [GetFirstUnreadAnchor |-> Own, GetMessageById |-> Open,
     RecallMessage |-> Own, DeleteMessage |-> Own]
MessageMarks ==
    [MarkAsRead |-> Own, MarkMessagesRead |-> Own, AckReadTriggers |-> Own,
     GetUnreadCount |-> Own, GetReadReceipts |-> Own]
MessageRest ==
    [GetConversationSequence |-> Open, SearchMessages |-> Own, SendTyping |-> Own]

ConversationProxied ==
    [GetConversations |-> OwnFree, GetConversation |-> FieldOwn,
     DeleteConversation |-> FieldOwn, SetPinned |-> FieldOwn, SetMuted |-> FieldOwn,
     ClearUnread |-> FieldOwn, GetTotalUnread |-> OwnFree,
     SetBurnAfterReading |-> FieldOwn, SetAutoDelete |-> FieldOwn]
ConversationInternal == [CreateOrUpdateConversation |-> Open, IncrUnread |-> Open]

FileProxied ==
    [GenerateUploadToken |-> OwnFree, CompleteUpload |-> OwnFree,
     GenerateDownloadURL |-> OwnFree, GetFileInfo |-> OwnFree,
     DeleteFile |-> OwnFree, ListUserFiles |-> OwnFree]
FileInternal == [BatchGetFileInfo |-> Free]

FriendProxied ==
    [GetFriendList |-> OwnFree, SendFriendRequest |-> Own,
     HandleFriendRequest |-> Own, GetFriendRequests |-> Own, DeleteFriend |-> Own,
     UpdateRemark |-> Own, AddToBlacklist |-> Own, RemoveFromBlacklist |-> Own,
     GetBlacklist |-> OwnFree]
FriendInternal == [IsFriend |-> Free, IsBlocked |-> Free, BatchCheckFriend |-> Free]

GroupReads ==
    [GetGroupInfo |-> Free, GetGroupMembers |-> Free, GetUserGroups |-> Free]
GroupMembers ==
    [CreateGroup |-> Own, UpdateGroup |-> Own, DisbandGroup |-> Own,
     InviteMembers |-> Own, RemoveMember |-> Own, QuitGroup |-> Own,
     UpdateMemberRole |-> Own, UpdateMemberNickname |-> Own,
     TransferOwnership |-> Own, JoinGroup |-> Own]
GroupSettings ==
    [HandleJoinRequest |-> Own, GetJoinRequests |-> OwnFree,
     PinGroupMessage |-> Own, UnpinGroupMessage |-> Own,
     GetPinnedMessages |-> OwnFree, SetGroupMute |-> Own, MuteMember |-> Own,
     UnmuteMember |-> Own, UpdateGroupSettings |-> Own, GetGroupSettings |-> Free,
     UpdateMemberRemark |-> Own, GetGroupQRCode |-> OwnFree,
     RefreshGroupQRCode |-> Free]
GroupByCode == [JoinGroupByQRCode |-> OwnFree]
GroupInternal == [IsMember |-> Free, GetGroupPreviewByQRCode |-> Free]

UserLogin ==
    [SendVerificationCode |-> Open, Register |-> Open, Login |-> Open,
     Logout |-> OwnFree, RefreshToken |-> Free, ChangePassword |-> Own,
     ResetPassword |-> Open]
\* GetSettings needs no user when the request names one (GetSettingsOf).
UserAccount ==
    [GetProfile |-> OwnFree, UpdateProfile |-> OwnFree, GetUserInfo |-> OwnFree,
     SearchUsers |-> Free, GetSettings |-> OwnFree, GetSettingsOf |-> Free,
     UpdateSettings |-> OwnFree, RefreshQRCode |-> OwnFree,
     GetUserByQRCode |-> Free, UpdatePushToken |-> OwnFree, BindPhone |-> OwnFree,
     ChangePhone |-> OwnFree, BindEmail |-> OwnFree, ChangeEmail |-> OwnFree]

RtcHandlers ==
    [InitiateCall |-> Own, JoinCall |-> Own, RejectCall |-> Own, EndCall |-> Own,
     GetCallSession |-> Own, ListCallLogs |-> OwnFree, CreateMeeting |-> Own,
     JoinMeeting |-> Own, EndMeeting |-> Own, GetMeeting |-> Open,
     ListMeetings |-> Free]
PushHandlers == [SendPush |-> Open]

\* Several tables of handlers as one.
Merged(tables) ==
    [o \in UNION {DOMAIN t : t \in tables} |-> (CHOOSE t \in tables : o \in DOMAIN t)[o]]

-----------------------------------------------------------------------------
(* The gateway's proxies forward these operations to the services, and only these. *)
messageProxy      == Merged({MessageReads, MessageAnchors, MessageMarks, MessageRest})
conversationProxy == ConversationProxied
fileProxy         == FileProxied
friendProxy       == FriendProxied
groupProxy        == Merged({GroupReads, GroupMembers, GroupSettings, GroupByCode})
userProxy         == Merged({UserLogin, UserAccount})

Proxied == Merged({messageProxy, conversationProxy, fileProxy, friendProxy,
                   groupProxy, userProxy})
Direct  == Merged({RtcHandlers, PushHandlers})
Checks  == Merged({Proxied, Direct, ConversationInternal, FileInternal,
                   FriendInternal, GroupInternal})
Op      == DOMAIN Checks

\* The operations that act for the user of the metadata,
NeedsUser(o) == \E k \in DOMAIN Checks[o] : Checks[o][k] = "user"

\* and those that act for, or show the data of, the user the request names.  The
\* services call most of them, but clients reach the first five too.
OfNamedUser == {"RefreshGroupQRCode", "GetGroupInfo", "GetGroupMembers", "GetUserGroups",
                "GetSettingsOf", "IsMember", "IsFriend", "IsBlocked", "BatchCheckFriend",
                "CreateOrUpdateConversation", "IncrUnread", "BatchGetFileInfo"}

\* NewWhiteListMatcher: what the gateway forwards without looking at a token.
WhiteList == {"Register", "Login", "RefreshToken", "SendVerificationCode",
              "ResetPassword", "RefreshGroupQRCode", "GetGroupPreviewByQRCode"}

-----------------------------------------------------------------------------
(* The calls a service makes, and what it does when one fails: "lookup"    *)
(* reports the object as not found, "required" an internal error, and      *)
(* "bestEffort" logs it.  Effect stands for what the service itself writes *)
(* or, if it only reads, for what it reads.                                *)
Calls(o, policy)   == [op |-> o, policy |-> policy, appends |-> FALSE]
CallsAs(o, policy) == [Calls(o, policy) EXCEPT !.appends = TRUE]
Effect == Calls("effect", "own")

ensureConversationAccessible == <<Calls("GetConversation", "lookup")>>
authorizeSend ==
    {ensureConversationAccessible \o <<Calls("IsMember", "required")>>,
     ensureConversationAccessible \o <<Calls("IsBlocked", "required")>>}
listGroupMemberIDs(policy) == <<Calls("GetGroupMembers", policy)>>
autoUnpinRecalledGroupMessage == <<Calls("UnpinGroupMessage", "bestEffort")>>
getPinnedMessageSnapshot == <<Calls("GetMessageById", "lookup")>>
sendGroupSystemMessage == <<CallsAs("SendMessage", "bestEffort")>>
getUserInfo == <<Calls("GetUserInfo", "bestEffort")>>
createFriendConversation == <<Calls("CreateOrUpdateConversation", "bestEffort")>>
queryRelation == <<Calls("IsBlocked", "required"), Calls("IsFriend", "required")>>
verifyBlacklist == <<Calls("IsBlocked", "required")>>
recipientSettings == <<Calls("GetSettingsOf", "required")>>

\* What each operation may do, when none of its calls ends it.
Plans(o) ==
    CASE o = "SendMessage" ->
           {p \o <<Effect>> \o q : p \in authorizeSend,
                                   q \in {<<>>, listGroupMemberIDs("bestEffort")}}
      [] o = "SendTyping" -> {p \o <<Effect>> : p \in authorizeSend}
      [] o \in {"GetMessagesBefore", "GetMessagesAfter", "GetMessagesAroundAnchor",
                "GetFirstUnreadAnchor", "MarkAsRead", "GetUnreadCount",
                "GetReadReceipts"} ->
           {ensureConversationAccessible \o <<Effect>>}
      [] o = "MarkMessagesRead" ->   \* may go on to MarkAsRead
           {p \o <<Effect>> : p \in {ensureConversationAccessible,
               ensureConversationAccessible \o ensureConversationAccessible}}
      [] o = "SearchMessages" -> {<<Effect>>, ensureConversationAccessible \o <<Effect>>}
      [] o = "RecallMessage" ->
           {<<Effect>>,
            <<Effect>> \o autoUnpinRecalledGroupMessage \o listGroupMemberIDs("bestEffort")}
      [] o = "DeleteMessage" -> {<<Effect>>, <<Effect>> \o listGroupMemberIDs("required")}
      [] o = "PinGroupMessage" -> {getPinnedMessageSnapshot \o <<Effect>>}
      [] o = "SetGroupMute" -> {<<Effect>> \o sendGroupSystemMessage}
      [] o \in {"GetFriendList", "GetFriendRequests", "GetBlacklist"} ->
           {<<Effect>>, <<Effect>> \o getUserInfo}
      [] o = "SendFriendRequest" ->
           {recipientSettings \o <<Effect>> \o q :
              q \in {<<>>, createFriendConversation \o createFriendConversation}}
      [] o = "GetUserInfo" -> {queryRelation \o <<Effect>>}
      [] o = "InitiateCall" -> {verifyBlacklist \o <<Effect>>}
      [] OTHER -> {<<Effect>>}

\* NewMessageService does not set the broker these operations publish to.
Publishes == {"SendMessage", "SendTyping", "RecallMessage", "DeleteMessage", "MarkAsRead",
              "MarkMessagesRead"}

-----------------------------------------------------------------------------
(* Errors.  The kinds of business errors, and "plain" for any other error. *)
grpcCodeMapping ==
    [param |-> "InvalidArgument", unauthorized |-> "Unauthenticated",
     forbidden |-> "PermissionDenied", notFound |-> "NotFound",
     exists |-> "AlreadyExists", state |-> "FailedPrecondition",
     limit |-> "ResourceExhausted", internal |-> "Internal"]

\* The business code is appended to a context that is thrown away, so only the
\* gRPC code is left of it.
ConvertError(kind) == IF kind = "plain" THEN "Internal" ELSE grpcCodeMapping[kind]

BadRequest == ConvertError("param")

\* What the services return.  rtc returns status errors, which are no business
\* errors to ConvertError; push wraps every error in Internal.
ErrorKinds(op) ==
    IF op \in DOMAIN RtcHandlers THEN {"plain"}
    ELSE IF op \in DOMAIN PushHandlers THEN {"internal"}
    ELSE DOMAIN grpcCodeMapping \cup {"plain"}

\* recovery.Recovery turns a panic into an internal error.
Recovery == "Internal"

mapBusinessCodeToHTTP(c) ==
    CASE c = "InvalidArgument"    -> "400"
      [] c = "Unauthenticated"    -> "401"
      [] c = "PermissionDenied"   -> "403"
      [] c = "NotFound"           -> "404"
      [] c = "AlreadyExists"      -> "409"
      [] c = "FailedPrecondition" -> "412"
      [] c = "ResourceExhausted"  -> "429"
      [] OTHER                       -> "500"

\* ExtractBusinessCode finds none, so every error has the code CodeInternalError.
ErrorEncoder(c) == mapBusinessCodeToHTTP(c)
ResponseEncoder == "200"

-----------------------------------------------------------------------------
VARIABLES
    entry, op,   \* how the request comes in, and for which operation
    token,       \* "valid", "bad": missing, expired or forged, or "unchecked"
    fields,      \* whether the request has the fields the handler requires
    phase,       \* "arrived", "admitted", "called", "answered"
    stack,       \* the calls in progress, the client's first
    code,        \* what the call that returned last returned; "none": nothing yet
    answer,      \* what the client was answered: an HTTP status or an event
    late,        \* calls still running whose caller has given up
    effects,     \* history: the operations that took effect
    acted,       \* history: those that took effect or may yet, and for whom
    blame        \* history: why the first call failed

requestVars ==
    <<entry, op, token, fields, phase, stack, code, answer, late, effects, acted, blame>>
request == <<entry, op, token, fields>>
outcome == <<effects, acted>>

\* The user of a call: the one whose token the gateway has checked, the one that
\* a direct client claims to be, or none.
CallUser == {"caller", "claimed", "none"}
Who      == CallUser \cup {"named", "nobody"}

\* A call in progress: for whom it acts, the checks and calls it has yet to make.
Frame(o, user, ok) ==
    [op |-> o, user |-> user, fields |-> ok, checks |-> Checks[o],
     at |-> "handler", plan |-> <<>>]

\* For whom a call acts.
ActsFor(f) ==
    <<f.op, IF NeedsUser(f.op) THEN f.user
            ELSE IF f.op \in OfNamedUser THEN "named" ELSE "nobody">>

Callee(f, call) == Frame(call.op, IF call.appends THEN f.user ELSE "none", TRUE)

Top == stack[Len(stack)]
Below == SubSeq(stack, 1, Len(stack) - 1)
SetTop(f) == stack' = Append(Below, f)

Code == {"none", "OK", "DeadlineExceeded"}
          \cup {grpcCodeMapping[k] : k \in DOMAIN grpcCodeMapping}
Cause == DOMAIN grpcCodeMapping
           \cup {"none", "plain", "token", "rate", "fields", "panic", "timeout",
                 "lookup", "required"}

RequestTypeOK ==
    /\ entry \in Entry /\ op \in Op
    /\ token \in {"valid", "bad", "unchecked"} /\ fields \in BOOLEAN
    /\ phase \in {"arrived", "admitted", "called", "answered"}
    /\ Len(stack) <= 3
    /\ \A i \in DOMAIN stack :
         /\ stack[i].op \in Op
         /\ stack[i].user \in CallUser
         /\ stack[i].at \in {"handler", "service", "written"}
    /\ code \in Code
    /\ late \subseteq Op /\ effects \subseteq Op /\ acted \subseteq Op \X Who
    /\ blame \in Cause

RequestInit ==
    /\ entry \in Entry
    /\ op \in CASE entry = "gateway"   -> DOMAIN Proxied
                [] entry = "websocket" -> {"SendMessage", "SendTyping"}
                [] entry = "service"   -> DOMAIN Direct
    /\ token \in CASE entry = "gateway"   -> {"valid", "bad"}
                   [] entry = "websocket" -> {"valid"}    \* the connection's
                   [] entry = "service"   -> {"unchecked"}
    /\ fields \in BOOLEAN
    /\ phase = "arrived"
    /\ stack = <<>>
    /\ code = "none"
    /\ answer = "none"
    /\ late = {}
    /\ effects = {}
    /\ acted = {}
    /\ blame = "none"

-----------------------------------------------------------------------------
(* The ways in. *)
Answers(a, cause) ==
    /\ phase' = "answered"
    /\ answer' = a
    /\ blame' = cause

\* The JWT middleware behind the selector.
Authenticate ==
    /\ entry = "gateway" /\ phase = "arrived"
    /\ IF op \in WhiteList \/ token = "valid"
         THEN phase' = "admitted" /\ UNCHANGED <<answer, blame>>
         ELSE Answers(ErrorEncoder("Unauthenticated"), "token")
    /\ UNCHANGED <<request, stack, code, late, outcome>>

\* UserIDMiddleware: the claims are in the context only if the token was checked.
UserIDMiddleware == IF op \notin WhiteList /\ token = "valid" THEN "caller" ELSE "none"

ForwardHTTP ==
    /\ entry = "gateway" /\ phase = "admitted"
    /\ phase' = "called"
    /\ stack' = <<Frame(op, UserIDMiddleware, fields)>>
    /\ UNCHANGED <<request, code, answer, late, outcome, blame>>

\* ratelimit.Server refuses when the gateway is overloaded.
RateLimit ==
    /\ entry = "gateway" /\ phase = "admitted"
    /\ Answers(ErrorEncoder("ResourceExhausted"), "rate")
    /\ UNCHANGED <<request, stack, code, late, outcome>>

\* A connection of the realtime server is authenticated, but its calls carry no
\* user.  A payload that cannot be used is dropped without an answer; a
\* message.send without content is left to the message service.
handleClientMessage ==
    /\ entry = "websocket" /\ phase = "arrived"
    /\ \/ /\ phase' = "called"
          /\ stack' = <<Frame(op, "none", fields)>>
          /\ op = "SendTyping" => fields
          /\ UNCHANGED <<answer, blame>>
       \/ /\ ~fields
          /\ Answers("dropped", "fields")
          /\ UNCHANGED stack
    /\ UNCHANGED <<request, code, late, outcome>>

\* A client of the services that are not proxied may append a user or not.
CallDirectly(user) ==
    /\ entry = "service" /\ phase = "arrived"
    /\ phase' = "called"
    /\ stack' = <<Frame(op, user, fields)>>
    /\ UNCHANGED <<request, code, answer, late, outcome, blame>>

-----------------------------------------------------------------------------
(* A call in a service. *)
Running == phase = "called" /\ stack # <<>> /\ code = "none"

\* The top call ends with c; if it is the first, cause tells why.
Ends(c, cause) ==
    /\ stack' = Below
    /\ code' = c
    /\ blame' = IF Len(stack) = 1 THEN cause ELSE blame
    /\ UNCHANGED <<request, phase, answer, late>>

Check(what) == Running /\ Top.at = "handler" /\ Top.checks # <<>> /\ Head(Top.checks) = what
Passes ==
    /\ SetTop([Top EXCEPT !.checks = Tail(@)])
    /\ UNCHANGED <<request, phase, code, answer, late, outcome, blame>>

\* Mutant: the value is used without the check.
GetUserIDUnchecked == Check("user") /\ Passes

MustGetUserID ==
    /\ Check("user")
    /\ IF Top.user = "none" THEN Ends(Recovery, "panic") /\ UNCHANGED outcome ELSE Passes

RequireFields ==
    /\ Check("fields")
    /\ IF ~Top.fields THEN Ends(BadRequest, "fields") /\ UNCHANGED outcome ELSE Passes

EnterService ==
    /\ Running /\ Top.at = "handler" /\ Top.checks = <<>>
    /\ \E plan \in Plans(Top.op) : SetTop([Top EXCEPT !.at = "service", !.plan = plan])
    /\ UNCHANGED <<request, phase, code, answer, late, outcome, blame>>

InService == Running /\ Top.at # "handler"

\* The user is not handed on, unless the caller appends it.
CallService ==
    /\ InService /\ Top.plan # <<>> /\ Head(Top.plan) # Effect
    /\ stack' = Append(stack, Callee(Top, Head(Top.plan)))
    /\ UNCHANGED <<request, phase, code, answer, late, outcome, blame>>

TakesEffect ==
    /\ InService /\ Top.plan # <<>> /\ Head(Top.plan) = Effect
    /\ SetTop([Top EXCEPT !.at = "written", !.plan = Tail(@)])
    /\ effects' = effects \cup {Top.op}
    /\ acted' = acted \cup {ActsFor(Top)}
    /\ UNCHANGED <<request, phase, code, answer, late, blame>>

\* The services check before they write; what fails later is internal.
ServiceFails(kind) ==
    /\ InService
    /\ Top.at = "written" => kind \in {"internal", "plain"}
    /\ kind \in ErrorKinds(Top.op)
    /\ Ends(ConvertError(kind), kind)
    /\ UNCHANGED outcome

ServiceFinishes ==
    /\ InService /\ Top.plan = <<>>
    /\ Ends("OK", "none")
    /\ UNCHANGED outcome

\* The rows are written, then the publication panics.
PublishPanics ==
    /\ InService /\ Top.plan = <<>> /\ Top.op \in Publishes
    /\ Ends(Recovery, "panic")
    /\ UNCHANGED outcome

-----------------------------------------------------------------------------
(* Returns and deadlines. *)
Returned == phase = "called" /\ code # "none"

\* Mutant: the error of a required call is handed on as it is.
ReturnHandsOn ==
    /\ Returned /\ stack # <<>>
    /\ LET policy == Head(Top.plan).policy
           next   == [Top EXCEPT !.plan = Tail(@)] IN
       IF code = "OK" \/ policy = "bestEffort"
         THEN SetTop(next) /\ code' = "none" /\ UNCHANGED <<request, phase, answer, late, blame>>
         ELSE Ends(code, policy)
    /\ UNCHANGED outcome

\* The caller goes on, or ends with an error of its own.
ReturnToService ==
    /\ Returned /\ stack # <<>>
    /\ LET policy == Head(Top.plan).policy
           next   == [Top EXCEPT !.plan = Tail(@)] IN
       IF code = "OK" \/ policy = "bestEffort"
         THEN SetTop(next) /\ code' = "none" /\ UNCHANGED <<request, phase, answer, late, blame>>
         ELSE Ends(ConvertError(IF policy = "lookup" THEN "notFound" ELSE "internal"), policy)
    /\ UNCHANGED outcome

ReturnToGateway ==
    /\ Returned /\ stack = <<>> /\ entry = "gateway"
    /\ phase' = "answered"
    /\ answer' = IF code = "OK" THEN ResponseEncoder ELSE ErrorEncoder(code)
    /\ UNCHANGED <<request, stack, code, late, outcome, blame>>

\* handleSendMessage and handleSendTyping; a typing that succeeds has no answer.
ReturnToSocket ==
    /\ Returned /\ stack = <<>> /\ entry = "websocket"
    /\ phase' = "answered"
    /\ answer' = IF code # "OK" THEN "message.error"
                 ELSE IF op = "SendMessage" THEN "message.sent" ELSE "none"
    /\ UNCHANGED <<request, stack, code, late, outcome, blame>>

ReturnToClient ==
    /\ Returned /\ stack = <<>> /\ entry = "service"
    /\ phase' = "answered"
    /\ answer' = code
    /\ UNCHANGED <<request, stack, code, late, outcome, blame>>

\* A call can take effect if its remaining checks and those of the calls it
\* depends on are passed.
PassesChecks(f) ==
    \A k \in DOMAIN f.checks : IF f.checks[k] = "user" THEN f.user # "none" ELSE f.fields
CanTakeEffect(f) ==
    /\ PassesChecks(f)
    /\ \E plan \in IF f.at = "handler" THEN Plans(f.op) ELSE {f.plan} :
         \E n \in DOMAIN plan :
           /\ plan[n] = Effect
           /\ \A k \in 1..(n - 1) : PassesChecks(Callee(f, plan[k]))

\* Mutant: the calls of the gateway and the realtime server have no deadline.
TimeOutNested(i) ==
    /\ phase = "called" /\ i \in DOMAIN stack
    /\ i > 1
    /\ stack' = SubSeq(stack, 1, i - 1)
    /\ code' = "DeadlineExceeded"
    /\ UNCHANGED <<request, phase, answer, late, outcome, blame>>

\* Every client of a service has a deadline (the default of the gRPC client, or
\* that of the WebSocket handlers); only a direct client may wait for ever. The
\* calls above it go on without a caller.
TimeOut(i) ==
    /\ phase = "called" /\ i \in DOMAIN stack
    /\ i = 1 => entry # "service"
    /\ stack' = SubSeq(stack, 1, i - 1)
    /\ code' = "DeadlineExceeded"
    /\ blame' = IF i = 1 THEN "timeout" ELSE blame
    /\ LET goesOn == {k \in i..Len(stack) : CanTakeEffect(stack[k])} IN
       /\ late' = late \cup {stack[j].op : j \in goesOn}
       /\ acted' = acted \cup {ActsFor(stack[j]) : j \in goesOn}
    /\ UNCHANGED <<request, phase, answer, effects>>

LateEffect ==
    /\ late # {}
    /\ \E o \in late : late' = late \ {o} /\ effects' = effects \cup {o}
    /\ UNCHANGED <<request, phase, stack, code, answer, acted, blame>>

Servers ==
    \/ Authenticate \/ ForwardHTTP \/ handleClientMessage
    \/ ReturnToGateway \/ ReturnToSocket
    \/ \E i \in 1..3 : TimeOut(i)

RequestNext ==
    \/ Servers
    \/ RateLimit
    \/ \E user \in {"claimed", "none"} : CallDirectly(user)
    \/ MustGetUserID \/ RequireFields \/ EnterService
    \/ CallService \/ TakesEffect \/ ServiceFinishes \/ PublishPanics \/ ReturnToService
    \/ \E kind \in DOMAIN grpcCodeMapping \cup {"plain"} : ServiceFails(kind)
    \/ ReturnToClient
    \/ LateEffect

\* The gateway and the realtime server go on, and deadlines pass.  A service that
\* was called may hang.
RequestSpec == RequestInit /\ [][RequestNext]_requestVars /\ WF_requestVars(Servers)

-----------------------------------------------------------------------------
Refusal == {"400", "401", "403", "404", "409", "412", "429", "dropped"}
ServerFault == {"panic", "timeout", "internal", "plain", "required"}

\* What the client is told is true of the operation: success only if it took
\* effect; a refusal (4xx, or a dropped event) only if it did not and will not,
\* however late the calls that were given up go on; and a refusal is never a
\* server's fault, neither the called service's nor that of one it depends on.
\* (A failed lookup is reported as not found, whatever made it fail.)
AnswerTellsEffect ==
    /\ answer \in {"200", "message.sent", "OK"} => op \in effects
    /\ answer \in Refusal =>
         op \notin effects \cup late /\ blame \notin ServerFault

\* What takes effect for the user of the metadata, at once or after its caller
\* has given up, and also two calls deep although nothing hands the user on,
\* does so for the one whose token the gateway has checked; on a direct call,
\* which nobody authenticates, for the one the client claims to be.  A request
\* with a bad token has no effect beyond a whitelisted operation, and of these
\* only RefreshGroupQRCode acts in a user's name, the one the request names.
\* (Nothing is said of the other operations that name their user.)
ActsForCaller ==
    \A o \in Op, who \in Who : <<o, who>> \in acted =>
        /\ NeedsUser(o) => \/ who = "caller" /\ token = "valid"
                           \/ who = "claimed" /\ entry = "service"
        /\ token = "bad" =>
             /\ o \in WhiteList
             /\ who = IF o = "RefreshGroupQRCode" THEN "named" ELSE "nobody"

\* A client of the gateway or the realtime server is done with its request in
\* the end, even if a service hangs: deadlines bound every wait.
Answered == <>(phase = "answered" \/ entry = "service")

\* MustGetUserID is used only where the caller guarantees the metadata: no
\* handler of a request that the gateway has authenticated panics for want of
\* the user.
CallerGuaranteesUser ==
    Running /\ Top.at = "handler" /\ Top.checks # <<>> =>
        ~(Head(Top.checks) = "user" /\ Top.user = "none")
=============================================================================
