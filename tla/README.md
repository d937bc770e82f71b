# A TLA+ verification project for AnyChat

AnyChat is an instant-messaging backend: ten Go services over PostgreSQL, Redis,
NATS, MinIO and LiveKit. The services are stateless processes. What they know
is in database rows, Redis keys, in-memory maps of connections, and
notifications on their way. Almost every operation reads rows, decides, and
writes in a later statement, often without a transaction, while other calls of
the same or another service run beside it. That is what the modules here are
about: each models one piece of shared state with *every* operation that writes
it, statement by statement, and checks and proves what survives all
interleavings, failures and retries.

## 1. Inventory

| Part | State | Operations | Talks to | What is hard |
|---|---|---|---|---|
| **message: sending** (`app/message`) | `messages`, `conversation_sequences`, `message_send_idempotency` | `SendMessage`, `GetMessages`, `GetMessagesAfter`, `DeleteMessage` | RPC to conversation, friend and group for authorisation; NATS after the commit | retries of one key beside each other, row locks, failures in the middle of a transaction, a reader that pages while writers commit |
| **message: recall, deletion, expiry** | status and the three expiry columns of `messages` | `RecallMessage`, `DeleteMessage`, `AckReadTriggers`, the auto-delete worker | the clock, NATS, `UnpinGroupMessage` of group | read-check-write without a transaction, overlapping reports, against a background sweep and time |
| **message: read receipts** | `message_read_receipts.last_read_seq` | `MarkAsRead`, `MarkMessagesRead` | sends and removals of messages | several devices, maximum taken in the service |
| **group: members** (`app/group`) | `groups`, `group_members`, `group_settings`, `group_join_requests` | create, invite, join, scan, handle request, remove, quit, change role, transfer, disband, settings | notifications | checks outside the transactions, counters kept beside rows, four ways in |
| **group: pinned messages** | `group_pinned_messages` | `PinGroupMessage`, `UnpinGroupMessage` | snapshot RPC to message; recall calls back | limit checked long before the insert, cross-service clean-up |
| **friend** (`app/friend`) | `friendships` (two rows per pair), `friend_requests`, `blacklists` | `SendFriendRequest`, `HandleFriendRequest`, `DeleteFriend`, `AddToBlacklist`, `RemoveFromBlacklist` | settings of user; creates conversations | two rows in opposite lock orders, stale checks, soft deletion against a unique key |
| **realtime** (`app/realtime`) | registry of WebSocket clients, NATS subscriptions, `Send`/`Done` channels | connect, replace, disconnect, subscribe, unsubscribe, deliver | NATS, the clients | three goroutines per connection, two mutexes, full channels |
| **group: QR codes** | `group_qrcodes` | show (with renewal), refresh, preview | the clock | a renewal beside a revocation |
| **conversation** | conversation rows, unread counters | create or update, settings, unread, delete | NATS, the user's devices | order of events against order of writes, an upsert beside them |
| **user: accounts** | profiles, settings, contacts, `user_qrcodes` | register, update profile and settings, bind or change phone or email, refresh the code | – | whole-row saves of stale copies, two statements without a transaction |
| **user: sessions** | users, devices, sessions | register, login, refresh, logout, passwords, contact changes | Redis, NATS | same-type device kick, non-atomic upserts |
| **user: verification codes** | Redis hash, rate counters, records | `SendCode`, `VerifyCode` | SMS, mail | expiry, counters that are removed, double use |
| **rtc** | call sessions, meeting rooms | initiate, join, reject, end | LiveKit, NATS | whole-row writes after a stale status check |
| **file** | file rows, MinIO objects | upload token, complete, delete | MinIO, the uploading client | two stores without a common transaction, a row saved after it was deleted |
| **gateway**, `pkg/md`, `pkg/errors`, `pkg/grpc` | the request in progress | authenticate, forward, call, convert errors, answer | every service | who a nested call acts for, deadlines at each call of a chain, what an error becomes on its way |
| **push**, the rest of `pkg/*` | none of their own | translation | JPush, Redis, ... | – |

What makes the modelled parts correct, in one line each: a conversation is one
dense append-only log and a repeated send appends once; a message is swept no
later than its policies say and is really swept; a read position comes from a
message or from a client and what was settled is not lost; the number of members
is not overstated, and while verification is on one becomes a member only by an
accepted request; pins overrun their limit by a bounded amount; friendship is
symmetric; a user's connections, subscription and notifications stay consistent
while devices come and go; a change of credentials ends older sessions unless a
deletion fails or overlaps; a code is not accepted by a call that begins after
its deletion, and is guessed a bounded number of times; the row of a call tells
one story and its room is released; files have their objects and objects their
files, failures and overlaps apart; what a device shows of a conversation is what
is stored unless announcements overlap; an account loses writes only to
overlapping saves; a revoked group code stays revoked; what needs a user acts for
the user of the token, where there is one; and a client is always answered, with
something that is true.

Several of these have an exception in them. It is in the property as a history
variable (`spared`, `overlapped`, `LateWriter`, ...) and stands for a race or a
failure that the code does not guard against; section 3 describes each of them,
and the property says that nothing else leads there.

`PROJECT.json` lists every component, the line-by-line map, and the hazards,
each at the line where it bites.

## 2. Modules

| Module | Models |
|---|---|
| `ConversationLog` | abstract specification: one append-only log per conversation, one position per key, answers name that position |
| `MessageSend` | `SendMessage` with its transaction, locks, rollback, publication; the paging reader; refines `ConversationLog` |
| `MessageSendProofs` | proofs for `MessageSend` |
| `MessageLifecycle`, `MessageLifecycleProofs` | recall, deletion, burn-after-reading, the auto-delete worker |
| `ReadReceipt` | the read position of a user, moved by whatever clients send |
| `GroupMembership` | members, roles, owner, count, join requests, `join_verify` of one group |
| `PinnedMessage` | the pins of one group, with recall and deletion in the message service |
| `Friendship` | requests, friendships, blacklist, between users |
| `Realtime` | connections, subscription and notifications of one user |
| `UserSession`, `UserSessionProofs` | devices and sessions of one account: login, kick, refresh, logout, changes of password and contact |
| `VerificationCode`, `VerificationCodeProofs` | the codes of one target: the Redis hash, its audit rows, the rate counters |
| `RtcCall`, `RtcCallProofs` | calls, meetings and the LiveKit rooms behind them |
| `FileStore` | file rows and MinIO objects |
| `ConversationView` | the conversations of a user and what his devices show of them |
| `AccountRows` | profiles, settings, contacts and QR codes of accounts |
| `GroupQRCode` | the QR codes of one group |
| `RequestPath` | one request through gateway or realtime server, handlers, nested calls, and back |
| `StoreProofs` | the theorems about `FileStore`, `AccountRows`, `ConversationView`, `ReadReceipt` and `Friendship` |
| `GroupProofs` | the theorems about `GroupMembership`, `PinnedMessage` and `GroupQRCode` |
| `FrontendProofs` | the theorems about `Realtime` and `RequestPath` |
| `MCMessageSend`, `MCMessageLifecycle`, `MCGroupMembership`, `MCUserSession`, `MCVerificationCode` | small instances for TLC |
| `MCLifecycleScenes` | two instances of `MessageLifecycle`, in one run |
| `MCStores` | the six table modules whose calls read and write in separate steps, in one run |
| `MCLive` | `Realtime`, `RequestPath`, `Friendship` and `RtcCall`, in one run |

In every component module the variables come in groups: the tables (named after
the columns), then `pc` and what each call in flight has read so far, then
history variables, which no guard reads. Each database statement, RPC or
mutex-protected call is one action named after the Go function or repository
method; a Go function that runs several statements is several actions in the
order of the code, and its early returns are actions that end the call.

*What clients send.* `MarkAsRead` stores any `last_read_seq`, also one that no
message has yet, so `ReadReceipt` lets clients send any integer of `ClientSeq`.
`HandleJoinRequest` looks up the operator in the group the client names and works
on the group of the stored request, so `GroupMembership` has the call with the id
of its own group and with that of another (`Elsewhere`), in which the operator may
have any role. `device_type` comes with every login and is stored only when the
device is new, so in `UserSession` the type of a call, of its session and of its
device's row are three things. `RefreshGroupQRCode` is on the gateway's whitelist
and acts for the user the request names, and a direct call of a service, which
nobody authenticates, for the one its metadata claims; `RequestPath` records for
whom each operation takes effect (`acted`).

*Transactions.* `MessageSend` and `Friendship` model them statement by
statement: uncommitted writes are private, the rows written are locked until the
end, `INSERT ... ON CONFLICT` and unique keys wait for the other transaction as
PostgreSQL at READ COMMITTED does, and an abort releases everything.
`Friendship` also has PostgreSQL's deadlock detection. In `GroupMembership` a
transaction is one step. Every one of them begins by writing a row that
serialises it with the transactions it conflicts with, so the finer steps would
add waiting and nothing else; the checks *before* the transaction are separate
steps. So it is in `UserSession` for the transactions of `Register` and
`ResetPassword`. The other services run no transaction on the rows modelled.

*Redis.* In `VerificationCode` every command is a step. A key can expire between
any two of them; `HINCRBY` and `INCR` make a key again that is gone, then without
an expiry; `HSET` keeps the expiry of the code it replaces (`ttl`). The module is
the release build: elsewhere `VerifyCode` accepts a fixed code when there is none.

*Whole-row saves.* gorm's `Save` writes every column of the row a call has read,
and inserts the row again if it was deleted. `UserSession` and `RtcCall` keep the
row each call has read for that reason.

*The request path.* `RequestPath` has every handler of every service as the
sequence of its checks (the user from the metadata, the fields of the request),
the operations the proxies forward, the whitelist, and for each operation the
calls it makes and what a failure of each becomes. `stack` is the chain of calls
in progress. A deadline may pass at any level; what is above it goes on without
a caller (`late`) and may still take effect. What a service does with a request
is only `TakesEffect` here; the other modules say what that is.

*Other services.* In the other modules an answer of an RPC is any answer it can give, failure
included. This covers authorisation of a send, friend settings, the unpin request of
a recall, and the creation of conversations.

*Clock.* `MessageLifecycle` has a clock that advances at any time; durations are
small numbers. `Realtime` needs none: a ping that fails and a pong that does not
come are a `Disconnect`.

*Channels.* The `Send` channel holds 256 messages and is shared with answers to
the client, so `Push` may find it full at any time; both outcomes are explored.

*Mutants.* Each component module defines, just before some of its actions, a
variant with a plausible mistake. They are not part of `Next`. Substituting one
for the original must violate the property named beside it in `PROJECT.json`,
which shows that the property depends on that part of the code.

## 3. Runs

Deadlock checking is off where all calls have been made and nothing more need
happen (stores, group, live, session, code, and the violations of `Realtime`,
`RequestPath` and `GroupMembership`); in the other runs the clock or the reader
can always move. Components that share no state share a run: the behaviour chooses
at its start which of them it exercises, so the run is the union of theirs.

| Run | Instance | Distinct states | What it shows |
|---|---|---|---|
| `send` | 2 handlers, 2 keys of one conversation, 2 calls per key, 1 error | 216 000 | `SequencesDense`, `OneMessagePerKey`, `RepliesAgree`, `ReaderMissesNothing`; the log refinement `LogSpec`; `CallsEnd` |
| `lifecycle` | worker and clock up to 2; either 2 messages (one with both policies, one that only burns) and 1 call in flight at a time, or 1 message of either kind, 2 overlapping calls and 1 error of the worker | 349 000 | `ExpireIsEarliest`, `DeadlineKept`; `ExpiredIsRemoved`, `SweepEnds` |
| `stores` | receipts: 2 overlapping calls, 3 in all, 2 messages, positions below, of and beyond them; pins: limit 1, 3 messages, 2 overlapping calls, 3 in all; files: 2 files, 2 users, 2 overlapping calls, 3 in all; conversations: 1 target, 2 ids, 2 overlapping calls, 3 in all, one column set to 1; accounts: 2 users, 2 values, 3 codes of which one expires, 2 overlapping calls; group codes: 3 codes, 2 overlapping calls, 4 in all | 229 000 | `PositionJustified`, `SettledKept`, `BoundedOverrun`, `RowMatchesObject`, `ViewAgrees`, `WritesKept`, `ShownCodeResolves`, `RefreshRevokes` |
| `group` | creator and 2 users, limit 3, 2 overlapping calls, 3 in all | 1 205 000 | `CountNotAbove`, `AdmittedByRequest` |
| `live` | 2 connections, 2 devices, 1 notification; one request for any operation, by any way in, with and without token and fields, up to 3 calls deep; 2 users, 3 friend requests, 2 overlapping calls, 3 in all, 1 error; 1 call or 1 meeting, 3 overlapping requests, 4 in all, 1 error | 165 000 | `DoneClosedOnce`, `NotEvicted`, `NoLeakedSubscription`, `AtMostOnce`, `NoSilentLoss`; `AnswerTellsEffect`, `ActsForCaller`; `Symmetric`, `AcceptedWereFriends`; `RowConsistent`, `OverAnnounced`, `OverStaysOver`; and `ReplacedEnds`, `Answered`, `CallsEnd`, `RoomReleased` |
| `session` | 3 devices, 2 types, 3 overlapping calls, 1 error | 649 000 | `RevocationComplete`, `KickComplete` |
| `code` | 2 `SendCode` calls, 2 overlapping `VerifyCode` calls, 3 in all, one counter of limit 1, one attempt, 1 error | 1 581 000 | `GuessesBounded`, `ClosedNotAccepted` |
| `send_publish` | a single chat | – | violates `CommittedCallIsAnswered` |
| `lifecycle_deadline` | 1 message, 2 overlapping reports | – | violates `DeadlineNeverLater` |
| `group_vetting` | as `group` | – | violates `MembersVetted` |
| `realtime_offline` | 2 connections | – | violates `UnsubscribedOnlyOffline` |
| `request_user` | one request through the gateway | – | violates `CallerGuaranteesUser` |

Each module states one type invariant (`TypeOK`, `FileTypeOK`, `RequestTypeOK`,
...). All of them are proved (section 5), and the runs spend their time on the
properties above.

### Why the bounds are enough

The hazards are races between *two* actors and one failure: two handlers with
the same key and with different keys of one conversation (the two rows a send
locks); two devices' reports; two administrators; two users locking the rows of
one friendship in opposite orders; a connection and the one that replaces it.
Each instance has at least two of each, one more call than that where a call may
follow the race (the accounts have two), and one error that may hit any step
where errors are counted. In `stores` the limit of pins is 1 so that two calls
suffice to overrun it. In `lifecycle` the clock reaches the auto-delete deadline
and the burn deadline. In its first scene one call at a time and the worker meet
two messages; in the second the worker may fail and two calls overlap on one
message, so that a report writes what it computed from a row that another
report, a recall or a deletion has changed since, with the clock moving between
their deadlines. Messages share no row, so overlapping calls on two of them add
nothing. In `stores` clients send positions below the first message, of each
message and beyond the last. In `live` two connections already give replacement
on one device and two devices side by side. In `session` the third call is the
login or refresh that overlaps the deletion of another call, while a kick and a
change of password overlap as well; with two types a device can log in under the
type of its row or under the other one. In `code` one attempt and two
overlapping calls make three guesses enough to see a lock that comes too late; a
second counter would only repeat the first. In `live` the fourth request for a
call follows a race of three; connections, and the ids of friend requests, are
taken in order, since their names mean nothing (`InOrder`). Of the tables in
`stores`, files need a completion and a deletion that overlap and one call after
them; conversations a second id, for a conversation that is deleted and created
again (no column is read to set another, so one of them is enough); accounts a
code for each user and the one that replaces it; group codes the one that is
renewed while it is revoked, the one that replaces it and one more. A request in
`live` needs no second one: it shares no state with others on its way, and the
chain of calls is bounded by the code (`SetGroupMute` calls `SendMessage`, which
calls `GetConversation`; `RequestTypeCorrect` proves that three is the most).
The theorems of section 5 drop the bounds altogether for every invariant of the
runs.

### What the violations show

* **`send_publish`.** `NewMessageService` takes a broker and never stores it.
  The first publication after the commit dereferences nil, the recovery
  middleware turns the panic into an error, and the client is told that a
  message failed which is stored and sequenced (a repeated call then gets the
  stored message). `docs/design/message/send.md` shows publication followed by
  the response.
* **`lifecycle_deadline`.** `AckReadTriggers` compares its deadline with the row
  it has read and updates without repeating the comparison
  (`message_service.go:900`). Of two overlapping reports the one that began later
  may write last, and the sweep date moves to a later time, although
  `burn_after_reading.md:97-98` says that it only moves to an earlier one and that
  concurrency does no harm. What still holds, and is proved, is `DeadlineKept`
  (reports that overlap never postpone a date that was there before them) and
  `ExpireIsEarliest` (the sweep date agrees with the deadlines in the row). If the
  date that is written over has passed, the message stays until the later one: `ExpiredIsRemoved` says that a message does not stay overdue, either
  because a sweep takes it away or because such a report postponed it.
* **`group_vetting`.** `HandleJoinRequest` checks the operator's role in the group
  of the request message and adds the member to the group of the stored join
  request, and does not compare the two (`group_service.go:982-1037`). The comment
  "Permission check: owner and admin can handle" and `group.md:257` mean the
  owner and administrators of the group that gets the member. What still holds,
  and is proved, is `AdmittedByRequest`: while verification is on nobody comes in
  without a join request that somebody accepted.
* **`realtime_offline`.** `HandleWebSocket` asks `IsOnline` and then calls
  `UnsubscribeUser`. A connection that registers in between stays up without a
  subscription until the user reconnects.
* **`request_user`.** Only the gateway and `sendGroupSystemMessage` append
  `x-user-id` to a call. A service that calls another (`GetFriendList` calls
  `GetUserInfo`, every conversation-bound operation of the message service calls
  `GetConversation`) does not, and kratos' metadata middleware is not on the
  services' side. The handler it calls begins with `MustGetUserID`, which
  "Panics if the user_id is missing. Use only when the caller guarantees the
  metadata is present" (`pkg/md/md.go:37`). `ActsForCaller` is the other side of
  it: the panic keeps a service from acting for nobody.

### Seen in the models, without a run

These follow from the same modules; the code does not keep what the document
says, and no passing property depends on them.

* `MarkAsRead` stores any `last_read_seq` (`message_service.go:699-722`), so a
  position can be ahead of the last message, and later messages count as read.
  `PositionJustified` states that this takes a client that sends it.
* `MarkAsRead` takes the maximum in the service and upserts unconditionally
  (`message_service.go:708`): `last_read_seq` can go back, although
  `read-receipt.md:201` says it only advances. What still holds, and is proved, is
  `SettledKept`: overlapping calls can undo each other, never what was there
  before they overlapped.
* Two overlapping friend requests are both stored: `request.md:279` relies on a
  unique constraint that the migrations do not create.
* Two overlapping logins with devices of one type both stay logged in
  (`device.md:89` allows one): each kicks the devices it finds and inserts its own
  session later. `KickComplete` states when that can happen. It is about devices
  that log in under the type of their rows: a device that names another type than
  at its first login is not found by the kick of that type, and two such devices
  stay logged in without any overlap.
* `RefreshToken` saves the row it has read (`user_service.go:449`), which inserts
  a session again that a logout or a change of password has deleted meanwhile;
  `RevocationComplete` states that nothing but such an overlap, or a failed
  deletion, does so. Access tokens themselves live until they expire: the gateway
  never looks at the sessions (`token.md:102` says a logout invalidates them).
* `ResetPassword` consumes the code before its transaction, which can fail,
  although the comment at `user_service.go:488-490` says the update is guaranteed.
* Two overlapping `VerifyCode` calls both accept one code
  (`verification-code.md:173` calls it single-use). `ClosedNotAccepted` states what
  is left.
* The call over a rate limit deletes the counter, so that the next call begins a
  new window at once (`verification-code.md:162` allows one code a minute); and a
  counter that expires between `SetNX` and `Incr` comes back without an expiry,
  although the comment at `verification_manager.go:409` says it is incremented
  atomically with one.
* A `JoinCall` that overlaps the caller's `EndCall` makes a cancelled call
  connected, in a room that is being deleted; if the save of `EndCall` fails the
  call rings on after both sides were told that it ended. `CallStatusMissed` is
  never assigned.

* The consequences of `request_user`: `authorizeSend` reports the failed lookup
  as "conversation not found", so a send through the gateway answers 404; the
  unpin after a recall always fails and is only logged. `AnswerTellsEffect`
  therefore does not count a lookup among the server's faults that a refusal must
  not hide: it is reported as not found whatever made it fail.
* `ConvertError` appends the business code to a context that is thrown away
  (`pkg/errors/grpc.go:193`), so no business code reaches the gateway: the HTTP
  status comes from the gRPC code and the body says `CodeInternalError`.
* `CompleteUpload` saves the row it has read, which brings back a file deleted
  meanwhile (`file_service.go:126`); a client may upload again while its URL
  lives, after the row is gone. `RowMatchesObject` states that nothing else
  separates rows and objects, failures apart.
* `UpdateProfile` and `UpdateSettings` save the whole row, so one of two
  overlapping calls is lost (`WritesKept`), and an `UpdateProfile` beside
  `RefreshQRCode` brings the old code's URL back (`ShownCodeResolves`: it still
  resolves). The settings of a conversation are announced after they are written,
  and two devices may end with the older value (`ViewAgrees`).
* Two overlapping `GetGroupQRCode` calls create two active codes; the newest is
  shown, and both lead to the group until a refresh.
* A recall overwrites the status of a message deleted or swept since it was
  read (`recall.md:47` wants such recalls refused): `RecallCheck`, then
  `UpdateStatus`.
* A recalled message can be pinned, and a recall whose unpin RPC fails leaves
  the pin (`pinned-message.md:68-69`): `Snapshot`, `AutoUnpinFails`.
* Two overlapping pins exceed the limit of `pinned-message.md:50`; by how much
  is bounded (`BoundedOverrun`).
* `member_count` falls below the number of members when one member is removed
  twice at the same time: `RemoveMemberTx` decrements whatever it deleted.
* A group can pass `max_members`: `JoinGroup` and `HandleJoinRequest` never look.
* A transfer of ownership to somebody who leaves meanwhile leaves no owner;
  `UpdateMemberRole` can make a second owner.
* After a friendship was deleted its rows stay, and the unique key refuses every
  new friendship of the two users: `Duplicate`.
* A request that was pending when one user blocked the other can be accepted.
* Accepting a request by hand creates no conversation (`request.md:156`); only
  the automatic acceptance does.

## 4. Fairness

Safety needs none. The liveness properties assume weak fairness of code that the
Go runtime or PostgreSQL schedules, and nothing of clients, peers or errors:

* `MessageSend`, `Friendship`: `WF(Work(h))` per handler. A goroutine that can
  run does run, a free row lock is granted, a deadlock is detected.
* `MessageLifecycle`: `WF(WorkerStart)` and `WF(Sweep)` (also in the scenes of
  `MCLifecycleScenes`). The ticker fires and a
  sweep goes on; errors of the database are bounded by `MaxErrors`.
* `RtcCall`: `WF(Serve(h))` per handler and `WF(DeleteRoom(i))`: a request and a
  started goroutine go on, with a timeout of five seconds on LiveKit. Nobody need
  make a request, and LiveKit need not close a room by itself.
* `RequestPath`: `WF(Servers)`: the gateway and the realtime server go on and
  deadlines pass (kratos' gRPC client has a default, the WebSocket handlers set
  their own). The services themselves may hang for ever.
* `Realtime`: `WF` of each handler, `WritePump` and callback. The ping ticker
  fires, a read from a closed socket fails, a callback returns.

`MCLive` assumes each of these for the component that a behaviour exercises.

## 5. Theorems

Every invariant that a run checks, every module's type invariant,
`BurnNeedsRecipient` (which no run repeats), the action property `OverStaysOver`
and the refinement `LogSpec` are proved. The proofs hold for every value of the
constants that satisfies the named `ASSUME` of the module: disjointness of the
null values, types of the constants, and for the two properties that count calls
(`BoundedOverrun`, `GuessesBounded`) that the calls which run at the same time
are finitely many, as the goroutines of a server are.

**`MessageSendProofs`.** `TypeCorrect`, `SequencesAreDense`, `OneMessage`,
`RepliesCorrect`, `ReaderCorrect`, `RowsAreThere`, and `ImplementsLog`: *Spec =>
LogSpec*. None of these is inductive alone. `SendInv` adds `LockDiscipline` (a
lock belongs to a transaction that is past the statement that takes it, and the
statements that rely on one have it), `HandlerKnows` (what a handler has read
under a lock is still so: the key is unbound, its number is `current_seq + 1`),
`TablesAgree` (idempotency rows and messages name each other) and
`CursorBehind`. The argument: only the commit writes tables; at that moment both
locks are held, so what the handler knows is true of the tables it extends. The
refinement follows: a commit is `LogAppend`, a reply is `LogAck`, everything
else stutters.

**`MessageLifecycleProofs`.** `TypeCorrect`, `ExpiryCorrect`,
`DeadlineCorrect`, `BurnCorrect`. `ExpiryInv` adds
that a burn deadline in the row is at most the present time plus the burn
duration, and that the snapshot of a report in flight has the shape of a row
that was consistent. Whatever the overlap, the report that writes computes a
deadline at least as late as the one it has read, and its sweep date is the
earlier of that and the auto-delete deadline. `DueInv` says that the sweep date
which a report has read, and will only replace by an earlier one, is no later than
the one observed before any report was under way. `BurnInv` says that the burn
deadlines `AckReadTriggers` has yet to write are about messages that a recipient
has reported; reports are never taken back.

**`FrontendProofs`**, about `Realtime`: `RealtimeTypeCorrect`, `DoneCorrect`,
`EvictionCorrect`, `LeakCorrect`, `AtMostOnceCorrect`, `NoSilentLossCorrect`.
`RegistryInv` ties the registry to the handlers in both directions: whoever is
registered is there under his own device, is not replaced and has not
unregistered, and whoever is neither replaced nor unregistered is registered.
`SubscriptionInv`: while the user is subscribed some handler has not ended.
`OnceInv` follows a notification: it waits in one subscription only and once,
and as long as it waits nobody has it, except clients that its own callback has
already served; so `Push` gives it to a client that has never had it. `LossInv`
says for each notification owed to a client that it waits, is being handled with
the client among the targets, was given to him, was dropped, or he or the
subscription has gone; `OwedInv`, that neither of these comes back once it has
gone.

About `RequestPath`: `RequestTypeCorrect`, `ActsCorrect`, `AnswersCorrect`. First
the tables: `HandlerTables` (every handler has a list of checks, every called
operation a handler) and `PlansInOrder` (each plan has one effect, looks nothing up
after it, and calls only operations of a smaller `Depth`). `PathInv` says of each
call in progress that it acts for the caller only with a valid token, that a
handler that needs a user has one or has yet to check (`Vetted`), that what is
left of its plan lies before its effect or behind it, that all but the topmost
wait, and that depths fall along the stack, so a nested call is never for the
operation of the request itself. `EffectInv` then reads off the first call whether
the operation has taken effect, and from the code of a request whose calls have
all ended what can be said to the client. `ActedInv` follows what takes effect, at
once or late, and for whom: a request with a bad token is admitted only if it is
whitelisted (`Admitted`), whitelisted operations call no others (`BadToken`), and
whoever needs the user has passed `MustGetUserID` with the one of the token or,
on a direct call, the one it claims.

**`UserSessionProofs`.** `TypeCorrect`, `DevicesKnown`, `RevocationCorrect`,
`KickCorrect`.
`DeviceInv` says of a login past the creation of its device, and of a refresh,
that the device has its row; devices are never removed. `RevokeInv` says of an
older session that its device is in `spared` or is still on the list of a call
that will delete it (`Pending`), and the same of the session that a call in
flight will write. `KickInv` says of two devices that have sessions under the type
of their rows, or whose sessions are about to be written under it (`Present`),
that one is spared or is still on the list of the other's login. A device without
a row counts under every type that a call in flight names for it, until the row
is created and decides.

**`RtcCallProofs`.** `TypeCorrect`, `RowCorrect`, `OverCorrect`,
`OverAnnouncedCorrect`. The row each
handler has read is itself consistent and has the status its request requires, so
whatever it makes of that row is consistent, whoever wrote in between.
`OverCorrect` is an action property: a writer that could undo the end of a call
has read the row before the end, and then it is a `LateWriter`. `AnnounceInv`: a
call that is over has been announced, or a handler is about to.

**`VerificationCodeProofs`.** `TypeCorrect`, `ClosedCorrect`, `GuessesCorrect`. `CodeInv`: a code
that its `SendCode` call has yet to write is neither in the hash, nor closed, nor
read by anyone; and, unless a deletion of the hash has failed, the hash holds no
closed code and no call has read a code that was closed when the call began. The
first part is what makes the second inductive: `HSet` can only bring in a code
that was never closed. `Frame` says once what the other steps may do. `BoundInv`
counts: a wrong comparison with the code in the hash is in its counter, about to
be counted or paid for with an error; the counter passes `MaxAttempts - 1` only by
calls that are about to delete the hash; and a call is not in both sets, so
together they are at most all calls.

**`StoreProofs`.** About five modules whose calls read and write a table in
separate steps; each strengthening says what a call between two steps relies on.

* `FileTypeCorrect`, `RowsMatch` (`FileStore`). A call that has seen the object,
  or has removed it, will write the row later: its file has its object or is
  excused, and an object whose row is being deleted is left over.
* `AccTypeCorrect`, `UpdatesKept`, `CodesResolve` (`AccountRows`). `AccInv`: the copy that a call
  holds agrees with the row in the columns of its table, or the row is overlapped
  (`CopiesAgree`); every code shown, copied or about to be shown is one of that
  user (`OwnCodes`), since codes are never taken over; and a call is about a
  registered user (`AccCallInv`), so registration disturbs none. `WriteStep` proves
  once what the three writers have in common.
* `ConvTypeCorrect`, `ViewsAgree` (`ConversationView`). `ConvInv`: what a call is about to announce is
  what the row holds unless another call overlapped it (`Announces`), and an id
  not drawn yet has no row, so no announcement for a deleted row reaches a new one.
* `ReceiptTypeCorrect`, `PositionCorrect`, `SettledCorrect` (`ReadReceipt`), for
  any integers as `last_read_seq`. `WriterInv` says of a call that the position it
  asks for and the one it is about to write are sequences in use or were sent by a
  client, and that the latter is at least the settled position, which is not moved
  while there is such a call.
* `FriendTypeCorrect`, `SymmetricCorrect`, `AcceptedCorrect` (`Friendship`).
  `FriendInv`: a call that commits a friendship, or its end, holds both rows or
  neither (`LocksOK`), a call that decides a request works on the pair of its row,
  and one that creates a request is the only one that knows of it (`RequestOK`).
  Only the holder writes a row, and it writes both in one commit.

**`GroupProofs`.** About one group.

* `GroupTypeCorrect`, `CountCorrect`, `AdmittedCorrect` (`GroupMembership`).
  `GroupInv`: a call keeps to the route of its operation and knows its user and its
  request. The count is raised only by the number of rows a transaction inserts
  and lowered at least by those it deletes. `AdmitInv`: as long as verification
  has been on, no call has seen it off and none is about to add a member without a
  request.
* `PinTypeCorrect`, `OverrunBounded` (`PinnedMessage`). The pins, and the messages
  of the calls past the check, together exceed the limit by less than the number
  of calls: a call that passes the check finds fewer pins than the limit, and the
  calls in flight at that moment are at most all calls.
* `QRTypeCorrect`, `RevokedStaysRevoked` (`GroupQRCode`). `QRInv`: the active and the revoked codes
  are created codes and disjoint. A code becomes active only as it is created, and
  a renewal of a code read earlier writes its expiry and not `is_active`.

**Only model-checked:** liveness (`CallsEnd`, `ExpiredIsRemoved`, `SweepEnds`,
`ReplacedEnds`, `RoomReleased`, `Answered`), which is out of this prover's reach.

## 6. Not modelled

* What listings, searches and getters return (their handlers and calls are in
  `RequestPath`), and formatting of any kind.
* Single-column updates that nothing else depends on: remarks, nicknames,
  muting, push tokens, the profile of a group.
* Typing indicators beyond their request: two Redis keys that expire by
  themselves.
* Push: a translation of notifications into JPush calls.
* Start and stop of the processes. `AutoDeleteWorker.Stop` closes its channel
  without a guard (`auto_delete_worker.go:59`), and who calls it twice is decided
  by kratos and wire.
* Redis, JWT, MinIO and JPush wrappers, configuration, logging, tracing,
  generated code and build scripts.

Message contents, payloads and notification types are abstracted to identities.

## 7. What is left to prove

The invariants of the runs are proved. Left are facts that are stated in prose
here and could be theorems: that the calls beyond the ones modelled in one step
(the transactions of `GroupMembership`) refine the steps of a finer module, and
the safety half of the liveness properties (for `RoomReleased`: a room that is not
gone has a goroutine that will delete it; for `ReplacedEnds`: a replaced connection
has a writer that can stop or has stopped).
