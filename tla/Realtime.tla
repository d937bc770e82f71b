------------------------------ MODULE Realtime ------------------------------
(***************************************************************************)
(* The WebSocket connections of one user: the registry of the connection   *)
(* manager, the NATS subscription of the user, and the way of his          *)
(* notifications to his devices.                                           *)
(*                                                                         *)
(* Each connection has a handler goroutine (HandleWebSocket, which runs    *)
(* ReadPump) and a WritePump; each subscription has a callback goroutine   *)
(* of the NATS client.  The manager and the subscriber have a mutex each,  *)
(* held for one call: every call is one step, and between the calls of a   *)
(* handler everybody else may move.                                        *)
(***************************************************************************)
EXTENDS Naturals, Sequences, FiniteSets, Functions

CONSTANTS Conn,       \* connections, one per successful upgrade
          Device, NoConn, NoDevice,
          MaxNotif    \* bound: how many notifications are published

ASSUME RealtimeAssumption ==
    /\ NoConn \notin Conn
    /\ NoDevice \notin Device
    /\ MaxNotif \in Nat

VARIABLES
    pc,        \* where the handler of each connection is
    writer,    \* its WritePump
    device,    \* device_id in the token of each connection
    closed,    \* connections whose socket is closed
    clients,   \* the registry: the connection of each device
    done,      \* how often the channel Done of a connection was closed
    subs,      \* the subscription in subs[userID], or NoConn; a subscription
               \* is named after the connection that made it
    live,      \* subscriptions NATS knows
    queue,     \* messages waiting for the callback of each subscription
    cb,        \* the callback of each subscription
    msg,       \* the notification it handles; 0: none
    targets,   \* the clients it still has to send it to
    send,      \* the channel Send of each connection
    written,   \* what WritePump has written to each connection
    \* history
    published, \* notifications published so far, numbered 1, 2, ...
    owed,      \* <<n, c, s>>: c was registered when subscription s got n
    dropped    \* <<n, c>>: Send of c was full

registry == <<device, clients, done>>
broker   == <<subs, live, queue>>
callback == <<cb, msg, targets>>
history  == <<published, owed, dropped>>
vars == <<pc, writer, device, closed, clients, done, subs, live, queue, cb, msg,
          targets, send, written, published, owed, dropped>>

Notif == 1..MaxNotif
PC == {"new", "subscribe", "read", "unregister", "isOnline", "unsubscribe", "end"}

\* The handler has registered its connection and not yet finished.
Active == {c \in Conn : pc[c] \notin {"new", "end"}}
Online == {c \in Conn : \E d \in Device : clients[d] = c}

TypeOK ==
    /\ pc \in [Conn -> PC]
    /\ writer \in [Conn -> {"off", "running", "stopped"}]
    /\ device \in [Conn -> Device \cup {NoDevice}]
    /\ closed \subseteq Conn
    /\ clients \in [Device -> Conn \cup {NoConn}]
    /\ done \in [Conn -> Nat]
    /\ subs \in Conn \cup {NoConn}
    /\ live \subseteq Conn
    /\ queue \in [Conn -> Seq(Notif)]
    /\ cb \in [Conn -> {"idle", "start", "push"}]
    /\ msg \in [Conn -> Notif \cup {0}]
    /\ targets \in [Conn -> SUBSET Conn]
    /\ send \in [Conn -> Seq(Notif)]
    /\ written \in [Conn -> Seq(Notif)]
    /\ published \in Notif \cup {0}
    /\ owed \subseteq Notif \X Conn \X Conn
    /\ dropped \subseteq Notif \X Conn
    /\ \A s \in Conn : cb[s] # "idle" => msg[s] \in Notif
    /\ \A d \in Device : clients[d] # NoConn => device[clients[d]] = d
    /\ \A c \in Conn : pc[c] # "new" => device[c] \in Device

Init ==
    /\ pc = [c \in Conn |-> "new"]
    /\ writer = [c \in Conn |-> "off"]
    /\ device = [c \in Conn |-> NoDevice]
    /\ closed = {}
    /\ clients = [d \in Device |-> NoConn]
    /\ done = [c \in Conn |-> 0]
    /\ subs = NoConn
    /\ live = {}
    /\ queue = [c \in Conn |-> <<>>]
    /\ cb = [c \in Conn |-> "idle"]
    /\ msg = [c \in Conn |-> 0]
    /\ targets = [c \in Conn |-> {}]
    /\ send = [c \in Conn |-> <<>>]
    /\ written = [c \in Conn |-> <<>>]
    /\ published = 0
    /\ owed = {}
    /\ dropped = {}

-----------------------------------------------------------------------------
Goto(c, from, to) == pc[c] = from /\ pc' = [pc EXCEPT ![c] = to]

\* Register: a connection of the same device is replaced and told so.
Register(c, d) ==
    /\ Goto(c, "new", "subscribe")
    /\ device' = [device EXCEPT ![c] = d]
    /\ clients' = [clients EXCEPT ![d] = c]
    /\ done' = [x \in Conn |-> IF x = clients[d] THEN done[x] + 1 ELSE done[x]]
    /\ UNCHANGED <<writer, closed, broker, callback, send, written, history>>

\* Mutant: SubscribeUser does not look for a subscription.
SubscribeAgain(c) ==
    /\ Goto(c, "subscribe", "read")
    /\ writer' = [writer EXCEPT ![c] = "running"]
    /\ subs' = c
    /\ live' = live \cup {c}
    /\ UNCHANGED <<closed, registry, queue, callback, send, written, history>>

\* SubscribeUser does nothing if the user is subscribed.  Then WritePump starts.
SubscribeUser(c) ==
    /\ Goto(c, "subscribe", "read")
    /\ writer' = [writer EXCEPT ![c] = "running"]
    /\ subs' = IF subs = NoConn THEN c ELSE subs
    /\ live' = IF subs = NoConn THEN live \cup {c} ELSE live
    /\ UNCHANGED <<closed, registry, queue, callback, send, written, history>>

\* An error of the broker is logged, and the connection goes on without.
SubscribeFails(c) ==
    /\ Goto(c, "subscribe", "read")
    /\ subs = NoConn
    /\ writer' = [writer EXCEPT ![c] = "running"]
    /\ UNCHANGED <<closed, registry, broker, callback, send, written, history>>

\* The peer goes away, the network fails or no pong comes in time.
Disconnect(c) ==
    /\ pc[c] \in {"subscribe", "read"}
    /\ c \notin closed
    /\ closed' = closed \cup {c}
    /\ UNCHANGED <<pc, writer, registry, broker, callback, send, written, history>>

\* ReadMessage fails on a closed socket, and ReadPump leaves its loop.
ReadFails(c) ==
    /\ Goto(c, "read", "unregister")
    /\ c \in closed
    /\ UNCHANGED <<writer, closed, registry, broker, callback, send, written,
                   history>>

\* Mutant: Unregister does not look whose entry it is.
UnregisterAny(c) ==
    /\ Goto(c, "unregister", "isOnline")
    /\ clients' = [clients EXCEPT ![device[c]] = NoConn]
    /\ UNCHANGED <<writer, device, closed, done, broker, callback, send, written, history>>

\* Mutant: Unregister closes Done.
UnregisterCloses(c) ==
    /\ Goto(c, "unregister", "isOnline")
    /\ clients' = [clients EXCEPT ![device[c]] = IF @ = c THEN NoConn ELSE @]
    /\ done' = [done EXCEPT ![c] = @ + 1]
    /\ UNCHANGED <<writer, device, closed, broker, callback, send, written, history>>

\* Unregister removes the entry if it is still the one of this connection.
Unregister(c) ==
    /\ Goto(c, "unregister", "isOnline")
    /\ clients' = [clients EXCEPT ![device[c]] = IF @ = c THEN NoConn ELSE @]
    /\ UNCHANGED <<writer, device, closed, done, broker, callback, send, written, history>>

\* IsOnline: the last one out unsubscribes the user ...
IsOnline(c) ==
    /\ Goto(c, "isOnline", IF Online = {} THEN "unsubscribe" ELSE "end")
    /\ UNCHANGED <<writer, closed, registry, broker, callback, send, written,
                   history>>

\* ... in another step, UnsubscribeUser.  NATS forgets what was waiting; a
\* callback that runs is not stopped.  Unsubscribe fails, which is logged, only
\* on a subscription or a connection that is closed and delivers nothing.
UnsubscribeUser(c) ==
    /\ Goto(c, "unsubscribe", "end")
    /\ live' = live \ {subs}
    /\ subs' = NoConn
    /\ queue' = [s \in Conn |-> IF s = subs THEN <<>> ELSE queue[s]]
    /\ UNCHANGED <<writer, closed, registry, callback, send, written, history>>

-----------------------------------------------------------------------------
\* Some service publishes a notification for the user (PublishToUser).
PublishToUser ==
    LET n == published + 1 IN
    /\ published < MaxNotif
    /\ published' = n
    /\ queue' = [s \in Conn |->
                    IF s \in live THEN Append(queue[s], n) ELSE queue[s]]
    /\ owed' = owed \cup {<<n, c, s>> : c \in Online, s \in live}
    /\ UNCHANGED <<pc, writer, closed, registry, subs, live, callback, send,
                   written, dropped>>

\* The callback of subscription s takes the next message (handleNotification),
Receive(s) ==
    /\ cb[s] = "idle"
    /\ queue[s] # <<>>
    /\ cb' = [cb EXCEPT ![s] = "start"]
    /\ msg' = [msg EXCEPT ![s] = Head(queue[s])]
    /\ queue' = [queue EXCEPT ![s] = Tail(@)]
    /\ UNCHANGED <<pc, writer, closed, registry, subs, live, targets, send,
                   written, history>>

\* SendToUser copies the clients of the user while it has the lock,
Snapshot(s) ==
    /\ cb[s] = "start"
    /\ cb' = [cb EXCEPT ![s] = "push"]
    /\ targets' = [targets EXCEPT ![s] = Online]
    /\ UNCHANGED <<pc, writer, closed, registry, broker, msg, send, written,
                   history>>

Enqueue(s, c) ==
    /\ send' = [send EXCEPT ![c] = Append(@, msg[s])]
    /\ UNCHANGED dropped

Drop(s, c) ==
    /\ dropped' = dropped \cup {<<msg[s], c>>}
    /\ UNCHANGED send

\* Mutant: a full channel ends the loop.
PushStopsWhenFull(s, c) ==
    /\ cb[s] = "push"
    /\ c \in targets[s]
    /\ \/ Enqueue(s, c) /\ targets' = [targets EXCEPT ![s] = @ \ {c}]
       \/ Drop(s, c) /\ targets' = [targets EXCEPT ![s] = {}]
    /\ UNCHANGED <<pc, writer, closed, registry, broker, cb, msg, written,
                   published, owed>>

\* and without it offers the message to each.  A full channel drops it; how
\* full it is depends on other traffic too (pong, message.sent, ...).
Push(s, c) ==
    /\ cb[s] = "push"
    /\ c \in targets[s]
    /\ Enqueue(s, c) \/ Drop(s, c)
    /\ targets' = [targets EXCEPT ![s] = @ \ {c}]
    /\ UNCHANGED <<pc, writer, closed, registry, broker, cb, msg, written,
                   published, owed>>

Return(s) ==
    /\ cb[s] = "push"
    /\ targets[s] = {}
    /\ cb' = [cb EXCEPT ![s] = "idle"]
    /\ msg' = [msg EXCEPT ![s] = 0]
    /\ UNCHANGED <<pc, writer, closed, registry, broker, targets, send, written,
                   history>>

-----------------------------------------------------------------------------
\* WritePump writes a message to the socket, if that is open,
Write(c) ==
    /\ writer[c] = "running"
    /\ c \notin closed
    /\ send[c] # <<>>
    /\ written' = [written EXCEPT ![c] = Append(@, Head(send[c]))]
    /\ send' = [send EXCEPT ![c] = Tail(@)]
    /\ UNCHANGED <<pc, writer, closed, registry, broker, callback, history>>

\* Mutant: WritePump does not listen to Done.
WriterStopsOnErrorOnly(c) ==
    /\ writer[c] = "running"
    /\ c \in closed
    /\ writer' = [writer EXCEPT ![c] = "stopped"]
    /\ UNCHANGED <<pc, closed, registry, broker, callback, send, written, history>>

\* and stops and closes the socket when a write or a ping fails or when the
\* connection was replaced.
WriterStops(c) ==
    /\ writer[c] = "running"
    /\ c \in closed \/ done[c] > 0
    /\ writer' = [writer EXCEPT ![c] = "stopped"]
    /\ closed' = closed \cup {c}
    /\ UNCHANGED <<pc, registry, broker, callback, send, written, history>>

\* What the handler does by itself once it has begun.
Handler(c) ==
    \/ SubscribeUser(c) \/ SubscribeFails(c) \/ ReadFails(c)
    \/ Unregister(c) \/ IsOnline(c) \/ UnsubscribeUser(c)

WritePump(c) == Write(c) \/ WriterStops(c)

Callback(s) == Receive(s) \/ Snapshot(s) \/ (\E c \in Conn : Push(s, c)) \/ Return(s)

Next ==
    \/ \E c \in Conn, d \in Device : Register(c, d)
    \/ \E c \in Conn : Disconnect(c) \/ Handler(c) \/ WritePump(c) \/ Callback(c)
    \/ PublishToUser

Spec == Init /\ [][Next]_vars

\* Goroutines that can run do run: WritePump's ticker fires, reading a closed
\* socket fails, a callback returns.  Nothing is assumed about clients.
FairSpec ==
    /\ Spec
    /\ \A c \in Conn :
         WF_vars(Handler(c)) /\ WF_vars(WritePump(c)) /\ WF_vars(Callback(c))

-----------------------------------------------------------------------------
\* Register closes the channel Done of a connection at most once: closing it
\* twice would panic.
DoneClosedOnce == \A c \in Conn : done[c] <= 1

\* A connection that was not replaced stays in the registry until its own
\* handler removes it: the end of the connection it replaced does not evict it.
NotEvicted ==
    \A c \in Conn :
        pc[c] \in {"subscribe", "read", "unregister"} /\ done[c] = 0 => c \in Online

\* A subscription does not outlive the handlers: the last one that ends has
\* unsubscribed the user, in whatever order they came, replaced each other and
\* went, and a subscription that is not in the map is not delivering.
NoLeakedSubscription ==
    /\ live \subseteq {subs}
    /\ Active = {} => live = {}

\* No device gets a notification twice, although a subscription may be replaced
\* while the callback of the former one is still running.
AtMostOnce ==
    \A c \in Conn : IsInjective(written[c] \o send[c])

\* A notification that reached the user's subscription while a device was
\* connected is on its way, written or reported as dropped, as long as the
\* device stays connected and subscribed: one slow device costs the others
\* nothing.
NoSilentLoss ==
    \A o \in owed :
        LET n == o[1]  c == o[2]  s == o[3] IN
        \/ n \in Range(queue[s])
        \/ msg[s] = n /\ (cb[s] = "start" \/ c \in targets[s])
        \/ n \in Range(send[c]) \cup Range(written[c])
        \/ <<n, c>> \in dropped
        \/ c \notin Online
        \/ s \notin live

\* The handler of a replaced connection ends, and its socket is closed.
ReplacedEnds == \A c \in Conn : done[c] > 0 ~> pc[c] = "end" /\ c \in closed

\* The user is unsubscribed only when he is offline.
UnsubscribedOnlyOffline ==
    [][subs # NoConn /\ subs' = NoConn => Online = {}]_vars
=============================================================================
