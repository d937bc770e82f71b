--------------------------- MODULE FrontendProofs ---------------------------
(***************************************************************************)
(* The two servers clients talk to.  Of the realtime server, for any       *)
(* number of connections and devices: Done is closed once, nobody is       *)
(* evicted from the registry, no subscription is leaked, and a             *)
(* notification reaches a device at most once and is never lost silently.  *)
(* Of a request on its way through the servers: what it does for the user  *)
(* of the metadata it does for the one whose token was checked, and what   *)
(* the client is told is true.                                             *)
(***************************************************************************)
EXTENDS Realtime, RequestPath, SequenceTheorems, TLAPS

\* The variables of the registry and of the subscriptions, with their types.
RegistryOK ==
    /\ pc \in [Conn -> PC]
    /\ device \in [Conn -> Device \cup {NoDevice}]
    /\ clients \in [Device -> Conn \cup {NoConn}]
    /\ done \in [Conn -> Nat]
    /\ subs \in Conn \cup {NoConn}
    /\ live \subseteq Conn
    /\ \A c \in Conn : pc[c] # "new" => device[c] \in Device

\* Whoever is in the registry is there under his device, has not been replaced
\* and has not left; a connection that has not begun has not been replaced.
RegistryInv ==
    /\ \A d \in Device : clients[d] # NoConn =>
         /\ device[clients[d]] = d
         /\ pc[clients[d]] \in {"subscribe", "read", "unregister"}
         /\ done[clients[d]] = 0
    /\ \A c \in Conn : done[c] <= 1
    /\ \A c \in Conn : pc[c] = "new" => done[c] = 0
    /\ \A c \in Conn :
         pc[c] \in {"subscribe", "read", "unregister"} /\ done[c] = 0
         => clients[device[c]] = c

\* Whoever is subscribed has a handler that has not ended.
SubscriptionInv ==
    /\ live \subseteq {subs}
    /\ subs # NoConn => \E c \in Conn : pc[c] \notin {"new", "end"}

Inv == RegistryOK /\ RegistryInv /\ SubscriptionInv

USE DEF Goto, PC, registry, broker, callback, history

\* Inv holds in the beginning.
LEMMA InitInv == Init => Inv
BY RealtimeAssumption DEF Init, Inv, RegistryOK, RegistryInv, SubscriptionInv

\* A step that leaves pc, the registry and the subscriptions alone keeps Inv.
LEMMA OtherSteps ==
    ASSUME Inv, UNCHANGED <<pc, device, clients, done, subs, live>>
    PROVE  Inv'
BY DEF Inv, RegistryOK, RegistryInv, SubscriptionInv

\* Register keeps Inv: the connection it replaces was in the registry, so its
\* Done was open.
LEMMA RegisterInv ==
    ASSUME Inv, NEW c \in Conn, NEW d \in Device, Register(c, d)
    PROVE  Inv'
<1>1. RegistryOK'
  BY RealtimeAssumption DEF Inv, RegistryOK, Register
<1>2. RegistryInv'
  BY RealtimeAssumption DEF Inv, RegistryOK, RegistryInv, Register
<1>3. SubscriptionInv'
  BY DEF Inv, RegistryOK, SubscriptionInv, Register
<1> QED BY <1>1, <1>2, <1>3 DEF Inv

\* The steps of the handler after Register keep Inv.
LEMMA HandlerInv ==
    ASSUME Inv, NEW c \in Conn, Handler(c)
    PROVE  Inv'
<1>1. CASE SubscribeUser(c)
  <2>1. RegistryOK' BY <1>1 DEF Inv, RegistryOK, SubscribeUser
  <2>2. RegistryInv' BY <1>1 DEF Inv, RegistryOK, RegistryInv, SubscribeUser
  <2>3. SubscriptionInv'
    BY <1>1, RealtimeAssumption DEF Inv, RegistryOK, SubscriptionInv, SubscribeUser
  <2> QED BY <2>1, <2>2, <2>3 DEF Inv
<1>2. CASE SubscribeFails(c)
  BY <1>2 DEF Inv, RegistryOK, RegistryInv, SubscriptionInv, SubscribeFails
<1>3. CASE ReadFails(c)
  BY <1>3 DEF Inv, RegistryOK, RegistryInv, SubscriptionInv, ReadFails
<1>4. CASE Unregister(c)
  <2>1. RegistryOK' BY <1>4 DEF Inv, RegistryOK, Unregister
  <2>2. RegistryInv' BY <1>4 DEF Inv, RegistryOK, RegistryInv, Unregister
  <2>3. SubscriptionInv' BY <1>4 DEF Inv, RegistryOK, SubscriptionInv, Unregister
  <2> QED BY <2>1, <2>2, <2>3 DEF Inv
<1>5. CASE IsOnline(c)
  <2>1. RegistryOK' BY <1>5 DEF Inv, RegistryOK, IsOnline
  <2>2. RegistryInv' BY <1>5 DEF Inv, RegistryOK, RegistryInv, IsOnline
  <2>3. SubscriptionInv'
    <3>1. CASE Online = {}
      BY <1>5, <3>1 DEF Inv, RegistryOK, SubscriptionInv, IsOnline
    <3>2. CASE Online # {}
      \* somebody else is in the registry, whose handler has not ended
      <4>1. PICK x \in Conn, d \in Device : clients[d] = x
        BY <3>2 DEF Online
      <4>2. pc[x] \in {"subscribe", "read", "unregister"}
        BY <4>1, RealtimeAssumption DEF Inv, RegistryInv
      <4>3. pc'[x] = pc[x] /\ subs' = subs /\ live' = live
        BY <1>5, <4>2 DEF IsOnline, Inv, RegistryOK
      <4> QED BY <4>2, <4>3 DEF Inv, SubscriptionInv
    <3> QED BY <3>1, <3>2
  <2> QED BY <2>1, <2>2, <2>3 DEF Inv
<1>6. CASE UnsubscribeUser(c)
  <2>1. RegistryOK' BY <1>6 DEF Inv, RegistryOK, UnsubscribeUser
  <2>2. RegistryInv' BY <1>6 DEF Inv, RegistryOK, RegistryInv, UnsubscribeUser
  <2>3. SubscriptionInv' BY <1>6 DEF Inv, SubscriptionInv, UnsubscribeUser
  <2> QED BY <2>1, <2>2, <2>3 DEF Inv
<1> QED BY <1>1, <1>2, <1>3, <1>4, <1>5, <1>6 DEF Handler

\* Every step keeps Inv.
LEMMA NextInv == Inv /\ [Next]_vars => Inv'
<1> SUFFICES ASSUME Inv, [Next]_vars PROVE Inv'
  OBVIOUS
<1>1. CASE \E c \in Conn, d \in Device : Register(c, d)
  BY <1>1, RegisterInv
<1>2. CASE \E c \in Conn : Disconnect(c)
  BY <1>2, OtherSteps DEF Disconnect
<1>3. CASE \E c \in Conn : Handler(c)
  BY <1>3, HandlerInv
<1>4. CASE \E c \in Conn : WritePump(c)
  BY <1>4, OtherSteps DEF WritePump, Write, WriterStops
<1>5. CASE \E s \in Conn : Callback(s)
  BY <1>5, OtherSteps DEF Callback, Receive, Snapshot, Push, Return
<1>6. CASE PublishToUser
  BY <1>6, OtherSteps DEF PublishToUser
<1>7. CASE UNCHANGED vars
  BY <1>7, OtherSteps DEF vars
<1> QED BY <1>1, <1>2, <1>3, <1>4, <1>5, <1>6, <1>7 DEF Next

\* The invariant of the registry and the subscriptions holds always.
LEMMA InvCorrect == Spec => []Inv
BY InitInv, NextInv, PTL DEF Spec

\* Register never closes a channel Done that is closed: for any number of
\* connections and devices it does not panic.
THEOREM DoneCorrect == Spec => []DoneClosedOnce
<1>1. Inv => DoneClosedOnce
  BY DEF Inv, RegistryInv, DoneClosedOnce
<1> QED BY <1>1, InvCorrect, PTL

\* Unregister only removes the connection it is called for: whoever has not
\* been replaced stays registered.
THEOREM EvictionCorrect == Spec => []NotEvicted
<1>1. Inv => NotEvicted
  BY DEF Inv, RegistryOK, RegistryInv, NotEvicted, Online
<1> QED BY <1>1, InvCorrect, PTL

\* Whatever the order in which handlers check IsOnline and unsubscribe, the
\* subscription is gone when they all have ended.
THEOREM LeakCorrect == Spec => []NoLeakedSubscription
<1>1. Inv => NoLeakedSubscription
  BY RealtimeAssumption DEF Inv, RegistryOK, SubscriptionInv, NoLeakedSubscription, Active
<1> QED BY <1>1, InvCorrect, PTL

-----------------------------------------------------------------------------
\* A sequence takes an element that it does not hold and remains injective.
LEMMA AppendFacts ==
    ASSUME NEW S, NEW q \in Seq(S), NEW x \in S
    PROVE  /\ Append(q, x) \in Seq(S)
           /\ Range(Append(q, x)) = Range(q) \cup {x}
           /\ IsInjective(q) /\ x \notin Range(q) => IsInjective(Append(q, x))
<1>1. /\ Append(q, x) \in Seq(S) /\ Len(q) \in Nat
      /\ DOMAIN q = 1 .. Len(q) /\ DOMAIN Append(q, x) = 1 .. (Len(q) + 1)
      /\ Append(q, x)[Len(q) + 1] = x
      /\ \A i \in DOMAIN q : Append(q, x)[i] = q[i]
  OBVIOUS
<1>2. DOMAIN Append(q, x) = DOMAIN q \cup {Len(q) + 1}
  BY <1>1
<1>3. Range(Append(q, x)) = Range(q) \cup {x}
  BY <1>1, <1>2 DEF Range
<1>4. IsInjective(q) /\ x \notin Range(q) => IsInjective(Append(q, x))
  <2> SUFFICES ASSUME IsInjective(q), x \notin Range(q),
                      NEW a \in DOMAIN Append(q, x), NEW b \in DOMAIN Append(q, x),
                      Append(q, x)[a] = Append(q, x)[b]
               PROVE  a = b
    BY DEF IsInjective
  <2>1. CASE a \in DOMAIN q /\ b \in DOMAIN q
    BY <1>1, <2>1 DEF IsInjective
  <2>2. CASE a = Len(q) + 1 /\ b \in DOMAIN q
    BY <1>1, <2>2 DEF Range
  <2>3. CASE a \in DOMAIN q /\ b = Len(q) + 1
    BY <1>1, <2>3 DEF Range
  <2>4. QED
    BY <1>2, <2>1, <2>2, <2>3
<1>5. QED
  BY <1>1, <1>3, <1>4

\* The head of an injective sequence is not in its tail.
LEMMA HeadTailFacts ==
    ASSUME NEW S, NEW q \in Seq(S), q # <<>>
    PROVE  /\ Head(q) \in S /\ Tail(q) \in Seq(S)
           /\ Range(q) = Range(Tail(q)) \cup {Head(q)}
           /\ IsInjective(q) => IsInjective(Tail(q)) /\ Head(q) \notin Range(Tail(q))
<1>1. /\ Head(q) \in S /\ Tail(q) \in Seq(S) /\ Len(q) \in Nat \ {0}
      /\ DOMAIN q = 1 .. Len(q) /\ DOMAIN Tail(q) = 1 .. (Len(q) - 1)
      /\ Head(q) = q[1] /\ \A i \in 1 .. (Len(q) - 1) : Tail(q)[i] = q[i + 1]
  OBVIOUS
<1>2. Range(q) = Range(Tail(q)) \cup {Head(q)}
  <2>1. \A y \in Range(q) : y \in Range(Tail(q)) \cup {Head(q)}
    <3> SUFFICES ASSUME NEW i \in DOMAIN q PROVE q[i] \in Range(Tail(q)) \cup {Head(q)}
      BY DEF Range
    <3>1. CASE i = 1
      BY <1>1, <3>1
    <3>2. CASE i # 1
      <4>1. (i - 1) \in DOMAIN Tail(q) /\ Tail(q)[i - 1] = q[i]
        BY <1>1, <3>2
      <4>2. QED
        BY <4>1 DEF Range
    <3>3. QED
      BY <3>1, <3>2
  <2>2. \A y \in Range(Tail(q)) : y \in Range(q)
    <3> SUFFICES ASSUME NEW i \in DOMAIN Tail(q) PROVE Tail(q)[i] \in Range(q)
      BY DEF Range
    <3>1. (i + 1) \in DOMAIN q /\ Tail(q)[i] = q[i + 1]
      BY <1>1
    <3>2. QED
      BY <3>1 DEF Range
  <2>3. Head(q) \in Range(q)
    BY <1>1 DEF Range
  <2>4. QED
    BY <2>1, <2>2, <2>3
<1>3. ASSUME IsInjective(q) PROVE IsInjective(Tail(q)) /\ Head(q) \notin Range(Tail(q))
  <2>1. \A i \in DOMAIN Tail(q) : (i + 1) \in DOMAIN q /\ i + 1 # 1 /\ Tail(q)[i] = q[i + 1]
    BY <1>1
  <2>2. 1 \in DOMAIN q
    BY <1>1
  <2>3. \A i, j \in DOMAIN Tail(q) : i + 1 = j + 1 => i = j
    BY <1>1
  <2>4. \A a, b \in DOMAIN q : q[a] = q[b] => a = b
    BY <1>3 DEF IsInjective
  <2>5. IsInjective(Tail(q))
    BY <2>1, <2>3, <2>4 DEF IsInjective
  <2>6. Head(q) \notin Range(Tail(q))
    BY <1>1, <2>1, <2>2, <2>4 DEF Range
  <2>7. QED
    BY <2>5, <2>6
<1>4. QED
  BY <1>1, <1>2, <1>3

\* The length and the elements of a concatenation.
LEMMA ConcatIndex ==
    ASSUME NEW S, NEW a \in Seq(S), NEW b \in Seq(S)
    PROVE  /\ a \o b \in Seq(S) /\ Len(a \o b) = Len(a) + Len(b)
           /\ \A i \in 1 .. (Len(a) + Len(b)) :
                (a \o b)[i] = IF i <= Len(a) THEN a[i] ELSE b[i - Len(a)]
OBVIOUS

\* What two sequences hold together.
LEMMA ConcatRange ==
    ASSUME NEW S, NEW w \in Seq(S), NEW q \in Seq(S)
    PROVE  Range(w \o q) = Range(w) \cup Range(q)
<1>0. /\ w \o q \in Seq(S) /\ Len(w) \in Nat /\ Len(q) \in Nat
      /\ DOMAIN w = 1 .. Len(w) /\ DOMAIN q = 1 .. Len(q)
      /\ Len(w \o q) = Len(w) + Len(q)
      /\ DOMAIN (w \o q) = 1 .. (Len(w) + Len(q))
      /\ \A i \in 1 .. Len(w) : (w \o q)[i] = w[i]
      /\ \A i \in 1 .. Len(q) : (w \o q)[Len(w) + i] = q[i]
      /\ \A i \in 1 .. (Len(w) + Len(q)) : (w \o q)[i] =
             IF i <= Len(w) THEN w[i] ELSE q[i - Len(w)]
  OBVIOUS
<1>1. ASSUME NEW i \in DOMAIN (w \o q) PROVE (w \o q)[i] \in Range(w) \cup Range(q)
  <2>1. CASE i <= Len(w)
    BY <1>0, <1>1, <2>1 DEF Range
  <2>2. CASE ~(i <= Len(w))
    <3>1. i - Len(w) \in DOMAIN q /\ (w \o q)[i] = q[i - Len(w)]
      BY <1>0, <1>1, <2>2
    <3>2. QED
      BY <3>1 DEF Range
  <2>3. QED
    BY <2>1, <2>2
<1>2. ASSUME NEW i \in DOMAIN w PROVE w[i] \in Range(w \o q)
  <2>1. i \in DOMAIN (w \o q) /\ (w \o q)[i] = w[i]
    BY <1>0, <1>2
  <2>2. QED
    BY <2>1 DEF Range
<1>3. ASSUME NEW i \in DOMAIN q PROVE q[i] \in Range(w \o q)
  <2>1. Len(w) + i \in DOMAIN (w \o q) /\ (w \o q)[Len(w) + i] = q[i]
    BY <1>0, <1>3
  <2>2. QED
    BY <2>1 DEF Range
<1>4. QED
  BY <1>1, <1>2, <1>3 DEF Range

\* Appending to the second of two sequences appends to both.
LEMMA ConcatAppend ==
    ASSUME NEW S, NEW w \in Seq(S), NEW q \in Seq(S), NEW x \in S
    PROVE  w \o Append(q, x) = Append(w \o q, x)
<1>0. /\ w \o q \in Seq(S) /\ Len(w) \in Nat /\ Len(q) \in Nat
      /\ Len(w \o q) = Len(w) + Len(q)
      /\ \A i \in 1 .. (Len(w) + Len(q)) : (w \o q)[i] =
             IF i <= Len(w) THEN w[i] ELSE q[i - Len(w)]
  OBVIOUS
<1>1. Append(q, x) \in Seq(S) /\ w \o Append(q, x) \in Seq(S) /\ Append(w \o q, x) \in Seq(S)
  BY <1>0
<1>2. Len(w \o Append(q, x)) = Len(Append(w \o q, x))
  BY <1>0, <1>1
<1>3. \A i \in 1 .. Len(w \o Append(q, x)) : (w \o Append(q, x))[i] = Append(w \o q, x)[i]
  BY <1>0, <1>1
<1>4. QED
  BY <1>1, <1>2, <1>3, SeqEqual

\* Moving the head of the second to the end of the first changes nothing.
LEMMA ConcatMove ==
    ASSUME NEW S, NEW w \in Seq(S), NEW q \in Seq(S), q # <<>>
    PROVE  Append(w, Head(q)) \o Tail(q) = w \o q
<1>0. /\ w \o q \in Seq(S) /\ Len(w) \in Nat /\ Len(q) \in Nat
      /\ Len(w \o q) = Len(w) + Len(q)
      /\ \A i \in 1 .. (Len(w) + Len(q)) : (w \o q)[i] =
             IF i <= Len(w) THEN w[i] ELSE q[i - Len(w)]
  OBVIOUS
<1>1. /\ Head(q) \in S /\ Tail(q) \in Seq(S) /\ Len(Tail(q)) = Len(q) - 1
      /\ Head(q) = q[1] /\ \A i \in 1 .. (Len(q) - 1) : Tail(q)[i] = q[i + 1]
      /\ Len(q) \in Nat \ {0}
  OBVIOUS
<1>2. /\ Append(w, Head(q)) \in Seq(S) /\ Len(Append(w, Head(q))) = Len(w) + 1
      /\ Append(w, Head(q))[Len(w) + 1] = q[1]
      /\ \A i \in 1 .. Len(w) : Append(w, Head(q))[i] = w[i]
  BY <1>1
<1>3. /\ Append(w, Head(q)) \o Tail(q) \in Seq(S)
      /\ Len(Append(w, Head(q)) \o Tail(q)) = Len(w) + Len(q)
  BY <1>0, <1>1, <1>2
<1>4. \A i \in 1 .. (Len(w) + Len(q)) : (Append(w, Head(q)) \o Tail(q))[i] = (w \o q)[i]
  <2> SUFFICES ASSUME NEW i \in 1 .. (Len(w) + Len(q))
               PROVE  (Append(w, Head(q)) \o Tail(q))[i] = (w \o q)[i]
    OBVIOUS
  <2>1. (Append(w, Head(q)) \o Tail(q))[i] =
           IF i <= Len(w) + 1 THEN Append(w, Head(q))[i] ELSE Tail(q)[i - (Len(w) + 1)]
    <3>1. Len(Append(w, Head(q))) + Len(Tail(q)) = Len(w) + Len(q)
      BY <1>0, <1>1, <1>2
    <3>2. QED
      BY <1>1, <1>2, <3>1, ConcatIndex
  <2>2. CASE i <= Len(w)
    <3>1. i \in 1 .. Len(w) /\ i <= Len(w) + 1
      BY <1>0, <2>2
    <3>2. (Append(w, Head(q)) \o Tail(q))[i] = Append(w, Head(q))[i]
      BY <2>1, <3>1
    <3>3. QED
      BY <1>0, <1>2, <3>1, <3>2
  <2>3. CASE i = Len(w) + 1
    BY <1>0, <1>1, <1>2, <2>1, <2>3
  <2>4. CASE i > Len(w) + 1
    <3>1. /\ i - (Len(w) + 1) \in 1 .. (Len(q) - 1)
          /\ (i - (Len(w) + 1)) + 1 = i - Len(w)
          /\ ~(i <= Len(w)) /\ ~(i <= Len(w) + 1)
      BY <1>0, <1>1, <2>4
    <3>2. Tail(q)[i - (Len(w) + 1)] = q[i - Len(w)]
      BY <1>1, <3>1
    <3>3. (w \o q)[i] = q[i - Len(w)]
      BY <1>0, <3>1
    <3>4. QED
      <4>1. (Append(w, Head(q)) \o Tail(q))[i] = Tail(q)[i - (Len(w) + 1)]
        BY <2>1, <3>1
      <4>2. QED
        BY <4>1, <3>2, <3>3
  <2>5. i <= Len(w) \/ i = Len(w) + 1 \/ i > Len(w) + 1
    BY <1>0
  <2>6. QED
    BY <2>2, <2>3, <2>4, <2>5
<1>5. QED
  BY <1>0, <1>3, <1>4, SeqEqual

-----------------------------------------------------------------------------
\* What the broker and the server hold of a notification, with the types.
DeliveryOK ==
    /\ queue \in [Conn -> Seq(Notif)]
    /\ cb \in [Conn -> {"idle", "start", "push"}]
    /\ msg \in [Conn -> Notif \cup {0}]
    /\ targets \in [Conn -> SUBSET Conn]
    /\ send \in [Conn -> Seq(Notif)]
    /\ written \in [Conn -> Seq(Notif)]
    /\ published \in Notif \cup {0}
    /\ \A s \in Conn : cb[s] # "idle" => msg[s] \in Notif
    /\ \A s \in Conn : cb[s] # "push" => targets[s] = {}

\* What connection c was given: written to the socket or waiting in Send.
Got(c) == written[c] \o send[c]

\* What subscription s has still to handle or is handling.
Pending(s) == Range(queue[s]) \cup {n \in {msg[s]} : cb[s] # "idle"}

\* A notification waits once, in one subscription, and nobody has got it yet but
\* clients that its callback has already served.
OnceInv ==
    /\ \A s \in Conn : IsInjective(queue[s])
    /\ \A s \in Conn : \A n \in Pending(s) : n <= published
    /\ \A s \in Conn : cb[s] # "idle" => msg[s] \notin Range(queue[s])
    /\ \A s, t \in Conn : s # t => Pending(s) \cap Pending(t) = {}
    /\ \A c \in Conn : \A n \in Range(Got(c)) : n <= published
    /\ \A s, c \in Conn : Range(queue[s]) \cap Range(Got(c)) = {}
    /\ \A s, c \in Conn : cb[s] = "start" \/ c \in targets[s] => msg[s] \notin Range(Got(c))
    /\ \A c \in Conn : IsInjective(Got(c))

\* Whoever is owed a notification had registered, and the subscription it came
\* from was made before: neither can come into being again.
OwedInv ==
    /\ owed \subseteq Notif \X Conn \X Conn
    /\ \A s \in live : pc[s] \notin {"new", "subscribe"}
    /\ \A n \in Notif, c, s \in Conn : <<n, c, s>> \in owed =>
         pc[c] # "new" /\ pc[s] \notin {"new", "subscribe"}

\* In the beginning nothing is on its way.
LEMMA InitOnce == Init => DeliveryOK /\ OnceInv
<1> SUFFICES ASSUME Init PROVE DeliveryOK /\ OnceInv
  OBVIOUS
<1>1. DeliveryOK
  BY RealtimeAssumption DEF Init, DeliveryOK, Notif
<1>2. /\ Range(<<>>) = {} /\ IsInjective(<<>>) /\ <<>> \o <<>> = <<>>
  BY DEF Range, IsInjective
<1>3. \A c \in Conn : /\ Range(queue[c]) = {} /\ IsInjective(queue[c])
                      /\ Got(c) = <<>> /\ cb[c] = "idle" /\ targets[c] = {}
  BY <1>2 DEF Init, Got
<1>4. \A c \in Conn : Pending(c) = {}
  BY <1>3 DEF Pending
<1> QED BY <1>1, <1>2, <1>3, <1>4 DEF OnceInv

\* A step that leaves the way of the notifications alone.
LEMMA OnceOther ==
    ASSUME DeliveryOK, OnceInv,
           UNCHANGED <<queue, cb, msg, targets, send, written, published>>
    PROVE  DeliveryOK' /\ OnceInv'
<1>1. DeliveryOK' BY DEF DeliveryOK
<1>2. OnceInv' BY DEF OnceInv, Pending, Got
<1> QED BY <1>1, <1>2

\* A new notification goes to the one subscription that is live.
LEMMA PublishOnce ==
    ASSUME Inv, DeliveryOK, OnceInv, PublishToUser
    PROVE  DeliveryOK' /\ OnceInv'
<1> DEFINE n == published + 1
<1>1. n \in Notif /\ n \in Nat /\ n > published /\ published' = n /\ published \in Nat
  BY RealtimeAssumption DEF PublishToUser, DeliveryOK, Notif
<1>2. UNCHANGED <<cb, msg, targets, send, written>>
  BY DEF PublishToUser
<1>3. \A s \in Conn : queue'[s] = IF s \in live THEN Append(queue[s], n) ELSE queue[s]
  BY DEF PublishToUser
<1>4. \A s \in Conn : \A m \in Range(queue[s]) : m <= published
  BY DEF OnceInv, Pending
<1>5. \A s \in Conn : n \notin Range(queue[s])
  BY <1>1, <1>4
<1> HIDE DEF n
<1>6. \A s \in live : /\ queue'[s] \in Seq(Notif) /\ IsInjective(queue'[s])
                      /\ Range(queue'[s]) = Range(queue[s]) \cup {n}
  <2> SUFFICES ASSUME NEW s \in live
               PROVE  /\ queue'[s] \in Seq(Notif) /\ IsInjective(queue'[s])
                      /\ Range(queue'[s]) = Range(queue[s]) \cup {n}
    OBVIOUS
  <2>1. s \in Conn /\ queue[s] \in Seq(Notif) /\ IsInjective(queue[s])
    BY DEF Inv, RegistryOK, DeliveryOK, OnceInv
  <2>2. queue'[s] = Append(queue[s], n) /\ n \notin Range(queue[s])
    BY <2>1, <1>3, <1>5
  <2> QED BY <2>1, <2>2, <1>1, AppendFacts
<1>7. \A s \in Conn : /\ queue'[s] \in Seq(Notif) /\ IsInjective(queue'[s])
                      /\ Range(queue'[s]) = IF s \in live THEN Range(queue[s]) \cup {n}
                                                          ELSE Range(queue[s])
  BY <1>3, <1>6 DEF DeliveryOK, OnceInv
<1>8. DeliveryOK'
  <2>1. queue' \in [Conn -> Seq(Notif)]
    BY <1>7 DEF PublishToUser
  <2> QED BY <2>1, <1>1, <1>2 DEF DeliveryOK
<1>9. \A s \in Conn : Pending(s)' = IF s \in live THEN Pending(s) \cup {n} ELSE Pending(s)
  BY <1>7, <1>2 DEF Pending
<1>10. \A s \in Conn : n \notin Pending(s) /\ \A m \in Pending(s) : m \in Nat /\ m <= published
  <2>1. \A s \in Conn : \A m \in Pending(s) : m \in Notif /\ m <= published
    <3>1. \A s \in Conn : Pending(s) \subseteq Notif
      BY DEF DeliveryOK, Pending, Range
    <3> QED BY <3>1 DEF OnceInv
  <2> QED BY <2>1, <1>1 DEF Notif
<1>11. \A c \in Conn : Got(c)' = Got(c)
  BY <1>2 DEF Got
<1>12. \A c \in Conn : n \notin Range(Got(c)) /\ \A m \in Range(Got(c)) : m \in Nat /\ m <= published
  <2>1. \A c \in Conn : Got(c) \in Seq(Notif)
    BY ConcatIndex DEF DeliveryOK, Got
  <2>2. \A c \in Conn : \A m \in Range(Got(c)) : m \in Notif /\ m <= published
    BY <2>1 DEF OnceInv, Range
  <2> QED BY <2>2, <1>1 DEF Notif
<1>13. \A s, t \in Conn : s \in live /\ t \in live => s = t
  BY DEF Inv, SubscriptionInv
<1>14. (\A s \in Conn : \A m \in Pending(s) : m <= published)'
  BY <1>1, <1>9, <1>10
<1>15. (\A s \in Conn : cb[s] # "idle" => msg[s] \notin Range(queue[s]))'
  <2>1. \A s \in Conn : cb[s] # "idle" => msg[s] \in Pending(s)
    BY DEF Pending
  <2>2. \A s \in Conn : cb[s] # "idle" => msg[s] \notin Range(queue[s]) /\ msg[s] # n
    BY <2>1, <1>10 DEF OnceInv
  <2> QED BY <2>2, <1>2, <1>7
<1>16. (\A s, t \in Conn : s # t => Pending(s) \cap Pending(t) = {})'
  <2> SUFFICES ASSUME NEW s \in Conn, NEW t \in Conn, s # t
               PROVE  Pending(s)' \cap Pending(t)' = {}
    OBVIOUS
  <2>1. Pending(s) \cap Pending(t) = {} /\ n \notin Pending(s) /\ n \notin Pending(t)
    BY <1>10 DEF OnceInv
  <2>2. ~(s \in live /\ t \in live)
    BY <1>13
  <2> QED BY <2>1, <2>2, <1>9
<1>17. (\A c \in Conn : \A m \in Range(Got(c)) : m <= published)'
  BY <1>1, <1>11, <1>12
<1>18. (\A s, c \in Conn : Range(queue[s]) \cap Range(Got(c)) = {})'
  BY <1>7, <1>11, <1>12 DEF OnceInv
<1>19. (\A s, c \in Conn : cb[s] = "start" \/ c \in targets[s] => msg[s] \notin Range(Got(c)))'
  BY <1>2, <1>11 DEF OnceInv
<1>20. (\A c \in Conn : IsInjective(Got(c)))'
  BY <1>11 DEF OnceInv
<1> QED BY <1>7, <1>8, <1>14, <1>15, <1>16, <1>17, <1>18, <1>19, <1>20 DEF OnceInv

\* UnsubscribeUser discards what waits in the subscription it removes.
LEMMA UnsubscribeOnce ==
    ASSUME DeliveryOK, OnceInv, NEW c \in Conn, UnsubscribeUser(c)
    PROVE  DeliveryOK' /\ OnceInv'
<1>1. UNCHANGED <<cb, msg, targets, send, written, published>>
  BY DEF UnsubscribeUser
<1>2. Range(<<>>) = {} /\ IsInjective(<<>>) /\ <<>> \in Seq(Notif)
  BY DEF Range, IsInjective
<1>3. \A s \in Conn : queue'[s] = IF s = subs THEN <<>> ELSE queue[s]
  BY DEF UnsubscribeUser
<1>4. \A s \in Conn : /\ IsInjective(queue'[s]) /\ queue'[s] \in Seq(Notif)
                      /\ Range(queue'[s]) \subseteq Range(queue[s])
  BY <1>2, <1>3 DEF OnceInv, DeliveryOK
<1>5. DeliveryOK'
  <2>1. queue' \in [Conn -> Seq(Notif)]
    BY <1>4 DEF UnsubscribeUser
  <2> QED BY <2>1, <1>1 DEF DeliveryOK
<1>6. \A s \in Conn : Pending(s)' \subseteq Pending(s)
  BY <1>1, <1>4 DEF Pending
<1>7. \A s \in Conn : Got(s)' = Got(s)
  BY <1>1 DEF Got
<1>8. (\A s \in Conn : \A n \in Pending(s) : n <= published)'
  BY <1>1, <1>6 DEF OnceInv
<1>9. (\A s, t \in Conn : s # t => Pending(s) \cap Pending(t) = {})'
  <2> SUFFICES ASSUME NEW s \in Conn, NEW t \in Conn, s # t
               PROVE  Pending(s)' \cap Pending(t)' = {}
    OBVIOUS
  <2>1. Pending(s) \cap Pending(t) = {}
    BY DEF OnceInv
  <2> QED BY <2>1, <1>6
<1>10. OnceInv'
  BY <1>1, <1>4, <1>7, <1>8, <1>9 DEF OnceInv
<1> QED BY <1>5, <1>10


\* The callback takes the first message: it still waits, as what it handles.
LEMMA ReceiveOnce ==
    ASSUME DeliveryOK, OnceInv, NEW s \in Conn, Receive(s)
    PROVE  DeliveryOK' /\ OnceInv'
<1>1. /\ UNCHANGED <<targets, send, written, published>>
      /\ cb[s] = "idle" /\ cb' = [cb EXCEPT ![s] = "start"] /\ queue[s] # <<>>
      /\ msg' = [msg EXCEPT ![s] = Head(queue[s])] /\ queue' = [queue EXCEPT ![s] = Tail(@)]
  BY DEF Receive
<1>2. /\ queue[s] \in Seq(Notif) /\ IsInjective(queue[s])
      /\ cb'[s] = "start" /\ msg'[s] = Head(queue[s]) /\ queue'[s] = Tail(queue[s])
  BY <1>1 DEF DeliveryOK, OnceInv
<1>3. \A t \in Conn : t # s => queue'[t] = queue[t] /\ cb'[t] = cb[t] /\ msg'[t] = msg[t]
  BY <1>1 DEF DeliveryOK
<1>4. /\ msg'[s] \in Notif /\ queue'[s] \in Seq(Notif)
      /\ Range(queue[s]) = Range(queue'[s]) \cup {msg'[s]}
      /\ IsInjective(queue'[s]) /\ msg'[s] \notin Range(queue'[s])
  BY <1>1, <1>2, HeadTailFacts
<1>5. DeliveryOK'
  BY <1>1, <1>4 DEF DeliveryOK
<1>6. \A t \in Conn : Pending(t)' = Pending(t)
  <2>1. Pending(s)' = Pending(s)
    BY <1>1, <1>2, <1>4 DEF Pending
  <2>2. \A t \in Conn : t # s => Pending(t)' = Pending(t)
    BY <1>3 DEF Pending
  <2> QED BY <2>1, <2>2
<1>7. \A c \in Conn : Got(c)' = Got(c)
  BY <1>1 DEF Got
<1>8. (\A t \in Conn : \A n \in Pending(t) : n <= published)'
  BY <1>1, <1>6 DEF OnceInv
<1>9. (\A t, u \in Conn : t # u => Pending(t) \cap Pending(u) = {})'
  <2>1. \A t, u \in Conn : t # u => Pending(t) \cap Pending(u) = {}
    BY DEF OnceInv
  <2> QED BY <2>1, <1>6
<1>10. (\A t, c \in Conn : Range(queue[t]) \cap Range(Got(c)) = {})'
  <2>1. \A t, c \in Conn : Range(queue[t]) \cap Range(Got(c)) = {}
    BY DEF OnceInv
  <2> QED BY <2>1, <1>3, <1>4, <1>7
<1>11. (\A t, c \in Conn : cb[t] = "start" \/ c \in targets[t] => msg[t] \notin Range(Got(c)))'
  <2>1. \A c \in Conn : msg'[s] \notin Range(Got(c))
    BY <1>4 DEF OnceInv
  <2> QED BY <2>1, <1>1, <1>3, <1>7 DEF OnceInv
<1>12. (/\ \A t \in Conn : IsInjective(queue[t])
        /\ \A t \in Conn : cb[t] # "idle" => msg[t] \notin Range(queue[t])
        /\ \A c \in Conn : \A n \in Range(Got(c)) : n <= published
        /\ \A c \in Conn : IsInjective(Got(c)))'
  BY <1>1, <1>3, <1>4, <1>7 DEF OnceInv
<1> QED BY <1>5, <1>8, <1>9, <1>10, <1>11, <1>12 DEF OnceInv

\* SendToUser copies the clients: none of them has got the message.
LEMMA SnapshotOnce ==
    ASSUME DeliveryOK, OnceInv, NEW s \in Conn, Snapshot(s)
    PROVE  DeliveryOK' /\ OnceInv'
<1>1. /\ UNCHANGED <<queue, msg, send, written, published>>
      /\ cb[s] = "start" /\ cb' = [cb EXCEPT ![s] = "push"]
      /\ targets' = [targets EXCEPT ![s] = Online] /\ Online \subseteq Conn
  BY DEF Snapshot, Online
<1>2. DeliveryOK'
  BY <1>1 DEF DeliveryOK
<1>3. \A t \in Conn : /\ cb'[t] # "idle" <=> cb[t] # "idle"
                      /\ cb'[t] = "start" => cb[t] = "start"
                      /\ t # s => targets'[t] = targets[t]
  BY <1>1 DEF DeliveryOK
<1>4. \A t \in Conn : Pending(t)' = Pending(t)
  BY <1>1, <1>3 DEF Pending
<1>5. \A c \in Conn : Got(c)' = Got(c)
  BY <1>1 DEF Got
<1>6. (\A t, u \in Conn : t # u => Pending(t) \cap Pending(u) = {})'
  <2>1. \A t, u \in Conn : t # u => Pending(t) \cap Pending(u) = {}
    BY DEF OnceInv
  <2> QED BY <2>1, <1>4
<1>7. (\A t, c \in Conn : cb[t] = "start" \/ c \in targets[t] => msg[t] \notin Range(Got(c)))'
  BY <1>1, <1>3, <1>5 DEF OnceInv
<1>8. (\A t \in Conn : \A n \in Pending(t) : n <= published)'
  BY <1>1, <1>4 DEF OnceInv
<1>9. (/\ \A t \in Conn : IsInjective(queue[t])
       /\ \A t \in Conn : cb[t] # "idle" => msg[t] \notin Range(queue[t])
       /\ \A c \in Conn : \A n \in Range(Got(c)) : n <= published
       /\ \A t, c \in Conn : Range(queue[t]) \cap Range(Got(c)) = {}
       /\ \A c \in Conn : IsInjective(Got(c)))'
  BY <1>1, <1>3, <1>5 DEF OnceInv
<1> QED BY <1>2, <1>6, <1>7, <1>8, <1>9 DEF OnceInv

\* A client gets the message that is offered to it, or it is reported as dropped.
LEMMA PushGot ==
    ASSUME DeliveryOK, NEW s \in Conn, NEW c \in Conn, Push(s, c)
    PROVE  /\ send' \in [Conn -> Seq(Notif)]
           /\ \A x \in Conn : x # c => Got(x)' = Got(x)
           /\ \/ Got(c)' = Append(Got(c), msg[s])
              \/ Got(c)' = Got(c) /\ <<msg[s], c>> \in dropped'
<1>1. written' = written /\ msg[s] \in Notif
  BY DEF Push, DeliveryOK
<1>2. CASE Enqueue(s, c)
  <2>1. send' = [send EXCEPT ![c] = Append(@, msg[s])]
    BY <1>2 DEF Enqueue
  <2>2. send' \in [Conn -> Seq(Notif)]
    BY <2>1, <1>1 DEF DeliveryOK
  <2>3. \A x \in Conn : x # c => send'[x] = send[x]
    BY <2>1 DEF DeliveryOK
  <2>4. send[c] \in Seq(Notif) /\ written[c] \in Seq(Notif)
        /\ send'[c] = Append(send[c], msg[s])
    BY <2>1 DEF DeliveryOK
  <2>5. written[c] \o Append(send[c], msg[s]) = Append(written[c] \o send[c], msg[s])
    <3>1. \A w, q \in Seq(Notif) : \A x \in Notif :
            w \o Append(q, x) = Append(w \o q, x)
      BY ConcatAppend
    <3> QED BY <2>4, <1>1, <3>1, Zenon
  <2>6. Got(c)' = Append(Got(c), msg[s])
    BY <2>4, <2>5, <1>1 DEF Got
  <2>7. \A x \in Conn : x # c => Got(x)' = Got(x)
    BY <2>3, <1>1 DEF Got
  <2> QED BY <2>2, <2>6, <2>7
<1>3. CASE Drop(s, c)
  <2>1. send' = send /\ <<msg[s], c>> \in dropped'
    BY <1>3 DEF Drop
  <2> QED BY <2>1, <1>1 DEF Got, DeliveryOK
<1> QED BY <1>2, <1>3 DEF Push

\* A client that is offered the message has not got it, and is not offered it
\* again.
LEMMA PushOnce ==
    ASSUME DeliveryOK, OnceInv, NEW s \in Conn, NEW c \in Conn, Push(s, c)
    PROVE  DeliveryOK' /\ OnceInv'
<1>1. /\ UNCHANGED <<queue, cb, msg, written, published>>
      /\ cb[s] = "push" /\ c \in targets[s]
      /\ targets' = [targets EXCEPT ![s] = @ \ {c}]
  BY DEF Push
<1>2. msg[s] \in Notif /\ msg[s] \in Pending(s) /\ msg[s] \notin Range(Got(c))
  BY <1>1 DEF DeliveryOK, Pending, OnceInv
<1>3. \A t \in Conn : Pending(t)' = Pending(t)
  BY <1>1 DEF Pending
<1>4. \A t \in Conn : targets'[t] \subseteq targets[t]
  BY <1>1 DEF DeliveryOK
<1>5. c \notin targets'[s]
  BY <1>1 DEF DeliveryOK
<1>6. \A x \in Conn : Got(x) \in Seq(Notif)
  BY ConcatIndex DEF DeliveryOK, Got
<1>7. /\ send' \in [Conn -> Seq(Notif)]
      /\ \A x \in Conn : x # c => Got(x)' = Got(x)
      /\ Got(c)' = Got(c) \/ Got(c)' = Append(Got(c), msg[s])
  BY PushGot
<1>8. DeliveryOK'
  BY <1>1, <1>7 DEF DeliveryOK
<1>9. /\ Range(Got(c)') \subseteq Range(Got(c)) \cup {msg[s]}
      /\ IsInjective(Got(c)')
  <2>1. IsInjective(Got(c)) /\ Got(c) \in Seq(Notif)
    BY <1>6 DEF OnceInv
  <2>2. /\ Range(Append(Got(c), msg[s])) = Range(Got(c)) \cup {msg[s]}
        /\ IsInjective(Append(Got(c), msg[s]))
    BY <2>1, <1>2, AppendFacts
  <2> QED BY <2>1, <2>2, <1>7
<1>10. (\A t \in Conn : \A n \in Pending(t) : n <= published)'
  BY <1>1, <1>3 DEF OnceInv
<1>11. (\A t, u \in Conn : t # u => Pending(t) \cap Pending(u) = {})'
  <2>1. \A t, u \in Conn : t # u => Pending(t) \cap Pending(u) = {}
    BY DEF OnceInv
  <2> QED BY <2>1, <1>3
<1>12. (\A x \in Conn : \A n \in Range(Got(x)) : n <= published)'
  <2>1. msg[s] <= published
    BY <1>2 DEF OnceInv
  <2>2. \A x \in Conn : \A n \in Range(Got(x)) : n <= published
    BY DEF OnceInv
  <2> QED BY <2>1, <2>2, <1>1, <1>7, <1>9
<1>13. (\A t, x \in Conn : Range(queue[t]) \cap Range(Got(x)) = {})'
  <2>1. \A t \in Conn : msg[s] \notin Range(queue[t])
    <3>1. msg[s] \notin Range(queue[s])
      BY <1>1 DEF OnceInv
    <3>2. \A t \in Conn : Range(queue[t]) \subseteq Pending(t)
      BY DEF Pending
    <3>3. \A t \in Conn : t # s => msg[s] \notin Pending(t)
      BY <1>2 DEF OnceInv
    <3> QED BY <3>1, <3>2, <3>3
  <2>2. \A t, x \in Conn : Range(queue[t]) \cap Range(Got(x)) = {}
    BY DEF OnceInv
  <2> SUFFICES ASSUME NEW t \in Conn, NEW x \in Conn
               PROVE  Range(queue'[t]) \cap Range(Got(x)') = {}
    OBVIOUS
  <2>3. queue'[t] = queue[t] /\ Range(queue[t]) \cap Range(Got(x)) = {}
    BY <2>2, <1>1
  <2>4. Range(Got(x)') \subseteq Range(Got(x)) \cup {msg[s]}
    BY <1>7, <1>9
  <2> QED BY <2>1, <2>3, <2>4
<1>14. (\A t, x \in Conn : cb[t] = "start" \/ x \in targets[t] => msg[t] \notin Range(Got(x)))'
  <2> SUFFICES ASSUME NEW t \in Conn, NEW x \in Conn, cb'[t] = "start" \/ x \in targets'[t]
               PROVE  msg'[t] \notin Range(Got(x)')
    OBVIOUS
  <2>1. cb[t] = "start" \/ x \in targets[t]
    BY <1>1, <1>4
  <2>2. msg'[t] = msg[t] /\ msg[t] \notin Range(Got(x))
    BY <2>1, <1>1 DEF OnceInv
  <2>3. CASE x # c
    BY <2>2, <2>3, <1>7
  <2>4. CASE x = c
    <3>1. t # s
      BY <2>4, <1>1, <1>5
    <3>2. cb[t] # "idle"
      BY <2>1 DEF DeliveryOK
    <3>3. msg[t] \in Pending(t)
      BY <3>2 DEF Pending
    <3>4. msg[t] # msg[s]
      BY <3>1, <3>3, <1>2 DEF OnceInv
    <3> QED BY <2>2, <2>4, <3>4, <1>9
  <2> QED BY <2>3, <2>4
<1>15. (\A x \in Conn : IsInjective(Got(x)))'
  BY <1>7, <1>9 DEF OnceInv
<1>16. (/\ \A t \in Conn : IsInjective(queue[t])
        /\ \A t \in Conn : cb[t] # "idle" => msg[t] \notin Range(queue[t]))'
  BY <1>1 DEF OnceInv
<1> QED BY <1>8, <1>10, <1>11, <1>12, <1>13, <1>14, <1>15, <1>16 DEF OnceInv

\* The callback has served everybody: the message no longer waits.
LEMMA ReturnOnce ==
    ASSUME DeliveryOK, OnceInv, NEW s \in Conn, Return(s)
    PROVE  DeliveryOK' /\ OnceInv'
<1>1. /\ UNCHANGED <<queue, targets, send, written, published>>
      /\ cb[s] = "push" /\ targets[s] = {}
      /\ cb' = [cb EXCEPT ![s] = "idle"] /\ msg' = [msg EXCEPT ![s] = 0]
  BY DEF Return
<1>2. DeliveryOK'
  BY <1>1 DEF DeliveryOK
<1>3. cb'[s] = "idle" /\ \A t \in Conn : t # s => cb'[t] = cb[t] /\ msg'[t] = msg[t]
  BY <1>1 DEF DeliveryOK
<1>4. \A t \in Conn : Pending(t)' \subseteq Pending(t)
  BY <1>1, <1>3 DEF Pending
<1>5. \A x \in Conn : Got(x)' = Got(x)
  BY <1>1 DEF Got
<1>6. (\A t \in Conn : \A n \in Pending(t) : n <= published)'
  BY <1>1, <1>4 DEF OnceInv
<1>7. (\A t, u \in Conn : t # u => Pending(t) \cap Pending(u) = {})'
  <2> SUFFICES ASSUME NEW t \in Conn, NEW u \in Conn, t # u
               PROVE  Pending(t)' \cap Pending(u)' = {}
    OBVIOUS
  <2>1. Pending(t) \cap Pending(u) = {}
    BY DEF OnceInv
  <2> QED BY <2>1, <1>4
<1>8. (\A t, x \in Conn : cb[t] = "start" \/ x \in targets[t] => msg[t] \notin Range(Got(x)))'
  BY <1>1, <1>3, <1>5 DEF OnceInv
<1>9. (/\ \A t \in Conn : IsInjective(queue[t])
       /\ \A t \in Conn : cb[t] # "idle" => msg[t] \notin Range(queue[t])
       /\ \A x \in Conn : \A n \in Range(Got(x)) : n <= published
       /\ \A t, x \in Conn : Range(queue[t]) \cap Range(Got(x)) = {}
       /\ \A x \in Conn : IsInjective(Got(x)))'
  BY <1>1, <1>3, <1>5 DEF OnceInv
<1> QED BY <1>2, <1>6, <1>7, <1>8, <1>9 DEF OnceInv

\* WritePump moves a message from the channel to the socket.
LEMMA WriteGot ==
    ASSUME DeliveryOK, NEW c \in Conn, Write(c)
    PROVE  DeliveryOK' /\ \A x \in Conn : Got(x)' = Got(x)
<1>1. /\ UNCHANGED <<queue, cb, msg, targets, published>> /\ send[c] # <<>>
      /\ written' = [written EXCEPT ![c] = Append(@, Head(send[c]))]
      /\ send' = [send EXCEPT ![c] = Tail(@)]
  BY DEF Write
<1>2. send[c] \in Seq(Notif) /\ written[c] \in Seq(Notif)
  BY DEF DeliveryOK
<1>3. Head(send[c]) \in Notif /\ Tail(send[c]) \in Seq(Notif)
  BY <1>1, <1>2, HeadTailFacts
<1>4. DeliveryOK'
  BY <1>1, <1>2, <1>3 DEF DeliveryOK
<1>5. \A x \in Conn : x # c => Got(x)' = Got(x)
  BY <1>1 DEF DeliveryOK, Got
<1>6. Got(c)' = Got(c)
  <2>1. written'[c] = Append(written[c], Head(send[c])) /\ send'[c] = Tail(send[c])
    BY <1>1 DEF DeliveryOK
  <2>2. Append(written[c], Head(send[c])) \o Tail(send[c]) = written[c] \o send[c]
    BY <1>1, <1>2, ConcatMove
  <2> QED BY <2>1, <2>2 DEF Got
<1> QED BY <1>4, <1>5, <1>6

\* It changes nothing of what a connection has got.
LEMMA WriteOnce ==
    ASSUME DeliveryOK, OnceInv, NEW c \in Conn, Write(c)
    PROVE  DeliveryOK' /\ OnceInv'
<1>1. UNCHANGED <<queue, cb, msg, targets, published>>
  BY DEF Write
<1>2. DeliveryOK' /\ \A x \in Conn : Got(x)' = Got(x)
  BY WriteGot
<1>3. \A t \in Conn : Pending(t)' = Pending(t)
  BY <1>1 DEF Pending
<1>4. OnceInv'
  BY <1>1, <1>2, <1>3 DEF OnceInv
<1> QED BY <1>2, <1>4

\* Every step keeps it.
LEMMA NextOnce == Inv /\ DeliveryOK /\ OnceInv /\ [Next]_vars => DeliveryOK' /\ OnceInv'
<1> SUFFICES ASSUME Inv, DeliveryOK, OnceInv, [Next]_vars PROVE DeliveryOK' /\ OnceInv'
  OBVIOUS
<1>1. CASE \E c \in Conn, d \in Device : Register(c, d)
  BY <1>1, OnceOther DEF Register
<1>2. CASE \E c \in Conn : Disconnect(c)
  BY <1>2, OnceOther DEF Disconnect
<1>3. CASE \E c \in Conn : Handler(c)
  BY <1>3, OnceOther, UnsubscribeOnce
     DEF Handler, SubscribeUser, SubscribeFails, ReadFails, Unregister, IsOnline
<1>4. CASE \E c \in Conn : WritePump(c)
  BY <1>4, OnceOther, WriteOnce DEF WritePump, WriterStops
<1>5. CASE \E s \in Conn : Callback(s)
  BY <1>5, ReceiveOnce, SnapshotOnce, PushOnce, ReturnOnce DEF Callback
<1>6. CASE PublishToUser
  BY <1>6, PublishOnce
<1>7. CASE UNCHANGED vars
  BY <1>7, OnceOther DEF vars
<1> QED BY <1>1, <1>2, <1>3, <1>4, <1>5, <1>6, <1>7 DEF Next

\* The invariant of the delivery holds always.
LEMMA OnceCorrect == Spec => [](DeliveryOK /\ OnceInv)
<1>1. Inv /\ (DeliveryOK /\ OnceInv) /\ [Next]_vars => (DeliveryOK /\ OnceInv)'
  BY NextOnce
<1> QED BY <1>1, InitOnce, InvCorrect, PTL DEF Spec

\* No device is given a notification twice, however callbacks, replaced
\* subscriptions and write pumps overlap.
THEOREM AtMostOnceCorrect == Spec => []AtMostOnce
<1>1. OnceInv => AtMostOnce
  BY DEF OnceInv, Got, AtMostOnce
<1> QED BY <1>1, OnceCorrect, PTL


\* Notification n of subscription s is accounted for as far as c is concerned.
Accounted(n, c, s) ==
    \/ n \in Range(queue[s])
    \/ msg[s] = n /\ (cb[s] = "start" \/ c \in targets[s])
    \/ n \in Range(Got(c))
    \/ <<n, c>> \in dropped
    \/ c \notin Online
    \/ s \notin live

\* Everything that is owed is accounted for.
LossInv ==
    \A n \in Notif, c, s \in Conn : <<n, c, s>> \in owed => Accounted(n, c, s)

\* What a connection has got is what waits in Send and what was written.
LEMMA GotRange ==
    ASSUME DeliveryOK, NEW c \in Conn
    PROVE  Range(Got(c)) = Range(send[c]) \cup Range(written[c])
<1>1. written[c] \in Seq(Notif) /\ send[c] \in Seq(Notif)
  BY DEF DeliveryOK
<1>2. \A w, q \in Seq(Notif) : Range(w \o q) = Range(w) \cup Range(q)
  BY ConcatRange
<1>3. Range(written[c] \o send[c]) = Range(written[c]) \cup Range(send[c])
  BY <1>1, <1>2, Zenon
<1> QED BY <1>3 DEF Got

\* What the handlers do: they go forward, a connection that registers and one
\* that subscribes are owed nothing yet, and the queue that UnsubscribeUser
\* empties is the one of the subscription it removes.
LEMMA HandlersLoss ==
    ASSUME Inv, OwedInv, LossInv, NEW c \in Conn,
           (\E d \in Device : Register(c, d)) \/ Handler(c)
    PROVE  OwedInv' /\ LossInv'
<1>1. UNCHANGED <<cb, msg, targets, send, written, owed, dropped>>
  BY DEF Register, Handler, SubscribeUser, SubscribeFails, ReadFails, Unregister,
         IsOnline, UnsubscribeUser
<1>2. \A x \in Conn : Got(x)' = Got(x)
  BY <1>1 DEF Got
<1>3. \A x \in Conn : x \in Online' => x \in Online \/ pc[x] = "new"
  <2>1. CASE \E d \in Device : Register(c, d)
    BY <2>1 DEF Register, Online, Inv, RegistryOK
  <2>2. CASE Unregister(c)
    BY <2>2, RealtimeAssumption DEF Unregister, Online, Inv, RegistryOK
  <2>3. CASE ~Unregister(c) /\ Handler(c)
    <3>1. clients' = clients
      BY <2>3 DEF Handler, SubscribeUser, SubscribeFails, ReadFails, IsOnline, UnsubscribeUser
    <3> QED BY <3>1 DEF Online
  <2> QED BY <2>1, <2>2, <2>3
<1>4. \A x \in Conn : pc'[x] = "new" => pc[x] = "new"
  BY DEF Register, Handler, SubscribeUser, SubscribeFails, ReadFails, Unregister,
         IsOnline, UnsubscribeUser, Inv, RegistryOK
<1>5. \A x \in Conn : pc'[x] \in {"new", "subscribe"} => pc[x] \in {"new", "subscribe"}
  BY DEF Register, Handler, SubscribeUser, SubscribeFails, ReadFails, Unregister,
         IsOnline, UnsubscribeUser, Inv, RegistryOK
<1>6. live' \subseteq Conn /\ \A x \in live' :
        x \in live \/ (x = c /\ pc[c] = "subscribe" /\ pc'[c] = "read")
  BY DEF Register, Handler, SubscribeUser, SubscribeFails, ReadFails, Unregister,
         IsOnline, UnsubscribeUser, Inv, RegistryOK
<1>8. \A x \in Conn : queue'[x] = queue[x] \/ x \notin live'
  BY DEF Register, Handler, SubscribeUser, SubscribeFails, ReadFails, Unregister,
         IsOnline, UnsubscribeUser, Inv, RegistryOK
<1>9. OwedInv'
  BY <1>1, <1>4, <1>5, <1>6 DEF OwedInv
<1>10. ASSUME NEW n \in Notif, NEW x \in Conn, NEW s \in Conn,
              <<n, x, s>> \in owed
       PROVE  Accounted(n, x, s)'
  <2>1. pc[x] # "new" /\ pc[s] \notin {"new", "subscribe"}
    BY <1>10 DEF OwedInv
  <2>2. (x \in Online' => x \in Online) /\ (s \in live' => s \in live)
    BY <2>1, <1>3, <1>6
  <2>3. Accounted(n, x, s)
    BY <1>10 DEF LossInv
  <2> QED BY <2>2, <2>3, <1>1, <1>2, <1>8 DEF Accounted
<1> QED BY <1>1, <1>9, <1>10 DEF LossInv

\* What is published waits in the queue of the subscription that is live.
LEMMA PublishLoss ==
    ASSUME Inv, DeliveryOK, OwedInv, LossInv, PublishToUser
    PROVE  OwedInv' /\ LossInv'
<1>1. /\ UNCHANGED <<pc, cb, msg, targets, send, written, dropped, clients, live>>
      /\ published + 1 \in Notif
      /\ owed' = owed \cup {<<published + 1, c, s>> : c \in Online, s \in live}
      /\ \A s \in Conn : queue'[s] = IF s \in live THEN Append(queue[s], published + 1)
                                                   ELSE queue[s]
  BY RealtimeAssumption DEF PublishToUser, DeliveryOK, Notif, registry
<1>2. \A s \in Conn : Range(queue[s]) \subseteq Range(queue'[s])
  <2> SUFFICES ASSUME NEW s \in live, s \in Conn PROVE Range(queue[s]) \subseteq Range(queue'[s])
    BY <1>1
  <2>1. queue[s] \in Seq(Notif) /\ queue'[s] = Append(queue[s], published + 1)
    BY <1>1 DEF DeliveryOK
  <2>2. Range(Append(queue[s], published + 1)) = Range(queue[s]) \cup {published + 1}
    BY <2>1, <1>1, AppendFacts
  <2> QED BY <2>1, <2>2
<1>3. \A s \in live : s \in Conn /\ published + 1 \in Range(queue'[s])
  <2> SUFFICES ASSUME NEW s \in live PROVE s \in Conn /\ published + 1 \in Range(queue'[s])
    OBVIOUS
  <2>1. /\ s \in Conn /\ queue[s] \in Seq(Notif)
        /\ queue'[s] = Append(queue[s], published + 1)
    BY <1>1 DEF DeliveryOK, Inv, RegistryOK
  <2>2. Range(Append(queue[s], published + 1)) = Range(queue[s]) \cup {published + 1}
    BY <2>1, <1>1, AppendFacts
  <2> QED BY <2>1, <2>2
<1>4. Online' = Online /\ \A x \in Conn : Got(x)' = Got(x)
  BY <1>1 DEF Online, Got
<1>5. \A x \in Online : x \in Conn /\ pc[x] # "new"
  BY RealtimeAssumption DEF Online, Inv, RegistryInv
<1>6. OwedInv'
  BY <1>1, <1>3, <1>5 DEF OwedInv
<1>7. ASSUME NEW n \in Notif, NEW x \in Conn, NEW s \in Conn, <<n, x, s>> \in owed'
      PROVE  Accounted(n, x, s)'
  <2>1. CASE <<n, x, s>> \in owed
    <3>1. Accounted(n, x, s)
      BY <2>1 DEF LossInv
    <3> QED BY <3>1, <1>1, <1>2, <1>4 DEF Accounted
  <2>2. CASE <<n, x, s>> \notin owed
    <3>1. s \in live /\ n = published + 1
      BY <2>2, <1>1, <1>7
    <3> QED BY <3>1, <1>3 DEF Accounted
  <2> QED BY <2>1, <2>2
<1> QED BY <1>6, <1>7 DEF LossInv

\* A step of the callbacks and the write pumps leaves the handlers alone.
LEMMA OwedOther ==
    ASSUME OwedInv, UNCHANGED <<pc, clients, live, owed>>
    PROVE  OwedInv' /\ Online' = Online
BY DEF OwedInv, Online

\* What the callback takes from the queue is what it handles.
LEMMA ReceiveLoss ==
    ASSUME DeliveryOK, OwedInv, LossInv, NEW t \in Conn, Receive(t)
    PROVE  OwedInv' /\ LossInv'
<1>1. /\ UNCHANGED <<pc, clients, live, owed, targets, send, written, dropped>>
      /\ cb[t] = "idle" /\ queue[t] # <<>> /\ targets[t] = {}
      /\ queue[t] \in Seq(Notif) /\ queue'[t] = Tail(queue[t])
      /\ msg'[t] = Head(queue[t]) /\ cb'[t] = "start"
      /\ \A s \in Conn : s # t => queue'[s] = queue[s] /\ msg'[s] = msg[s] /\ cb'[s] = cb[s]
  BY DEF Receive, DeliveryOK
<1>2. Range(queue[t]) = Range(queue'[t]) \cup {msg'[t]}
  BY <1>1, HeadTailFacts
<1>3. OwedInv' /\ Online' = Online /\ \A x \in Conn : Got(x)' = Got(x)
  BY <1>1, OwedOther DEF Got
<1>4. ASSUME NEW n \in Notif, NEW x \in Conn, NEW s \in Conn, <<n, x, s>> \in owed'
      PROVE  Accounted(n, x, s)'
  <2>1. Accounted(n, x, s)
    BY <1>1, <1>4 DEF LossInv
  <2>2. CASE s = t
    BY <2>1, <2>2, <1>1, <1>2, <1>3 DEF Accounted
  <2>3. CASE s # t
    BY <2>1, <2>3, <1>1, <1>3 DEF Accounted
  <2> QED BY <2>2, <2>3
<1> QED BY <1>3, <1>4 DEF LossInv

\* Every client that is registered when the clients are copied is in the copy.
LEMMA SnapshotLoss ==
    ASSUME DeliveryOK, OwedInv, LossInv, NEW t \in Conn, Snapshot(t)
    PROVE  OwedInv' /\ LossInv'
<1>1. /\ UNCHANGED <<pc, clients, live, owed, queue, msg, send, written, dropped>>
      /\ cb[t] = "start" /\ targets'[t] = Online
      /\ \A s \in Conn : s # t => targets'[s] = targets[s] /\ cb'[s] = cb[s]
  BY DEF Snapshot, DeliveryOK
<1>2. OwedInv' /\ Online' = Online /\ \A x \in Conn : Got(x)' = Got(x)
  BY <1>1, OwedOther DEF Got
<1>3. ASSUME NEW n \in Notif, NEW x \in Conn, NEW s \in Conn, <<n, x, s>> \in owed'
      PROVE  Accounted(n, x, s)'
  <2>1. Accounted(n, x, s)
    BY <1>1, <1>3 DEF LossInv
  <2>2. CASE s = t
    BY <2>1, <2>2, <1>1, <1>2 DEF Accounted
  <2>3. CASE s # t
    BY <2>1, <2>3, <1>1, <1>2 DEF Accounted
  <2> QED BY <2>2, <2>3
<1> QED BY <1>2, <1>3 DEF LossInv

\* Whoever is taken off the list has the message or a report of its loss.
LEMMA PushLoss ==
    ASSUME DeliveryOK, OwedInv, LossInv, NEW t \in Conn, NEW c \in Conn, Push(t, c)
    PROVE  OwedInv' /\ LossInv'
<1>1. /\ UNCHANGED <<pc, clients, live, owed, queue, msg, cb>>
      /\ targets'[t] = targets[t] \ {c} /\ msg[t] \in Notif
      /\ \A s \in Conn : s # t => targets'[s] = targets[s]
  BY DEF Push, DeliveryOK
<1>2. dropped \subseteq dropped'
  BY DEF Push, Enqueue, Drop
<1>3. OwedInv' /\ Online' = Online
  BY <1>1, OwedOther
<1>4. /\ \A x \in Conn : x # c => Got(x)' = Got(x)
      /\ Range(Got(c)) \subseteq Range(Got(c)')
      /\ msg[t] \in Range(Got(c)') \/ <<msg[t], c>> \in dropped'
  <2>1. Got(c) \in Seq(Notif)
    BY ConcatIndex DEF DeliveryOK, Got
  <2>2. Range(Append(Got(c), msg[t])) = Range(Got(c)) \cup {msg[t]}
    BY <2>1, <1>1, AppendFacts
  <2>3. /\ \A x \in Conn : x # c => Got(x)' = Got(x)
        /\ \/ Got(c)' = Append(Got(c), msg[t])
           \/ Got(c)' = Got(c) /\ <<msg[t], c>> \in dropped'
    BY PushGot
  <2> QED BY <2>2, <2>3
<1>5. ASSUME NEW n \in Notif, NEW x \in Conn, NEW s \in Conn, <<n, x, s>> \in owed'
      PROVE  Accounted(n, x, s)'
  <2>1. Accounted(n, x, s)
    BY <1>1, <1>5 DEF LossInv
  <2>2. CASE x = c
    BY <2>1, <2>2, <1>1, <1>2, <1>3, <1>4 DEF Accounted
  <2>3. CASE x # c
    BY <2>1, <2>3, <1>1, <1>2, <1>3, <1>4 DEF Accounted
  <2> QED BY <2>2, <2>3
<1> QED BY <1>3, <1>5 DEF LossInv

\* A callback returns when it has served every client of its copy.
LEMMA ReturnLoss ==
    ASSUME DeliveryOK, OwedInv, LossInv, NEW t \in Conn, Return(t)
    PROVE  OwedInv' /\ LossInv'
<1>1. /\ UNCHANGED <<pc, clients, live, owed, queue, targets, send, written, dropped>>
      /\ cb[t] = "push" /\ targets[t] = {}
      /\ \A s \in Conn : s # t => msg'[s] = msg[s] /\ cb'[s] = cb[s]
  BY DEF Return, DeliveryOK
<1>2. OwedInv' /\ Online' = Online /\ \A x \in Conn : Got(x)' = Got(x)
  BY <1>1, OwedOther DEF Got
<1>3. ASSUME NEW n \in Notif, NEW x \in Conn, NEW s \in Conn, <<n, x, s>> \in owed'
      PROVE  Accounted(n, x, s)'
  <2>1. Accounted(n, x, s)
    BY <1>1, <1>3 DEF LossInv
  <2> QED BY <2>1, <1>1, <1>2 DEF Accounted
<1> QED BY <1>2, <1>3 DEF LossInv

\* A step that changes neither the queues nor what the connections have got.
LEMMA LossOther ==
    ASSUME OwedInv, LossInv, \A x \in Conn : Got(x)' = Got(x),
           UNCHANGED <<pc, clients, live, owed, queue, cb, msg, targets, dropped>>
    PROVE  OwedInv' /\ LossInv'
<1>1. OwedInv' /\ Online' = Online
  BY OwedOther
<1> QED BY <1>1 DEF LossInv, Accounted

\* Every step keeps what is owed accounted for.
LEMMA NextLoss ==
    Inv /\ DeliveryOK /\ OwedInv /\ LossInv /\ [Next]_vars => OwedInv' /\ LossInv'
<1> SUFFICES ASSUME Inv, DeliveryOK, OwedInv, LossInv, [Next]_vars
             PROVE  OwedInv' /\ LossInv'
  OBVIOUS
<1>1. CASE \E c \in Conn : (\E d \in Device : Register(c, d)) \/ Handler(c)
  BY <1>1, HandlersLoss
<1>2. CASE \E c \in Conn : Disconnect(c) \/ WriterStops(c)
  BY <1>2, LossOther DEF Disconnect, WriterStops, Got
<1>3. CASE \E c \in Conn : Write(c)
  <2>1. PICK c \in Conn : Write(c)
    BY <1>3
  <2>2. /\ UNCHANGED <<pc, clients, live, owed, queue, cb, msg, targets, dropped>>
        /\ \A x \in Conn : Got(x)' = Got(x)
    BY <2>1, WriteGot DEF Write
  <2> QED BY <2>2, LossOther
<1>4. CASE \E s \in Conn : Callback(s)
  BY <1>4, ReceiveLoss, SnapshotLoss, PushLoss, ReturnLoss DEF Callback
<1>5. CASE PublishToUser
  BY <1>5, PublishLoss
<1>6. CASE UNCHANGED vars
  BY <1>6, LossOther DEF vars, Got
<1> QED BY <1>1, <1>2, <1>3, <1>4, <1>5, <1>6 DEF Next, WritePump

\* What is owed is accounted for always.
LEMMA LossCorrect == Spec => [](OwedInv /\ LossInv)
<1>1. Init => OwedInv /\ LossInv
  BY DEF Init, OwedInv, LossInv
<1>2. Inv /\ DeliveryOK /\ (OwedInv /\ LossInv) /\ [Next]_vars => (OwedInv /\ LossInv)'
  BY NextLoss
<1> QED BY <1>1, <1>2, InvCorrect, OnceCorrect, PTL DEF Spec

\* A notification that reached the subscription of the user is waiting, handled,
\* delivered or reported as dropped for every device that stays connected.
THEOREM NoSilentLossCorrect == Spec => []NoSilentLoss
<1>1. DeliveryOK /\ OwedInv /\ LossInv => NoSilentLoss
  <2> SUFFICES ASSUME DeliveryOK, OwedInv, LossInv, NEW o \in owed
               PROVE  LET n == o[1]  c == o[2]  s == o[3] IN
                      \/ n \in Range(queue[s])
                      \/ msg[s] = n /\ (cb[s] = "start" \/ c \in targets[s])
                      \/ n \in Range(send[c]) \cup Range(written[c])
                      \/ <<n, c>> \in dropped
                      \/ c \notin Online
                      \/ s \notin live
    BY DEF NoSilentLoss
  <2>1. PICK n \in Notif, c \in Conn, s \in Conn : o = <<n, c, s>>
    BY DEF OwedInv
  <2>2. Accounted(n, c, s)
    BY <2>1 DEF LossInv
  <2>3. Range(Got(c)) = Range(send[c]) \cup Range(written[c])
    BY GotRange
  <2> QED BY <2>1, <2>2, <2>3 DEF Accounted
<1> QED BY <1>1, OnceCorrect, LossCorrect, PTL
\* What TypeOK says of the sockets and of what was dropped.
SocketOK ==
    /\ writer \in [Conn -> {"off", "running", "stopped"}]
    /\ closed \subseteq Conn
    /\ dropped \subseteq Notif \X Conn

\* Every step keeps that.
LEMMA NextSocket == Inv /\ DeliveryOK /\ SocketOK /\ [Next]_vars => SocketOK'
<1> SUFFICES ASSUME Inv, DeliveryOK, SocketOK, [Next]_vars PROVE SocketOK'
  OBVIOUS
<1>1. CASE \E c \in Conn : \/ \E d \in Device : Register(c, d)
                           \/ Disconnect(c) \/ Handler(c)
  BY <1>1 DEF SocketOK, Register, Disconnect, Handler, SubscribeUser, SubscribeFails,
              ReadFails, Unregister, IsOnline, UnsubscribeUser
<1>2. CASE \E c \in Conn : WritePump(c)
  BY <1>2 DEF SocketOK, WritePump, Write, WriterStops
<1>3. CASE \E s, c \in Conn : Push(s, c)
  <2>1. PICK s \in Conn, c \in Conn : Push(s, c) BY <1>3
  <2>2. msg[s] \in Notif BY <2>1 DEF Push, DeliveryOK
  <2> QED BY <2>1, <2>2 DEF SocketOK, Push, Enqueue, Drop
<1>4. CASE PublishToUser \/ \E s \in Conn : Receive(s) \/ Snapshot(s) \/ Return(s)
  BY <1>4 DEF SocketOK, PublishToUser, Receive, Snapshot, Return
<1>5. CASE UNCHANGED vars
  BY <1>5 DEF SocketOK, vars
<1> QED BY <1>1, <1>2, <1>3, <1>4, <1>5 DEF Next, Callback

\* Every variable of Realtime keeps its type, and whoever is registered is so under
\* his own device.
THEOREM RealtimeTypeCorrect == Spec => []TypeOK
<1>1. Init => SocketOK BY DEF Init, SocketOK
<1>2. Spec => []SocketOK BY <1>1, NextSocket, InvCorrect, OnceCorrect, PTL DEF Spec
<1>3. Inv /\ DeliveryOK /\ OwedInv /\ SocketOK => TypeOK
  BY DEF Inv, RegistryOK, RegistryInv, DeliveryOK, OwedInv, SocketOK, TypeOK
<1> QED BY <1>2, <1>3, InvCorrect, OnceCorrect, LossCorrect, PTL

-----------------------------------------------------------------------------
(* The way of a request. *)

\* What is known of the tables of handlers: each checks the user and the fields
\* at most, and every operation a service calls has a handler.
CheckList == Seq({"user", "fields"})
Called == {"GetConversation", "IsMember", "IsBlocked", "IsFriend", "GetGroupMembers",
           "UnpinGroupMessage", "GetMessageById", "SendMessage", "GetUserInfo",
           "CreateOrUpdateConversation", "GetSettingsOf"}

\* How deep the calls of an operation go: SetGroupMute sends a message, for which
\* the conversation is looked up.
Depth(o) ==
    IF o \in {"SetGroupMute", "GetFriendList", "GetFriendRequests", "GetBlacklist"} THEN 2
    ELSE IF o \in {"SendMessage", "SendTyping", "GetMessagesBefore", "GetMessagesAfter",
                   "GetMessagesAroundAnchor", "GetFirstUnreadAnchor", "MarkAsRead",
                   "MarkMessagesRead", "GetUnreadCount", "GetReadReceipts",
                   "SearchMessages", "RecallMessage", "DeleteMessage", "PinGroupMessage",
                   "SendFriendRequest", "GetUserInfo", "InitiateCall"} THEN 1
    ELSE 0

CallSet == [op : Op, policy : {"lookup", "required", "bestEffort"}, appends : BOOLEAN]
FrameSet ==
    [op : Op, user : CallUser, fields : BOOLEAN, checks : CheckList,
     at : {"handler", "service", "written"}, plan : Seq(CallSet \cup {Effect})]

\* A call that an operation makes: one that goes less deep.
CallOf(o, call) == call \in CallSet /\ Depth(call.op) < Depth(o)

\* The rest of a plan before and after its effect.  No lookup comes after it.
Behind(o, p) == \A k \in 1..Len(p) : CallOf(o, p[k]) /\ p[k].policy # "lookup"
Ahead(o, p) ==
    \E n \in 1..Len(p) :
        /\ p[n] = Effect
        /\ \A k \in 1..Len(p) : k # n => CallOf(o, p[k])
        /\ \A k \in 1..Len(p) : k > n => p[k].policy # "lookup"

\* Nobody is the caller without a valid token, and only direct clients claim to
\* be somebody.
Entitled(user) ==
    (user = "caller" => token = "valid") /\ (user = "claimed" => entry = "service")

\* A handler that needs a user has one or has yet to check that it has.
Vetted(f) ==
    \/ f.user # "none"
    \/ f.at = "handler" /\ \E k \in 1..Len(f.checks) : f.checks[k] = "user"
    \/ ~NeedsUser(f.op)

FrameOK(f) ==
    /\ f \in FrameSet
    /\ Entitled(f.user)
    /\ Vetted(f)
    /\ f.at = "service" => Ahead(f.op, f.plan)
    /\ f.at = "written" => Behind(f.op, f.plan)

\* A call that waits for the one it made.
Waiting(f) == f.at # "handler" /\ f.plan # <<>> /\ Head(f.plan) # Effect

StackOK(s, c) ==
    /\ s \in Seq(FrameSet)
    /\ \A i \in 1..Len(s) : FrameOK(s[i])
    /\ \A i \in 1..Len(s) : i < Len(s) \/ c # "none" => Waiting(s[i])
    /\ \A i, j \in 1..Len(s) : i < j => Depth(s[j].op) < Depth(s[i].op)

\* The request is one the servers take, and its calls are in order.
RequestOK ==
    /\ entry \in Entry /\ op \in Op
    /\ token \in {"valid", "bad", "unchecked"} /\ fields \in BOOLEAN
    /\ phase \in {"arrived", "admitted", "called", "answered"}
    /\ code \in Code /\ blame \in Cause
    /\ late \subseteq Op /\ effects \subseteq Op
    /\ entry = "websocket" => token = "valid"
    /\ entry = "service" => token = "unchecked"

PathInv == RequestOK /\ StackOK(stack, code)

\* What has happened so far is what the state of the first call tells.
EffectInv ==
    /\ phase \in {"arrived", "admitted"} =>
         /\ stack = <<>> /\ code = "none" /\ answer = "none"
         /\ effects = {} /\ late = {}
    /\ phase = "called" => answer = "none" /\ (stack = <<>> => code # "none")
    /\ phase = "answered" => stack = <<>>
    /\ stack # <<>> =>
         /\ stack[1].op = op
         /\ op \in effects <=> stack[1].at = "written"
         /\ op \notin late
    /\ stack = <<>> /\ code = "OK" => op \in effects
    /\ stack = <<>> /\ code \notin {"OK", "Internal", "DeadlineExceeded"} =>
         /\ op \notin effects \cup late
         /\ code # "none" => blame \notin ServerFault

-----------------------------------------------------------------------------
\* A merged table knows the operations of its parts and has their check lists.
LEMMA MergedTables ==
    ASSUME NEW tables, \A t \in tables : \A o \in DOMAIN t : t[o] \in CheckList
    PROVE  /\ \A t \in tables : DOMAIN t \subseteq DOMAIN Merged(tables)
           /\ \A o \in DOMAIN Merged(tables) : Merged(tables)[o] \in CheckList
<1>1. DOMAIN Merged(tables) = UNION {DOMAIN t : t \in tables}
  BY DEF Merged
<1>2. \A t \in tables : DOMAIN t \subseteq DOMAIN Merged(tables)
  BY <1>1
<1>3. ASSUME NEW o \in DOMAIN Merged(tables) PROVE Merged(tables)[o] \in CheckList
  <2>1. \E t \in tables : o \in DOMAIN t
    BY <1>1, <1>3
  <2>2. /\ (CHOOSE t \in tables : o \in DOMAIN t) \in tables
        /\ o \in DOMAIN (CHOOSE t \in tables : o \in DOMAIN t)
    BY <2>1
  <2>3. Merged(tables)[o] = (CHOOSE t \in tables : o \in DOMAIN t)[o]
    BY <1>1, <1>3 DEF Merged
  <2> QED BY <2>2, <2>3
<1> QED BY <1>2, <1>3

\* A table whose check lists are proper.
Proper(t) == \A o \in DOMAIN t : t[o] \in CheckList

\* The five orders of checks.
LEMMA Lists ==
    /\ Own \in CheckList /\ FieldOwn \in CheckList /\ OwnFree \in CheckList
    /\ Open \in CheckList /\ Free \in CheckList
BY DEF Own, FieldOwn, OwnFree, Open, Free, CheckList

\* The tables of the message service are proper,
LEMMA MessageTables ==
    Proper(MessageReads) /\ Proper(MessageAnchors) /\ Proper(MessageMarks) /\ Proper(MessageRest)
<1>1. Proper(MessageReads) BY Lists DEF Proper, MessageReads
<1>2. Proper(MessageAnchors) BY Lists DEF Proper, MessageAnchors
<1>3. Proper(MessageMarks) BY Lists DEF Proper, MessageMarks
<1>4. Proper(MessageRest) BY Lists DEF Proper, MessageRest
<1> QED BY <1>1, <1>2, <1>3, <1>4

\* those of the group service,
LEMMA GroupTables ==
    Proper(GroupReads) /\ Proper(GroupMembers) /\ Proper(GroupSettings)
    /\ Proper(GroupByCode) /\ Proper(GroupInternal)
<1>1. Proper(GroupReads) BY Lists DEF Proper, GroupReads
<1>2. Proper(GroupMembers) BY Lists DEF Proper, GroupMembers
<1>3. Proper(GroupSettings) BY Lists DEF Proper, GroupSettings
<1>4. Proper(GroupByCode) BY Lists DEF Proper, GroupByCode
<1>5. Proper(GroupInternal) BY Lists DEF Proper, GroupInternal
<1> QED BY <1>1, <1>2, <1>3, <1>4, <1>5

\* and those of the others.
LEMMA OtherTables ==
    /\ Proper(ConversationProxied) /\ Proper(ConversationInternal)
    /\ Proper(FileProxied) /\ Proper(FileInternal)
    /\ Proper(FriendProxied) /\ Proper(FriendInternal)
    /\ Proper(UserLogin) /\ Proper(UserAccount)
    /\ Proper(RtcHandlers) /\ Proper(PushHandlers)
<1>1. Proper(ConversationProxied) BY Lists DEF Proper, ConversationProxied
<1>2. Proper(ConversationInternal) BY Lists DEF Proper, ConversationInternal
<1>3. Proper(FileProxied) BY Lists DEF Proper, FileProxied
<1>4. Proper(FileInternal) BY Lists DEF Proper, FileInternal
<1>5. Proper(FriendProxied) BY Lists DEF Proper, FriendProxied
<1>6. Proper(FriendInternal) BY Lists DEF Proper, FriendInternal
<1>7. Proper(UserLogin) BY Lists DEF Proper, UserLogin
<1>8. Proper(UserAccount) BY Lists DEF Proper, UserAccount
<1>9. Proper(RtcHandlers) BY Lists DEF Proper, RtcHandlers
<1>10. Proper(PushHandlers) BY Lists DEF Proper, PushHandlers
<1> QED BY <1>1, <1>2, <1>3, <1>4, <1>5, <1>6, <1>7, <1>8, <1>9, <1>10

\* MergedTables, for proper tables.
LEMMA MergedProper ==
    ASSUME NEW tables, \A t \in tables : Proper(t)
    PROVE  Proper(Merged(tables)) /\ \A t \in tables : DOMAIN t \subseteq DOMAIN Merged(tables)
BY MergedTables DEF Proper

\* What the gateway forwards.
LEMMA ProxyTables ==
    /\ Proper(Proxied)
    /\ DOMAIN MessageReads \subseteq DOMAIN Proxied
    /\ DOMAIN MessageAnchors \subseteq DOMAIN Proxied
    /\ DOMAIN MessageRest \subseteq DOMAIN Proxied
    /\ DOMAIN ConversationProxied \subseteq DOMAIN Proxied
    /\ DOMAIN GroupReads \subseteq DOMAIN Proxied
    /\ DOMAIN GroupSettings \subseteq DOMAIN Proxied
    /\ DOMAIN UserAccount \subseteq DOMAIN Proxied
<1>1. /\ Proper(messageProxy)
      /\ DOMAIN MessageReads \subseteq DOMAIN messageProxy
      /\ DOMAIN MessageAnchors \subseteq DOMAIN messageProxy
      /\ DOMAIN MessageRest \subseteq DOMAIN messageProxy
  <2> DEFINE T == {MessageReads, MessageAnchors, MessageMarks, MessageRest}
  <2>1. \A t \in T : Proper(t) BY MessageTables
  <2> HIDE DEF T
  <2>2. Proper(Merged(T)) /\ \A t \in T : DOMAIN t \subseteq DOMAIN Merged(T)
    BY <2>1, MergedProper
  <2>3. MessageReads \in T /\ MessageAnchors \in T /\ MessageRest \in T BY DEF T
  <2>4. messageProxy = Merged(T) BY DEF messageProxy, T
  <2> QED BY <2>2, <2>3, <2>4
<1>2. /\ Proper(groupProxy)
      /\ DOMAIN GroupReads \subseteq DOMAIN groupProxy
      /\ DOMAIN GroupSettings \subseteq DOMAIN groupProxy
  <2> DEFINE T == {GroupReads, GroupMembers, GroupSettings, GroupByCode}
  <2>1. \A t \in T : Proper(t) BY GroupTables
  <2> HIDE DEF T
  <2>2. Proper(Merged(T)) /\ \A t \in T : DOMAIN t \subseteq DOMAIN Merged(T)
    BY <2>1, MergedProper
  <2>3. GroupReads \in T /\ GroupSettings \in T BY DEF T
  <2>4. groupProxy = Merged(T) BY DEF groupProxy, T
  <2> QED BY <2>2, <2>3, <2>4
<1>3. Proper(userProxy) /\ DOMAIN UserAccount \subseteq DOMAIN userProxy
  <2> DEFINE T == {UserLogin, UserAccount}
  <2>1. \A t \in T : Proper(t) BY OtherTables
  <2> HIDE DEF T
  <2>2. Proper(Merged(T)) /\ \A t \in T : DOMAIN t \subseteq DOMAIN Merged(T)
    BY <2>1, MergedProper
  <2>3. UserAccount \in T BY DEF T
  <2>4. userProxy = Merged(T) BY DEF userProxy, T
  <2> QED BY <2>2, <2>3, <2>4
<1> DEFINE T == {messageProxy, conversationProxy, fileProxy, friendProxy, groupProxy, userProxy}
<1>4. \A t \in T : Proper(t)
  BY <1>1, <1>2, <1>3, OtherTables DEF conversationProxy, fileProxy, friendProxy
<1>5. messageProxy \in T /\ conversationProxy \in T /\ groupProxy \in T /\ userProxy \in T
  OBVIOUS
<1>6. Proxied = Merged(T) BY DEF Proxied
<1> HIDE DEF T
<1>7. Proper(Merged(T)) /\ \A t \in T : DOMAIN t \subseteq DOMAIN Merged(T)
  BY <1>4, MergedProper
<1> QED BY <1>1, <1>2, <1>3, <1>5, <1>6, <1>7 DEF conversationProxy

\* Every handler has a check list; what is proxied, called directly, or called by
\* a service has a handler.
LEMMA HandlerTables ==
    /\ \A o \in Op : Checks[o] \in CheckList
    /\ DOMAIN Proxied \subseteq Op /\ DOMAIN Direct \subseteq Op
    /\ {"SendMessage", "SendTyping"} \subseteq Op
    /\ Called \subseteq Op
<1>1. Proper(Direct)
  <2> DEFINE T == {RtcHandlers, PushHandlers}
  <2>1. \A t \in T : Proper(t) BY OtherTables
  <2> HIDE DEF T
  <2>2. Proper(Merged(T)) BY <2>1, MergedProper
  <2> QED BY <2>2 DEF Direct, T
<1> DEFINE T == {Proxied, Direct, ConversationInternal, FileInternal, FriendInternal, GroupInternal}
<1>2. \A t \in T : Proper(t)
  BY <1>1, ProxyTables, OtherTables, GroupTables
<1>3. Proxied \in T /\ Direct \in T /\ ConversationInternal \in T /\ FriendInternal \in T
      /\ GroupInternal \in T
  OBVIOUS
<1>4. Checks = Merged(T) BY DEF Checks
<1> HIDE DEF T
<1>5. Proper(Merged(T)) /\ \A t \in T : DOMAIN t \subseteq DOMAIN Merged(T)
  BY <1>2, MergedProper
<1>6. \A o \in Op : Checks[o] \in CheckList
  BY <1>4, <1>5 DEF Proper, Op
<1>7. /\ DOMAIN Proxied \subseteq Op /\ DOMAIN Direct \subseteq Op
      /\ DOMAIN ConversationInternal \subseteq Op
      /\ DOMAIN FriendInternal \subseteq Op /\ DOMAIN GroupInternal \subseteq Op
  BY <1>3, <1>4, <1>5 DEF Op
<1>8. "SendMessage" \in Op BY <1>7, ProxyTables DEF MessageReads
<1>9. "SendTyping" \in Op BY <1>7, ProxyTables DEF MessageRest
<1>10. "GetConversation" \in Op BY <1>7, ProxyTables DEF ConversationProxied
<1>11. "IsMember" \in Op BY <1>7 DEF GroupInternal
<1>12. "IsBlocked" \in Op /\ "IsFriend" \in Op BY <1>7 DEF FriendInternal
<1>13. "GetGroupMembers" \in Op BY <1>7, ProxyTables DEF GroupReads
<1>14. "UnpinGroupMessage" \in Op BY <1>7, ProxyTables DEF GroupSettings
<1>15. "GetMessageById" \in Op BY <1>7, ProxyTables DEF MessageAnchors
<1>16. "GetUserInfo" \in Op /\ "GetSettingsOf" \in Op BY <1>7, ProxyTables DEF UserAccount
<1>17. "CreateOrUpdateConversation" \in Op BY <1>7 DEF ConversationInternal
<1> QED
  BY <1>6, <1>7, <1>8, <1>9, <1>10, <1>11, <1>12, <1>13, <1>14, <1>15, <1>16, <1>17 DEF Called

-----------------------------------------------------------------------------
\* The calls of an operation that may precede its effect, and those after it.
Before(o, p) == p \in Seq(CallSet) /\ \A k \in 1..Len(p) : CallOf(o, p[k])
After(o, p)  == p \in Seq(CallSet) /\ Behind(o, p)

\* The effect is no call.
LEMMA EffectIsNoCall == Effect \notin CallSet
BY DEF Effect, Calls, CallSet

\* Concatenation, for the calls of plans.
LEMMA ConcatFacts ==
    ASSUME NEW S, NEW p \in Seq(S), NEW q \in Seq(S)
    PROVE  /\ p \o q \in Seq(S)
           /\ Len(p \o q) = Len(p) + Len(q)
           /\ \A k \in 1..Len(p) : (p \o q)[k] = p[k]
           /\ \A k \in Len(p) + 1 .. Len(p) + Len(q) : (p \o q)[k] = q[k - Len(p)]
<1>1. /\ p \o q \in Seq(S) /\ Len(p \o q) = Len(p) + Len(q)
      /\ \A k \in 1 .. (Len(p) + Len(q)) :
           (p \o q)[k] = IF k <= Len(p) THEN p[k] ELSE q[k - Len(p)]
  BY ConcatIndex
<1>2. Len(p) \in Nat /\ Len(q) \in Nat OBVIOUS
<1> QED BY <1>1, <1>2

\* A plan made of calls, the effect and more calls is in order.
LEMMA PlanOfParts ==
    ASSUME NEW o, NEW p, NEW q, Before(o, p), After(o, q)
    PROVE  /\ p \o <<Effect>> \o q \in Seq(CallSet \cup {Effect})
           /\ Ahead(o, p \o <<Effect>> \o q)
<1> DEFINE S == CallSet \cup {Effect}
           r == p \o <<Effect>>
           s == r \o q
<1>1. p \in Seq(S) /\ q \in Seq(S) /\ <<Effect>> \in Seq(S)
  BY DEF Before, After
<1>2. /\ r \in Seq(S) /\ Len(r) = Len(p) + Len(<<Effect>>)
      /\ \A k \in 1..Len(p) : r[k] = p[k]
      /\ \A k \in Len(p) + 1 .. Len(p) + Len(<<Effect>>) : r[k] = <<Effect>>[k - Len(p)]
  BY <1>1, ConcatFacts
<1>3. Len(p) \in Nat /\ Len(q) \in Nat /\ Len(<<Effect>>) = 1 /\ <<Effect>>[1] = Effect
  BY <1>1
<1>4. Len(r) = Len(p) + 1 /\ r[Len(p) + 1] = Effect
  BY <1>2, <1>3
<1>5. /\ s \in Seq(S) /\ Len(s) = Len(r) + Len(q)
      /\ \A k \in 1..Len(r) : s[k] = r[k]
      /\ \A k \in Len(r) + 1 .. Len(r) + Len(q) : s[k] = q[k - Len(r)]
  BY <1>1, <1>2, ConcatFacts
<1> HIDE DEF r, s
<1>6. Len(p) + 1 \in 1..Len(s) /\ s[Len(p) + 1] = Effect
  BY <1>3, <1>4, <1>5
<1>7. ASSUME NEW k \in 1..Len(s), k < Len(p) + 1
      PROVE  CallOf(o, s[k])
  <2>1. k \in 1..Len(p) /\ k \in 1..Len(r) BY <1>3, <1>4, <1>5, <1>7
  <2>2. s[k] = p[k] BY <2>1, <1>2, <1>5
  <2> QED BY <2>1, <2>2 DEF Before
<1>8. ASSUME NEW k \in 1..Len(s), k > Len(p) + 1
      PROVE  CallOf(o, s[k]) /\ s[k].policy # "lookup"
  <2>1. k \in Len(r) + 1 .. Len(r) + Len(q) /\ k - Len(r) \in 1..Len(q)
    BY <1>3, <1>4, <1>5, <1>8
  <2>2. s[k] = q[k - Len(r)] BY <2>1, <1>5
  <2> QED BY <2>1, <2>2 DEF After, Behind
<1>9. Ahead(o, s)
  <2>1. \A k \in 1..Len(s) : k # Len(p) + 1 => k < Len(p) + 1 \/ k > Len(p) + 1
    BY <1>3, <1>4, <1>5
  <2>2. \A k \in 1..Len(s) : k # Len(p) + 1 => CallOf(o, s[k])
    BY <2>1, <1>7, <1>8
  <2>3. \A k \in 1..Len(s) : k > Len(p) + 1 => s[k].policy # "lookup"
    BY <1>8
  <2> QED BY <1>6, <2>2, <2>3 DEF Ahead
<1> QED BY <1>5, <1>9 DEF r, s

\* The empty list of calls.
LEMMA NoCalls ==
    ASSUME NEW o
    PROVE  Before(o, <<>>) /\ After(o, <<>>)
BY DEF Before, After, Behind

\* A list of one call.
LEMMA OneCall ==
    ASSUME NEW o, NEW call, CallOf(o, call)
    PROVE  /\ Before(o, <<call>>)
           /\ call.policy # "lookup" => After(o, <<call>>)
<1>1. <<call>> \in Seq(CallSet) /\ Len(<<call>>) = 1 /\ <<call>>[1] = call
  BY DEF CallOf
<1>2. \A k \in 1..Len(<<call>>) : <<call>>[k] = call
  BY <1>1
<1> QED BY <1>1, <1>2 DEF Before, After, Behind

\* Two lists of calls in a row.
LEMMA MoreCalls ==
    ASSUME NEW o, NEW p, NEW q
    PROVE  /\ Before(o, p) /\ Before(o, q) => Before(o, p \o q)
           /\ After(o, p) /\ After(o, q) => After(o, p \o q)
<1>1. ASSUME p \in Seq(CallSet), q \in Seq(CallSet), NEW k \in 1..Len(p \o q)
      PROVE  \/ \E i \in 1..Len(p) : (p \o q)[k] = p[i]
             \/ \E i \in 1..Len(q) : (p \o q)[k] = q[i]
  <2>1. /\ Len(p \o q) = Len(p) + Len(q) /\ Len(p) \in Nat /\ Len(q) \in Nat
        /\ \A j \in 1..Len(p) : (p \o q)[j] = p[j]
        /\ \A j \in Len(p) + 1 .. Len(p) + Len(q) : (p \o q)[j] = q[j - Len(p)]
    BY <1>1, ConcatFacts
  <2>2. CASE k <= Len(p)
    <3>1. k \in 1..Len(p) BY <2>1, <2>2
    <3> QED BY <3>1, <2>1
  <2>3. CASE k > Len(p)
    <3>1. k \in Len(p) + 1 .. Len(p) + Len(q) /\ k - Len(p) \in 1..Len(q) BY <2>1, <2>3
    <3> QED BY <3>1, <2>1
  <2>4. k <= Len(p) \/ k > Len(p) BY <1>1, <2>1
  <2> QED BY <2>2, <2>3, <2>4
<1>2. p \in Seq(CallSet) /\ q \in Seq(CallSet) => p \o q \in Seq(CallSet)
  BY ConcatFacts
<1> QED BY <1>1, <1>2 DEF Before, After, Behind

\* The calls the services make are proper calls.
LEMMA CallFacts ==
    ASSUME NEW o, NEW c \in Called, NEW policy \in {"lookup", "required", "bestEffort"},
           Depth(c) < Depth(o)
    PROVE  /\ CallOf(o, Calls(c, policy)) /\ Calls(c, policy).policy = policy
           /\ CallOf(o, CallsAs(c, policy)) /\ CallsAs(c, policy).policy = policy
<1>1. c \in Op BY HandlerTables
<1> QED BY <1>1 DEF CallOf, Calls, CallsAs, CallSet

\* Every plan has one effect, calls only what goes less deep, and looks nothing up
\* once it has taken effect.
LEMMA PlansInOrder ==
    ASSUME NEW o, NEW plan \in Plans(o)
    PROVE  plan \in Seq(CallSet \cup {Effect}) /\ Ahead(o, plan)
<1> DEFINE Fits(p) == p \in Seq(CallSet \cup {Effect}) /\ Ahead(o, p)
<1>1. \A p, q : Before(o, p) /\ After(o, q) => Fits(p \o <<Effect>> \o q)
  BY PlanOfParts
<1>2. \A p : Before(o, p) => Fits(p \o <<Effect>>)
  <2>1. SUFFICES ASSUME NEW p, Before(o, p) PROVE Fits(p \o <<Effect>>)
    OBVIOUS
  <2>2. p \o <<Effect>> \in Seq(CallSet \cup {Effect})
    BY <2>1, ConcatFacts DEF Before
  <2>3. p \o <<Effect>> \o <<>> = p \o <<Effect>>
    BY <2>2, ConcatEmptySeq
  <2>4. Fits(p \o <<Effect>> \o <<>>)
    BY <1>1, <2>1, NoCalls
  <2> QED BY <2>3, <2>4
<1>3. \A q : After(o, q) => Fits(<<Effect>> \o q)
  <2>1. <<>> \o <<Effect>> = <<Effect>>
    BY ConcatEmptySeq
  <2> QED BY <1>1, <2>1, NoCalls
<1>4. Fits(<<Effect>>)
  <2>1. <<>> \o <<Effect>> = <<Effect>>
    BY ConcatEmptySeq
  <2> QED BY <1>2, <2>1, NoCalls
<1> HIDE DEF Fits
<1>5. ASSUME Depth(o) >= 1
      PROVE  /\ Before(o, ensureConversationAccessible)
             /\ \A p \in authorizeSend : Before(o, p)
             /\ \A policy \in {"required", "bestEffort"} : After(o, listGroupMemberIDs(policy))
             /\ After(o, autoUnpinRecalledGroupMessage)
             /\ Before(o, getPinnedMessageSnapshot)
             /\ Before(o, queryRelation) /\ Before(o, verifyBlacklist)
             /\ Before(o, recipientSettings)
             /\ After(o, createFriendConversation)
  <2>0. \A c \in Called : c \notin {"SendMessage", "GetUserInfo"} => Depth(c) < Depth(o)
    BY <1>5 DEF Depth, Called
  <2>1. \A c \in Called \ {"SendMessage", "GetUserInfo"},
           policy \in {"lookup", "required", "bestEffort"} :
           CallOf(o, Calls(c, policy)) /\ Calls(c, policy).policy = policy
    BY <2>0, CallFacts
  <2>2. \A c \in Called \ {"SendMessage", "GetUserInfo"},
           policy \in {"lookup", "required", "bestEffort"} :
           /\ Before(o, <<Calls(c, policy)>>)
           /\ policy # "lookup" => After(o, <<Calls(c, policy)>>)
    BY <2>1, OneCall
  <2>3. \A c \in {"GetConversation", "IsMember", "IsBlocked", "IsFriend", "GetGroupMembers",
                  "UnpinGroupMessage", "GetMessageById", "CreateOrUpdateConversation",
                  "GetSettingsOf"} :
           c \in Called \ {"SendMessage", "GetUserInfo"}
    BY DEF Called
  <2>4. Before(o, ensureConversationAccessible)
    BY <2>2, <2>3 DEF ensureConversationAccessible
  <2>5. \A p \in authorizeSend : Before(o, p)
    <3>1. Before(o, <<Calls("IsMember", "required")>>) /\ Before(o, <<Calls("IsBlocked", "required")>>)
      BY <2>2, <2>3
    <3> QED BY <2>4, <3>1, MoreCalls DEF authorizeSend
  <2>6. Before(o, queryRelation)
    <3>1. /\ CallOf(o, Calls("IsBlocked", "required"))
          /\ CallOf(o, Calls("IsFriend", "required"))
      BY <2>1, <2>3
    <3> HIDE DEF Calls
    <3>2. \A a, b : CallOf(o, a) /\ CallOf(o, b) => Before(o, <<a, b>>)
      BY DEF Before, CallOf
    <3> QED BY <3>1, <3>2 DEF queryRelation
  <2>7. \A policy \in {"required", "bestEffort"} : After(o, listGroupMemberIDs(policy))
    BY <2>2, <2>3 DEF listGroupMemberIDs
  <2>8. After(o, autoUnpinRecalledGroupMessage) /\ Before(o, getPinnedMessageSnapshot)
    BY <2>2, <2>3 DEF autoUnpinRecalledGroupMessage, getPinnedMessageSnapshot
  <2>9. Before(o, verifyBlacklist) /\ Before(o, recipientSettings)
        /\ After(o, createFriendConversation)
    BY <2>2, <2>3 DEF verifyBlacklist, recipientSettings, createFriendConversation
  <2> QED BY <2>4, <2>5, <2>6, <2>7, <2>8, <2>9
<1> HIDE DEF Fits
<1>6. CASE o = "SendMessage"
  <2>1. \A p \in authorizeSend : Before(o, p)
    BY <1>5, <1>6 DEF Depth
  <2>2. \A q \in {<<>>, listGroupMemberIDs("bestEffort")} : After(o, q)
    BY <1>5, <1>6, NoCalls DEF Depth
  <2>3. PICK p \in authorizeSend, q \in {<<>>, listGroupMemberIDs("bestEffort")} :
           plan = p \o <<Effect>> \o q
    BY <1>6 DEF Plans
  <2> QED BY <1>1, <2>1, <2>2, <2>3 DEF Fits
<1>7. CASE o = "SendTyping"
  <2>1. \A p \in authorizeSend : Before(o, p)
    BY <1>5, <1>7 DEF Depth
  <2>2. PICK p \in authorizeSend : plan = p \o <<Effect>>
    BY <1>7 DEF Plans
  <2> QED BY <1>2, <2>1, <2>2 DEF Fits
<1>8. CASE o \in {"GetMessagesBefore", "GetMessagesAfter", "GetMessagesAroundAnchor",
                  "GetFirstUnreadAnchor", "MarkAsRead", "GetUnreadCount",
                  "GetReadReceipts"}
  <2>1. Depth(o) >= 1 BY <1>8 DEF Depth
  <2>2. Plans(o) = {ensureConversationAccessible \o <<Effect>>} BY <1>8 DEF Plans
  <2> QED BY <1>2, <1>5, <2>1, <2>2 DEF Fits
<1>9. CASE o = "SearchMessages"
  <2>1. Depth(o) >= 1 BY <1>9 DEF Depth
  <2>2. Plans(o) = {<<Effect>>, ensureConversationAccessible \o <<Effect>>} BY <1>9 DEF Plans
  <2> QED BY <1>2, <1>4, <1>5, <2>1, <2>2 DEF Fits
<1>10. CASE o = "RecallMessage"
  <2> DEFINE q == autoUnpinRecalledGroupMessage \o listGroupMemberIDs("bestEffort")
  <2>1. Depth(o) >= 1 BY <1>10 DEF Depth
  <2>2. After(o, q) BY <1>5, <2>1, MoreCalls
  <2>3. plan \in {<<Effect>>, <<Effect>> \o autoUnpinRecalledGroupMessage
                                \o listGroupMemberIDs("bestEffort")}
    BY <1>10 DEF Plans
  <2>4. /\ autoUnpinRecalledGroupMessage \in Seq(CallSet \cup {Effect})
        /\ listGroupMemberIDs("bestEffort") \in Seq(CallSet \cup {Effect})
        /\ <<Effect>> \in Seq(CallSet \cup {Effect})
    BY <1>5, <2>1 DEF After
  <2>5. <<Effect>> \o autoUnpinRecalledGroupMessage \o listGroupMemberIDs("bestEffort")
          = <<Effect>> \o q
    BY <2>4, ConcatAssociative
  <2> HIDE DEF q
  <2> QED BY <1>3, <1>4, <2>2, <2>3, <2>5 DEF Fits
<1>11. CASE o = "DeleteMessage"
  <2>1. Depth(o) >= 1 BY <1>11 DEF Depth
  <2>2. Plans(o) = {<<Effect>>, <<Effect>> \o listGroupMemberIDs("required")} BY <1>11 DEF Plans
  <2> QED BY <1>3, <1>4, <1>5, <2>1, <2>2 DEF Fits
<1>12. CASE o = "PinGroupMessage"
  <2>1. Depth(o) >= 1 BY <1>12 DEF Depth
  <2>2. Plans(o) = {getPinnedMessageSnapshot \o <<Effect>>} BY <1>12 DEF Plans
  <2> QED BY <1>2, <1>5, <2>1, <2>2 DEF Fits
<1>13. CASE o = "SetGroupMute"
  <2>1. CallOf(o, CallsAs("SendMessage", "bestEffort")) /\ CallsAs("SendMessage", "bestEffort").policy = "bestEffort"
    <3>1. Depth("SendMessage") < Depth(o) BY <1>13 DEF Depth
    <3>2. "SendMessage" \in Called BY DEF Called
    <3> QED BY <3>1, <3>2, CallFacts
  <2>2. After(o, sendGroupSystemMessage) BY <2>1, OneCall DEF sendGroupSystemMessage
  <2>3. Plans(o) = {<<Effect>> \o sendGroupSystemMessage} BY <1>13 DEF Plans
  <2> QED BY <1>3, <2>2, <2>3 DEF Fits
<1>14. CASE o \in {"GetFriendList", "GetFriendRequests", "GetBlacklist"}
  <2>1. CallOf(o, Calls("GetUserInfo", "bestEffort")) /\ Calls("GetUserInfo", "bestEffort").policy = "bestEffort"
    <3>1. Depth("GetUserInfo") < Depth(o) BY <1>14 DEF Depth
    <3>2. "GetUserInfo" \in Called BY DEF Called
    <3> QED BY <3>1, <3>2, CallFacts
  <2>2. After(o, getUserInfo) BY <2>1, OneCall DEF getUserInfo
  <2>3. Plans(o) = {<<Effect>>, <<Effect>> \o getUserInfo} BY <1>14 DEF Plans
  <2> QED BY <1>3, <1>4, <2>2, <2>3 DEF Fits
<1>15. CASE o = "SendFriendRequest"
  <2>1. Depth(o) >= 1 BY <1>15 DEF Depth
  <2>2. After(o, createFriendConversation \o createFriendConversation)
    BY <1>5, <2>1, MoreCalls
  <2>3. PICK q \in {<<>>, createFriendConversation \o createFriendConversation} :
           plan = recipientSettings \o <<Effect>> \o q
    BY <1>15 DEF Plans
  <2>4. After(o, q) BY <2>2, <2>3, NoCalls
  <2> QED BY <1>1, <1>5, <2>1, <2>3, <2>4 DEF Fits
<1>16. CASE o = "GetUserInfo"
  <2>1. Depth(o) >= 1 BY <1>16 DEF Depth
  <2>2. Plans(o) = {queryRelation \o <<Effect>>} BY <1>16 DEF Plans
  <2> QED BY <1>2, <1>5, <2>1, <2>2 DEF Fits
<1>17. CASE o = "InitiateCall"
  <2>1. Depth(o) >= 1 BY <1>17 DEF Depth
  <2>2. Plans(o) = {verifyBlacklist \o <<Effect>>} BY <1>17 DEF Plans
  <2> QED BY <1>2, <1>5, <2>1, <2>2 DEF Fits
<1>18. CASE o \notin {"SendMessage", "SendTyping", "GetMessagesBefore", "GetMessagesAfter",
                      "GetMessagesAroundAnchor", "GetFirstUnreadAnchor", "MarkAsRead",
                      "MarkMessagesRead", "GetUnreadCount", "GetReadReceipts",
                      "SearchMessages", "RecallMessage", "DeleteMessage", "PinGroupMessage",
                      "SetGroupMute", "GetFriendList", "GetFriendRequests", "GetBlacklist",
                      "SendFriendRequest", "GetUserInfo", "InitiateCall"}
  <2>1. Plans(o) = {<<Effect>>} BY <1>18 DEF Plans
  <2> QED BY <1>4, <2>1 DEF Fits
<1>19. CASE o = "MarkMessagesRead"
  <2>1. Depth(o) >= 1 BY <1>19 DEF Depth
  <2>2. PICK p \in {ensureConversationAccessible,
                    ensureConversationAccessible \o ensureConversationAccessible} :
           plan = p \o <<Effect>>
    BY <1>19 DEF Plans
  <2>3. Before(o, p) BY <1>5, <2>1, <2>2, MoreCalls
  <2> QED BY <1>2, <2>2, <2>3 DEF Fits
<1> QED
  BY <1>6, <1>7, <1>8, <1>9, <1>10, <1>11, <1>12, <1>13, <1>14, <1>15, <1>16, <1>17, <1>18,
     <1>19

-----------------------------------------------------------------------------
\* Calls go three deep: depths are at most two.
LEMMA DepthFacts ==
    ASSUME NEW o
    PROVE  Depth(o) \in 0..2
BY DEF Depth

\* The head and the rest of a list that is not empty.
LEMMA HeadRest ==
    ASSUME NEW S, NEW p \in Seq(S), p # <<>>
    PROVE  /\ Head(p) = p[1] /\ Head(p) \in S /\ Len(p) \in Nat \ {0}
           /\ Tail(p) \in Seq(S) /\ Len(Tail(p)) = Len(p) - 1
           /\ \A k \in 1..Len(Tail(p)) : Tail(p)[k] = p[k + 1]
OBVIOUS

\* A plan before its effect begins with it or with a call, and is in order
\* without what it begins with.
LEMMA AheadRest ==
    ASSUME NEW o, NEW p \in Seq(CallSet \cup {Effect}), Ahead(o, p)
    PROVE  /\ p # <<>>
           /\ Head(p) = Effect => Behind(o, Tail(p))
           /\ Head(p) # Effect => CallOf(o, Head(p)) /\ Ahead(o, Tail(p))
<1>1. PICK n \in 1..Len(p) :
        /\ p[n] = Effect
        /\ \A k \in 1..Len(p) : k # n => CallOf(o, p[k])
        /\ \A k \in 1..Len(p) : k > n => p[k].policy # "lookup"
  BY DEF Ahead
<1>2. p # <<>>
  <2>1. Len(p) \in Nat OBVIOUS
  <2>2. Len(p) # 0 BY <2>1, <1>1
  <2> QED BY <2>2
<1>3. /\ Head(p) = p[1] /\ Len(p) \in Nat \ {0}
      /\ Len(Tail(p)) = Len(p) - 1
      /\ \A k \in 1..Len(Tail(p)) : Tail(p)[k] = p[k + 1]
  BY <1>2, HeadRest
<1>4. \A k \in 1..Len(Tail(p)) : k + 1 \in 1..Len(p) /\ k + 1 > 1
  BY <1>3
<1>5. ASSUME Head(p) = Effect PROVE Behind(o, Tail(p))
  <2>1. n = 1
    <3>1. SUFFICES ASSUME n # 1 PROVE FALSE OBVIOUS
    <3>2. 1 \in 1..Len(p) BY <1>3
    <3>3. CallOf(o, p[1]) BY <3>1, <3>2, <1>1
    <3> QED BY <3>3, <1>3, <1>5, EffectIsNoCall DEF CallOf
  <2>2. \A k \in 1..Len(Tail(p)) : CallOf(o, p[k + 1]) /\ p[k + 1].policy # "lookup"
    <3>1. \A k \in 1..Len(Tail(p)) : k + 1 # n /\ k + 1 > n BY <1>3, <2>1
    <3> QED BY <1>1, <1>4, <3>1
  <2> QED BY <1>3, <2>2 DEF Behind
<1>6. ASSUME Head(p) # Effect PROVE CallOf(o, Head(p)) /\ Ahead(o, Tail(p))
  <2>1. n # 1 /\ 1 \in 1..Len(p) BY <1>1, <1>3, <1>6
  <2>2. CallOf(o, Head(p)) BY <1>1, <1>3, <2>1
  <2>3. n - 1 \in 1..Len(Tail(p)) /\ (n - 1) + 1 = n BY <1>1, <1>3, <2>1
  <2>4. Tail(p)[n - 1] = Effect BY <1>1, <1>3, <2>3
  <2>5. \A k \in 1..Len(Tail(p)) :
          /\ k # n - 1 => k + 1 # n
          /\ k > n - 1 => k + 1 > n
    BY <1>1, <1>3
  <2>6. \A k \in 1..Len(Tail(p)) : k # n - 1 => CallOf(o, Tail(p)[k])
    BY <1>1, <1>3, <1>4, <2>5
  <2>7. \A k \in 1..Len(Tail(p)) : k > n - 1 => Tail(p)[k].policy # "lookup"
    BY <1>1, <1>3, <1>4, <2>5
  <2> QED BY <2>2, <2>3, <2>4, <2>6, <2>7 DEF Ahead
<1> QED BY <1>2, <1>5, <1>6

\* A plan behind its effect begins with a call that is no lookup.
LEMMA BehindRest ==
    ASSUME NEW o, NEW p \in Seq(CallSet \cup {Effect}), Behind(o, p), p # <<>>
    PROVE  /\ CallOf(o, Head(p)) /\ Head(p).policy # "lookup"
           /\ Behind(o, Tail(p))
<1>1. /\ Head(p) = p[1] /\ Len(p) \in Nat \ {0}
      /\ Len(Tail(p)) = Len(p) - 1
      /\ \A k \in 1..Len(Tail(p)) : Tail(p)[k] = p[k + 1]
  BY HeadRest
<1>2. 1 \in 1..Len(p) /\ \A k \in 1..Len(Tail(p)) : k + 1 \in 1..Len(p)
  BY <1>1
<1> QED BY <1>1, <1>2 DEF Behind

\* The lower calls of a stack, and a stack with another top.
LEMMA StackFacts ==
    ASSUME NEW S, NEW s \in Seq(S), NEW n \in 0..Len(s)
    PROVE  /\ SubSeq(s, 1, n) \in Seq(S) /\ Len(SubSeq(s, 1, n)) = n
           /\ \A i \in 1..n : SubSeq(s, 1, n)[i] = s[i]
           /\ \A f \in S :
                /\ Append(SubSeq(s, 1, n), f) \in Seq(S)
                /\ Len(Append(SubSeq(s, 1, n), f)) = n + 1
                /\ Append(SubSeq(s, 1, n), f)[n + 1] = f
                /\ \A i \in 1..n : Append(SubSeq(s, 1, n), f)[i] = s[i]
<1>1. /\ SubSeq(s, 1, n) \in Seq(S) /\ Len(SubSeq(s, 1, n)) = n
      /\ \A i \in 1..n : SubSeq(s, 1, n)[i] = s[i]
  <2>1. \A i \in 1..n : s[i] \in S OBVIOUS
  <2> QED BY <2>1, SubSeqProperties
<1> DEFINE t == SubSeq(s, 1, n)
<1> HIDE DEF t
<1>2. ASSUME NEW f \in S, t \in Seq(S), Len(t) = n
      PROVE  /\ Append(t, f) \in Seq(S) /\ Len(Append(t, f)) = n + 1
             /\ Append(t, f)[n + 1] = f
             /\ \A i \in 1..n : Append(t, f)[i] = t[i]
  BY <1>2, AppendProperties
<1> QED BY <1>1, <1>2 DEF t

\* The calls below n wait, so they are in order however the one above n ends.
LEMMA CutStack ==
    ASSUME NEW s, NEW c, NEW d, StackOK(s, c), NEW n \in 0..Len(s) - 1
    PROVE  StackOK(SubSeq(s, 1, n), d)
<1>1. s \in Seq(FrameSet) /\ Len(s) \in Nat
  BY DEF StackOK
<1>2. n \in 0..Len(s) /\ \A i \in 1..n : i \in 1..Len(s) /\ i < Len(s)
  BY <1>1
<1>3. /\ SubSeq(s, 1, n) \in Seq(FrameSet) /\ Len(SubSeq(s, 1, n)) = n
      /\ \A i \in 1..n : SubSeq(s, 1, n)[i] = s[i]
  BY <1>1, <1>2, StackFacts
<1> QED BY <1>2, <1>3 DEF StackOK

\* The top call may change, as long as it stays the call it is.
LEMMA PutTop ==
    ASSUME NEW s, NEW c, StackOK(s, c), s # <<>>,
           NEW f, FrameOK(f), f.op = s[Len(s)].op
    PROVE  /\ StackOK(Append(SubSeq(s, 1, Len(s) - 1), f), "none")
           /\ Append(SubSeq(s, 1, Len(s) - 1), f) # <<>>
           /\ Append(SubSeq(s, 1, Len(s) - 1), f)[1] = IF Len(s) = 1 THEN f ELSE s[1]
<1> DEFINE n == Len(s) - 1
           t == Append(SubSeq(s, 1, n), f)
<1>1. s \in Seq(FrameSet) /\ Len(s) \in Nat \ {0} /\ f \in FrameSet
  BY DEF StackOK, FrameOK
<1>2. n \in 0..Len(s) /\ n + 1 = Len(s)
  BY <1>1
<1>3. /\ t \in Seq(FrameSet) /\ Len(t) = Len(s) /\ t[Len(s)] = f
      /\ \A i \in 1..n : t[i] = s[i]
  <2> HIDE DEF n
  <2>1. /\ t \in Seq(FrameSet) /\ Len(t) = n + 1 /\ t[n + 1] = f
        /\ \A i \in 1..n : t[i] = s[i]
    BY <1>1, <1>2, StackFacts
  <2> HIDE DEF t
  <2> QED BY <1>2, <2>1
<1>4. \A i \in 1..Len(s) : i \in 1..n \/ i = Len(s)
  BY <1>1
<1> HIDE DEF t
<1>5. \A i \in 1..Len(t) : FrameOK(t[i])
  BY <1>3, <1>4 DEF StackOK
<1>6. \A i \in 1..Len(t) : i < Len(t) => Waiting(t[i])
  <2>1. \A i \in 1..Len(t) : i < Len(t) => i \in 1..n /\ i \in 1..Len(s) /\ i < Len(s)
    BY <1>1, <1>3
  <2> QED BY <1>3, <2>1 DEF StackOK
<1>7. \A i \in 1..Len(s) : t[i].op = s[i].op
  BY <1>3, <1>4
<1>8. \A i, j \in 1..Len(t) : i < j => Depth(t[j].op) < Depth(t[i].op)
  BY <1>3, <1>7 DEF StackOK
<1>9. StackOK(t, "none")
  BY <1>3, <1>5, <1>6, <1>8 DEF StackOK
<1>10. t # <<>> /\ t[1] = IF Len(s) = 1 THEN f ELSE s[1]
  <2>0. \A m \in Nat \ {0} : m # 1 => 1 \in 1..m - 1 OBVIOUS
  <2>1. Len(s) # 1 => 1 \in 1..n BY <1>1, <2>0
  <2>2. Len(t) # 0 BY <1>1, <1>3
  <2> QED BY <1>3, <2>1, <2>2
<1> QED BY <1>9, <1>10 DEF t

\* The top call may make a call that goes less deep.
LEMMA PushCall ==
    ASSUME NEW s, NEW c, StackOK(s, c), s # <<>>, Waiting(s[Len(s)]),
           NEW f, FrameOK(f), Depth(f.op) < Depth(s[Len(s)].op)
    PROVE  /\ StackOK(Append(s, f), "none")
           /\ Append(s, f) # <<>> /\ Append(s, f)[1] = s[1]
<1>1. s \in Seq(FrameSet) /\ Len(s) \in Nat \ {0} /\ f \in FrameSet
  BY DEF StackOK, FrameOK
<1> DEFINE t == Append(s, f)
<1>2. /\ t \in Seq(FrameSet) /\ Len(t) = Len(s) + 1
      /\ t[Len(s) + 1] = f /\ \A i \in 1..Len(s) : t[i] = s[i]
  BY <1>1, AppendProperties
<1> HIDE DEF t
<1>3. \A i \in 1..Len(t) : i \in 1..Len(s) \/ i = Len(s) + 1
  BY <1>1, <1>2
<1>4. \A i \in 1..Len(t) : FrameOK(t[i])
  BY <1>2, <1>3 DEF StackOK
<1>5. \A i \in 1..Len(t) : i < Len(t) => Waiting(t[i])
  <2>1. \A i \in 1..Len(t) : i < Len(t) => i \in 1..Len(s) /\ (i < Len(s) \/ i = Len(s))
    BY <1>1, <1>2
  <2> QED BY <1>2, <2>1 DEF StackOK
<1>6. \A i \in 1..Len(s) : Depth(f.op) < Depth(s[i].op)
  <2>1. \A i \in 1..Len(s) : i = Len(s) \/ i < Len(s) BY <1>1
  <2>2. Len(s) \in 1..Len(s) BY <1>1
  <2>3. \A i \in 1..Len(s) : i < Len(s) => Depth(s[Len(s)].op) < Depth(s[i].op)
    BY <2>2 DEF StackOK
  <2>4. \A o : Depth(o) \in 0..2 BY DepthFacts
  <2> QED BY <2>1, <2>3, <2>4
<1>7. ASSUME NEW i \in 1..Len(t), NEW j \in 1..Len(t), i < j
      PROVE  Depth(t[j].op) < Depth(t[i].op)
  <2>1. i \in 1..Len(s) BY <1>1, <1>2, <1>7
  <2>2. CASE j \in 1..Len(s) BY <1>2, <1>7, <2>1, <2>2 DEF StackOK
  <2>3. CASE j = Len(s) + 1 BY <1>2, <1>6, <2>1, <2>3
  <2> QED BY <1>3, <2>2, <2>3
<1>8. StackOK(t, "none")
  BY <1>2, <1>4, <1>5, <1>7 DEF StackOK
<1>9. t # <<>> /\ t[1] = s[1]
  <2>1. 1 \in 1..Len(s) /\ Len(t) # 0 BY <1>1, <1>2
  <2> QED BY <1>2, <2>1
<1> QED BY <1>8, <1>9 DEF t

\* A call that begins has its checks ahead of it.
LEMMA FrameBegins ==
    ASSUME NEW o \in Op, NEW user \in CallUser, NEW ok \in BOOLEAN,
           Entitled(user)
    PROVE  /\ FrameOK(Frame(o, user, ok))
           /\ Frame(o, user, ok).op = o /\ Frame(o, user, ok).at = "handler"
<1>1. Checks[o] \in CheckList BY HandlerTables
<1>2. /\ Frame(o, user, ok).op = o /\ Frame(o, user, ok).at = "handler"
      /\ Frame(o, user, ok).user = user /\ Frame(o, user, ok).checks = Checks[o]
  BY DEF Frame
<1>3. Frame(o, user, ok) \in FrameSet
  <2>1. <<>> \in Seq(CallSet \cup {Effect}) OBVIOUS
  <2> QED BY <1>1, <2>1 DEF Frame, FrameSet
<1>4. Vetted(Frame(o, user, ok))
  <2>1. NeedsUser(o) => \E k \in 1..Len(Checks[o]) : Checks[o][k] = "user"
    BY <1>1 DEF NeedsUser, CheckList
  <2> QED BY <1>2, <2>1 DEF Vetted
<1> QED BY <1>2, <1>3, <1>4 DEF FrameOK

\* The first call is the whole stack.
LEMMA FirstCall ==
    ASSUME NEW f, FrameOK(f)
    PROVE  StackOK(<<f>>, "none") /\ <<f>> # <<>> /\ <<f>>[1] = f
<1>1. f \in FrameSet BY DEF FrameOK
<1>2. <<f>> \in Seq(FrameSet) /\ Len(<<f>>) = 1 /\ <<f>>[1] = f BY <1>1
<1>3. \A i \in 1..Len(<<f>>) : <<f>>[i] = f /\ i = 1 BY <1>2
<1>4. \A i \in 1..Len(<<f>>) : FrameOK(<<f>>[i]) BY <1>3
<1>5. \A i, j \in 1..Len(<<f>>) : ~(i < j) BY <1>2
<1>6. \A i \in 1..Len(<<f>>) : ~(i < Len(<<f>>)) BY <1>2
<1> QED BY <1>2, <1>4, <1>5, <1>6 DEF StackOK

-----------------------------------------------------------------------------
USE DEF request, requestVars, outcome

\* The token of a request stays, so a stack in order is in order after the step.
LEMMA Carried ==
    ASSUME UNCHANGED request, StackOK(stack', code')
    PROVE  StackOK(stack, code)'
BY DEF StackOK, FrameOK, Entitled

\* The codes and the causes there are.
LEMMA CodeFacts ==
    /\ {"none", "OK", "DeadlineExceeded", Recovery, BadRequest} \subseteq Code
    /\ \A kind \in DOMAIN grpcCodeMapping \cup {"plain"} :
         /\ ConvertError(kind) \in Code /\ kind \in Cause
         /\ ConvertError(kind) # "none" /\ ConvertError(kind) # "OK"
         /\ kind \in {"internal", "plain"} => ConvertError(kind) = "Internal"
         /\ kind \in ServerFault => ConvertError(kind) = "Internal"
    /\ {"none", "token", "rate", "fields", "panic", "timeout", "lookup", "required"} \subseteq Cause
    /\ Recovery = "Internal" /\ BadRequest = "InvalidArgument"
    /\ ConvertError("notFound") = "NotFound" /\ ConvertError("internal") = "Internal"
    /\ {"notFound", "internal"} \subseteq DOMAIN grpcCodeMapping
BY DEF Code, Cause, Recovery, BadRequest, ConvertError, grpcCodeMapping, ServerFault

\* The call at the top.
LEMMA TopFacts ==
    ASSUME PathInv, stack # <<>>
    PROVE  /\ Len(stack) \in Nat \ {0} /\ Len(stack) \in 1..Len(stack)
           /\ FrameOK(Top) /\ Top \in FrameSet /\ Top = stack[Len(stack)]
           /\ code # "none" => Waiting(Top)
<1>1. stack \in Seq(FrameSet) BY DEF PathInv, StackOK
<1>2. Len(stack) \in Nat \ {0} BY <1>1
<1>3. Len(stack) \in 1..Len(stack) BY <1>2
<1>4. FrameOK(Top) /\ (code # "none" => Waiting(Top))
  BY <1>3 DEF PathInv, StackOK, Top
<1> QED BY <1>2, <1>3, <1>4 DEF FrameOK, Top

\* PathInv holds in the beginning.
LEMMA RequestInitInv == RequestInit => PathInv
<1> SUFFICES ASSUME RequestInit PROVE PathInv
  OBVIOUS
<1>1. op \in Op
  <2>1. CASE entry = "gateway"
    <3>1. op \in DOMAIN Proxied BY <2>1 DEF RequestInit
    <3> QED BY <3>1, HandlerTables
  <2>2. CASE entry = "websocket"
    <3>1. op \in {"SendMessage", "SendTyping"} BY <2>2 DEF RequestInit
    <3> QED BY <3>1, HandlerTables
  <2>3. CASE entry = "service"
    <3>1. op \in DOMAIN Direct BY <2>3 DEF RequestInit
    <3> QED BY <3>1, HandlerTables
  <2> QED BY <2>1, <2>2, <2>3, EntryAssumption DEF RequestInit
<1>2. /\ token \in {"valid", "bad", "unchecked"}
      /\ entry = "websocket" => token = "valid"
      /\ entry = "service" => token = "unchecked"
  BY EntryAssumption DEF RequestInit
<1>3. RequestOK
  BY <1>1, <1>2, CodeFacts DEF RequestInit, RequestOK
<1>4. StackOK(stack, code)
  <2>1. stack = <<>> /\ code = "none" BY DEF RequestInit
  <2>2. stack \in Seq(FrameSet) /\ \A i \in 1..Len(stack) : FALSE BY <2>1
  <2> QED BY <2>2 DEF StackOK
<1> QED BY <1>3, <1>4 DEF PathInv

\* A call that ends, with whatever code, leaves the others in order.
LEMMA EndsInv ==
    ASSUME PathInv, stack # <<>>, NEW c \in Code, NEW cause \in Cause, Ends(c, cause),
           effects' = effects
    PROVE  PathInv'
<1>1. RequestOK' BY DEF PathInv, RequestOK, Ends
<1>2. Len(stack) - 1 \in 0..Len(stack) - 1 BY TopFacts
<1>3. StackOK(SubSeq(stack, 1, Len(stack) - 1), c)
  BY <1>2, CutStack DEF PathInv
<1>4. StackOK(stack', code') /\ UNCHANGED request
  BY <1>3 DEF Ends, Below
<1> QED BY <1>1, <1>4, Carried DEF PathInv

\* A step that puts another frame of the same call on top.
LEMMA SetTopInv ==
    ASSUME PathInv, stack # <<>>, NEW f, FrameOK(f), f.op = Top.op, SetTop(f),
           code' = "none", UNCHANGED request
    PROVE  /\ StackOK(stack, code)'
           /\ stack' # <<>> /\ stack'[1] = IF Len(stack) = 1 THEN f ELSE stack[1]
<1>1. f.op = stack[Len(stack)].op BY DEF Top
<1>2. /\ StackOK(Append(SubSeq(stack, 1, Len(stack) - 1), f), "none")
      /\ Append(SubSeq(stack, 1, Len(stack) - 1), f) # <<>>
      /\ Append(SubSeq(stack, 1, Len(stack) - 1), f)[1] = IF Len(stack) = 1 THEN f ELSE stack[1]
  BY <1>1, PutTop DEF PathInv
<1>3. stack' = Append(SubSeq(stack, 1, Len(stack) - 1), f) BY DEF SetTop, Below
<1>4. StackOK(stack', code') BY <1>2, <1>3
<1> QED BY <1>2, <1>3, <1>4, Carried

\* A frame without the check it has passed, if the user was there to pass it.
LEMMA PassedFrame ==
    ASSUME PathInv, stack # <<>>, NEW what \in {"user", "fields"}, Check(what),
           what = "user" => Top.user # "none"
    PROVE  /\ FrameOK([Top EXCEPT !.checks = Tail(@)])
           /\ [Top EXCEPT !.checks = Tail(@)].op = Top.op
           /\ [Top EXCEPT !.checks = Tail(@)].at = "handler"
<1> DEFINE f == [Top EXCEPT !.checks = Tail(@)]
           p == Top.checks
<1>1. FrameOK(Top) /\ Top \in FrameSet BY TopFacts
<1>2. p \in Seq({"user", "fields"}) /\ p # <<>> /\ Head(p) = what /\ Top.at = "handler"
  BY <1>1 DEF FrameSet, CheckList, Check
<1>3. /\ p[1] = what /\ Len(p) \in Nat \ {0} /\ Tail(p) \in Seq({"user", "fields"})
      /\ Len(Tail(p)) = Len(p) - 1
      /\ \A k \in 1..Len(Tail(p)) : Tail(p)[k] = p[k + 1]
  BY <1>2, HeadRest
<1>4. /\ f \in FrameSet /\ f.op = Top.op /\ f.user = Top.user /\ f.at = "handler"
      /\ f.checks = Tail(p)
  BY <1>1, <1>2, <1>3 DEF FrameSet, CheckList
<1>5. Vetted(f)
  <2>1. CASE Top.user # "none" BY <2>1, <1>4 DEF Vetted
  <2>2. CASE Top.user = "none"
    <3>1. what = "fields" BY <2>2
    <3>2. (\E k \in 1..Len(p) : p[k] = "user") \/ ~NeedsUser(Top.op)
      BY <1>1, <2>2 DEF FrameOK, Vetted
    <3>3. ASSUME NEW k \in 1..Len(p), p[k] = "user"
          PROVE  k - 1 \in 1..Len(Tail(p)) /\ Tail(p)[k - 1] = "user"
      <4>1. k # 1 BY <1>3, <3>1, <3>3
      <4>2. k - 1 \in 1..Len(Tail(p)) /\ (k - 1) + 1 = k BY <4>1, <1>3
      <4> QED BY <4>2, <1>3, <3>3
    <3>4. (\E k \in 1..Len(Tail(p)) : Tail(p)[k] = "user") \/ ~NeedsUser(Top.op)
      BY <3>2, <3>3
    <3> HIDE DEF f
    <3> QED BY <3>4, <1>4 DEF Vetted
  <2> QED BY <2>1, <2>2
<1> HIDE DEF f
<1>6. FrameOK(f) BY <1>1, <1>4, <1>5 DEF FrameOK
<1> QED BY <1>4, <1>6 DEF f

\* A frame that enters the service with a plan.
LEMMA EnteredFrame ==
    ASSUME PathInv, stack # <<>>, Top.at = "handler", Top.checks = <<>>,
           NEW p \in Plans(Top.op)
    PROVE  /\ FrameOK([Top EXCEPT !.at = "service", !.plan = p])
           /\ [Top EXCEPT !.at = "service", !.plan = p].op = Top.op
           /\ [Top EXCEPT !.at = "service", !.plan = p].at = "service"
<1> DEFINE f == [Top EXCEPT !.at = "service", !.plan = p]
<1>1. FrameOK(Top) /\ Top \in FrameSet BY TopFacts
<1>2. p \in Seq(CallSet \cup {Effect}) /\ Ahead(Top.op, p) BY PlansInOrder
<1>3. /\ f \in FrameSet /\ f.op = Top.op /\ f.user = Top.user /\ f.at = "service"
      /\ f.plan = p
  BY <1>1, <1>2 DEF FrameSet
<1>4. Top.user # "none" \/ ~NeedsUser(Top.op)
  <2>1. \A k \in 1..Len(Top.checks) : FALSE OBVIOUS
  <2> QED BY <2>1, <1>1 DEF FrameOK, Vetted
<1> HIDE DEF f
<1>5. Vetted(f) BY <1>3, <1>4 DEF Vetted
<1>6. FrameOK(f) BY <1>1, <1>2, <1>3, <1>5 DEF FrameOK
<1> QED BY <1>3, <1>6 DEF f

\* A frame in the service that has taken effect.
LEMMA WrittenFrame ==
    ASSUME PathInv, stack # <<>>, Top.at # "handler", Top.plan # <<>>, Head(Top.plan) = Effect
    PROVE  /\ FrameOK([Top EXCEPT !.at = "written", !.plan = Tail(@)])
           /\ [Top EXCEPT !.at = "written", !.plan = Tail(@)].op = Top.op
           /\ [Top EXCEPT !.at = "written", !.plan = Tail(@)].at = "written"
           /\ Top.at = "service"
<1> DEFINE f == [Top EXCEPT !.at = "written", !.plan = Tail(@)]
           p == Top.plan
<1>1. FrameOK(Top) /\ Top \in FrameSet BY TopFacts
<1>2. p \in Seq(CallSet \cup {Effect}) /\ Top.at \in {"service", "written"}
  BY <1>1 DEF FrameSet
<1>3. Top.at = "service"
  <2>1. SUFFICES ASSUME Top.at = "written" PROVE FALSE BY <1>2
  <2>2. CallOf(Top.op, Head(p)) BY <1>1, <1>2, <2>1, BehindRest DEF FrameOK
  <2> QED BY <2>2, EffectIsNoCall DEF CallOf
<1>4. Behind(Top.op, Tail(p)) BY <1>1, <1>2, <1>3, AheadRest DEF FrameOK
<1>5. Tail(p) \in Seq(CallSet \cup {Effect}) BY <1>2, HeadRest
<1>6. /\ f \in FrameSet /\ f.op = Top.op /\ f.user = Top.user /\ f.at = "written"
      /\ f.plan = Tail(p)
  BY <1>1, <1>5 DEF FrameSet
<1> HIDE DEF f
<1>7. Vetted(f) BY <1>1, <1>3, <1>6 DEF FrameOK, Vetted
<1>8. FrameOK(f) BY <1>1, <1>4, <1>6, <1>7 DEF FrameOK
<1> QED BY <1>3, <1>6, <1>8 DEF f

\* A frame in the service whose next call has returned, and the call it waits for.
LEMMA ReturnedFrame ==
    ASSUME PathInv, stack # <<>>, Waiting(Top)
    PROVE  /\ FrameOK([Top EXCEPT !.plan = Tail(@)])
           /\ [Top EXCEPT !.plan = Tail(@)].op = Top.op
           /\ [Top EXCEPT !.plan = Tail(@)].at = Top.at
           /\ CallOf(Top.op, Head(Top.plan))
           /\ Head(Top.plan).policy \in {"lookup", "required", "bestEffort"}
           /\ Top.at = "written" => Head(Top.plan).policy # "lookup"
<1> DEFINE f == [Top EXCEPT !.plan = Tail(@)]
           p == Top.plan
<1>1. FrameOK(Top) /\ Top \in FrameSet BY TopFacts
<1>2. /\ p \in Seq(CallSet \cup {Effect}) /\ Top.at \in {"service", "written"}
      /\ p # <<>> /\ Head(p) # Effect
  BY <1>1 DEF FrameSet, Waiting
<1>3. /\ CallOf(Top.op, Head(p))
      /\ Top.at = "service" => Ahead(Top.op, Tail(p))
      /\ Top.at = "written" => Behind(Top.op, Tail(p)) /\ Head(p).policy # "lookup"
  BY <1>1, <1>2, AheadRest, BehindRest DEF FrameOK
<1>4. Tail(p) \in Seq(CallSet \cup {Effect}) BY <1>2, HeadRest
<1>5. /\ f \in FrameSet /\ f.op = Top.op /\ f.user = Top.user /\ f.at = Top.at
      /\ f.checks = Top.checks /\ f.plan = Tail(p)
  BY <1>1, <1>4 DEF FrameSet
<1> HIDE DEF f
<1>6. Vetted(f) BY <1>1, <1>5 DEF FrameOK, Vetted
<1>7. FrameOK(f) BY <1>1, <1>3, <1>5, <1>6 DEF FrameOK
<1>8. Head(p).policy \in {"lookup", "required", "bestEffort"} BY <1>3 DEF CallOf, CallSet
<1> QED BY <1>3, <1>5, <1>7, <1>8 DEF f

\* The first call of a request is in order.
LEMMA CallInv ==
    ASSUME PathInv, NEW user \in CallUser, Entitled(user),
           stack' = <<Frame(op, user, fields)>>, UNCHANGED request, code' = "none"
    PROVE  /\ StackOK(stack, code)'
           /\ stack' # <<>> /\ stack'[1].op = op /\ stack'[1].at = "handler"
<1>1. op \in Op /\ fields \in BOOLEAN BY DEF PathInv, RequestOK
<1> DEFINE f == Frame(op, user, fields)
<1>2. FrameOK(f) /\ f.op = op /\ f.at = "handler" BY <1>1, FrameBegins
<1> HIDE DEF f
<1>3. StackOK(<<f>>, "none") /\ <<f>> # <<>> /\ <<f>>[1] = f BY <1>2, FirstCall
<1>4. stack' = <<f>> BY DEF f
<1>5. StackOK(stack', code') BY <1>3, <1>4
<1> QED BY <1>2, <1>3, <1>4, <1>5, Carried

\* A call that a service makes is in order, and acts for the caller only if the
\* service appends the user.
LEMMA PushInv ==
    ASSUME PathInv, CallService
    PROVE  PathInv' /\ stack' # <<>> /\ stack'[1] = stack[1]
<1> DEFINE call == Head(Top.plan)
           f == Callee(Top, call)
<1>1. stack # <<>> /\ Waiting(Top) BY DEF CallService, InService, Running, Waiting
<1>2. FrameOK(Top) /\ Top \in FrameSet /\ Top = stack[Len(stack)] BY <1>1, TopFacts
<1>3. CallOf(Top.op, call) BY <1>1, ReturnedFrame
<1>4. call \in CallSet /\ call.op \in Op /\ Depth(call.op) < Depth(Top.op)
  BY <1>3 DEF CallOf, CallSet
<1>5. FrameOK(f) /\ f.op = call.op
  <2> DEFINE user == IF call.appends THEN Top.user ELSE "none"
  <2>1. user \in CallUser /\ Entitled(user)
    BY <1>2 DEF FrameOK, FrameSet, CallUser, Entitled
  <2> HIDE DEF user, call
  <2>2. FrameOK(Frame(call.op, user, TRUE)) /\ Frame(call.op, user, TRUE).op = call.op
    BY <1>4, <2>1, FrameBegins
  <2> QED BY <2>2 DEF user, Callee
<1> HIDE DEF f
<1>6. /\ StackOK(Append(stack, f), "none")
      /\ Append(stack, f) # <<>> /\ Append(stack, f)[1] = stack[1]
  BY <1>1, <1>2, <1>4, <1>5, PushCall DEF PathInv
<1>7. stack' = Append(stack, f) /\ code' = "none" /\ UNCHANGED request
  BY DEF CallService, InService, Running, f
<1>8. StackOK(stack, code)' BY <1>6, <1>7, Carried
<1>9. RequestOK' BY DEF PathInv, RequestOK, CallService
<1> QED BY <1>6, <1>7, <1>8, <1>9 DEF PathInv

\* The ways in keep PathInv.
LEMMA EntryInv ==
    ASSUME PathInv, EffectInv,
           \/ Authenticate \/ ForwardHTTP \/ RateLimit \/ handleClientMessage
           \/ \E user \in {"claimed", "none"} : CallDirectly(user)
    PROVE  PathInv'
<1>1. RequestOK' /\ UNCHANGED request /\ code' = code
  <2>1. CASE Authenticate
    BY <2>1, CodeFacts DEF PathInv, RequestOK, Authenticate, Answers
  <2>2. CASE ForwardHTTP BY <2>2 DEF PathInv, RequestOK, ForwardHTTP
  <2>3. CASE RateLimit BY <2>3, CodeFacts DEF PathInv, RequestOK, RateLimit, Answers
  <2>4. CASE handleClientMessage
    BY <2>4, CodeFacts DEF PathInv, RequestOK, handleClientMessage, Answers
  <2>5. CASE \E user \in {"claimed", "none"} : CallDirectly(user)
    BY <2>5 DEF PathInv, RequestOK, CallDirectly
  <2> QED BY <2>1, <2>2, <2>3, <2>4, <2>5
<1>2. code = "none" BY DEF EffectInv, Authenticate, ForwardHTTP, RateLimit,
                           handleClientMessage, CallDirectly
<1>3. \/ stack' = stack
      \/ \E user \in CallUser :
            Entitled(user) /\ stack' = <<Frame(op, user, fields)>>
  <2>1. CASE Authenticate \/ RateLimit BY <2>1 DEF Authenticate, RateLimit
  <2>2. CASE ForwardHTTP BY <2>2 DEF ForwardHTTP, UserIDMiddleware, CallUser, Entitled
  <2>3. CASE handleClientMessage BY <2>3 DEF handleClientMessage, CallUser, Entitled
  <2>4. CASE \E user \in {"claimed", "none"} : CallDirectly(user)
    BY <2>4 DEF CallDirectly, CallUser, Entitled
  <2> QED BY <2>1, <2>2, <2>3, <2>4
<1>4. CASE stack' = stack
  <2>1. StackOK(stack', code') BY <1>1, <1>4 DEF PathInv
  <2> QED BY <1>1, <2>1, Carried DEF PathInv
<1>5. CASE \E user \in CallUser :
              Entitled(user) /\ stack' = <<Frame(op, user, fields)>>
  BY <1>1, <1>2, <1>5, CallInv DEF PathInv
<1> QED BY <1>3, <1>4, <1>5

\* The steps of a call in a service keep PathInv.
LEMMA ServiceInv ==
    ASSUME PathInv,
           \/ MustGetUserID \/ RequireFields \/ EnterService \/ CallService \/ TakesEffect
           \/ ServiceFinishes \/ PublishPanics
           \/ \E kind \in DOMAIN grpcCodeMapping \cup {"plain"} : ServiceFails(kind)
    PROVE  PathInv'
<1>1. stack # <<>> /\ code = "none"
  BY DEF MustGetUserID, RequireFields, EnterService, CallService, TakesEffect,
         ServiceFinishes, PublishPanics, ServiceFails, Check, InService, Running
<1>2. FrameOK(Top) /\ Top \in FrameSet BY <1>1, TopFacts
<1>3. ASSUME NEW what \in {"user", "fields"}, Check(what), Passes,
             what = "user" => Top.user # "none"
      PROVE  PathInv'
  <2> DEFINE f == [Top EXCEPT !.checks = Tail(@)]
  <2>1. FrameOK(f) /\ f.op = Top.op BY <1>1, <1>3, PassedFrame
  <2>2. SetTop(f) /\ code' = "none" /\ UNCHANGED request BY <1>1, <1>3 DEF Passes
  <2> HIDE DEF f
  <2>3. StackOK(stack, code)' BY <1>1, <2>1, <2>2, SetTopInv
  <2>4. RequestOK' BY <1>3 DEF PathInv, RequestOK, Passes
  <2> QED BY <2>3, <2>4 DEF PathInv
<1>4. CASE MustGetUserID
  <2>1. CASE Top.user = "none"
    <3>1. Ends(Recovery, "panic") /\ effects' = effects BY <1>4, <2>1 DEF MustGetUserID
    <3> QED BY <1>1, <3>1, CodeFacts, EndsInv
  <2>2. CASE Top.user # "none"
    <3>1. Top.user # "none" BY <1>2, <2>2 DEF FrameSet, CallUser
    <3>2. Check("user") /\ Passes BY <1>4, <2>2 DEF MustGetUserID
    <3> QED BY <1>3, <3>1, <3>2
  <2> QED BY <2>1, <2>2
<1>5. CASE RequireFields
  <2>1. CASE ~Top.fields
    <3>1. Ends(BadRequest, "fields") /\ effects' = effects BY <1>5, <2>1 DEF RequireFields
    <3> QED BY <1>1, <3>1, CodeFacts, EndsInv
  <2>2. CASE Top.fields
    <3>1. Check("fields") /\ Passes BY <1>5, <2>2 DEF RequireFields
    <3> QED BY <1>3, <3>1
  <2> QED BY <2>1, <2>2
<1>6. CASE EnterService
  <2>1. PICK p \in Plans(Top.op) : SetTop([Top EXCEPT !.at = "service", !.plan = p])
    BY <1>6 DEF EnterService
  <2> DEFINE f == [Top EXCEPT !.at = "service", !.plan = p]
  <2>2. Top.at = "handler" /\ Top.checks = <<>> BY <1>6 DEF EnterService
  <2>3. FrameOK(f) /\ f.op = Top.op BY <1>1, <2>2, EnteredFrame
  <2>4. SetTop(f) /\ code' = "none" /\ UNCHANGED request BY <1>1, <1>6, <2>1 DEF EnterService
  <2> HIDE DEF f
  <2>5. StackOK(stack, code)' BY <1>1, <2>3, <2>4, SetTopInv
  <2>6. RequestOK' BY <1>6 DEF PathInv, RequestOK, EnterService
  <2> QED BY <2>5, <2>6 DEF PathInv
<1>7. CASE CallService BY <1>7, PushInv
<1>8. CASE TakesEffect
  <2> DEFINE f == [Top EXCEPT !.at = "written", !.plan = Tail(@)]
  <2>1. Top.at # "handler" /\ Top.plan # <<>> /\ Head(Top.plan) = Effect
    BY <1>8 DEF TakesEffect, InService
  <2>2. FrameOK(f) /\ f.op = Top.op BY <1>1, <2>1, WrittenFrame
  <2>3. SetTop(f) /\ code' = "none" /\ UNCHANGED request BY <1>1, <1>8 DEF TakesEffect
  <2> HIDE DEF f
  <2>4. StackOK(stack, code)' BY <1>1, <2>2, <2>3, SetTopInv
  <2>5. Top.op \in Op BY <1>2 DEF FrameSet
  <2>6. RequestOK' BY <1>8, <2>5 DEF PathInv, RequestOK, TakesEffect
  <2> QED BY <2>4, <2>6 DEF PathInv
<1>9. CASE ServiceFinishes
  <2>1. Ends("OK", "none") /\ effects' = effects BY <1>9 DEF ServiceFinishes
  <2> QED BY <1>1, <2>1, CodeFacts, EndsInv
<1>10. CASE PublishPanics
  <2>1. Ends(Recovery, "panic") /\ effects' = effects BY <1>10 DEF PublishPanics
  <2> QED BY <1>1, <2>1, CodeFacts, EndsInv
<1>11. CASE \E kind \in DOMAIN grpcCodeMapping \cup {"plain"} : ServiceFails(kind)
  <2>1. PICK kind \in DOMAIN grpcCodeMapping \cup {"plain"} : ServiceFails(kind) BY <1>11
  <2>2. Ends(ConvertError(kind), kind) /\ effects' = effects BY <2>1 DEF ServiceFails
  <2>3. ConvertError(kind) \in Code /\ kind \in Cause BY CodeFacts
  <2> QED BY <1>1, <2>2, <2>3, EndsInv
<1> QED BY <1>4, <1>5, <1>6, <1>7, <1>8, <1>9, <1>10, <1>11

\* Returns, deadlines and late effects keep PathInv.
LEMMA ReturnInv ==
    ASSUME PathInv,
           \/ ReturnToService \/ ReturnToGateway \/ ReturnToSocket \/ ReturnToClient
           \/ \E i \in 1..3 : TimeOut(i)
           \/ LateEffect
    PROVE  PathInv'
<1>1. CASE ReturnToService
  <2>1. stack # <<>> /\ code # "none" BY <1>1 DEF ReturnToService, Returned
  <2>2. Waiting(Top) BY <2>1, TopFacts
  <2> DEFINE f == [Top EXCEPT !.plan = Tail(@)]
             policy == Head(Top.plan).policy
  <2>3. FrameOK(f) /\ f.op = Top.op BY <2>1, <2>2, ReturnedFrame
  <2>4. policy \in {"lookup", "required", "bestEffort"} BY <2>1, <2>2, ReturnedFrame
  <2>5. CASE code = "OK" \/ policy = "bestEffort"
    <3>1. /\ SetTop(f) /\ code' = "none" /\ UNCHANGED <<request, phase, answer, late, blame>>
          /\ effects' = effects
      BY <1>1, <2>5 DEF ReturnToService
    <3> HIDE DEF f
    <3>2. StackOK(stack, code)' BY <2>1, <2>3, <3>1, SetTopInv
    <3>3. RequestOK' BY <3>1, CodeFacts DEF PathInv, RequestOK
    <3> QED BY <3>2, <3>3 DEF PathInv
  <2>6. CASE ~(code = "OK" \/ policy = "bestEffort")
    <3> DEFINE kind == IF policy = "lookup" THEN "notFound" ELSE "internal"
    <3>1. Ends(ConvertError(kind), policy) /\ effects' = effects
      BY <1>1, <2>6 DEF ReturnToService
    <3>2. kind \in DOMAIN grpcCodeMapping BY CodeFacts
    <3>3. policy \in Cause BY <2>4, <2>6, CodeFacts
    <3> HIDE DEF kind, policy
    <3>4. ConvertError(kind) \in Code BY <3>2, CodeFacts
    <3> QED BY <2>1, <3>1, <3>3, <3>4, EndsInv
  <2> QED BY <2>5, <2>6
<1>2. CASE ReturnToGateway \/ ReturnToSocket \/ ReturnToClient
  <2>1. RequestOK' /\ UNCHANGED <<stack, code, request>>
    BY <1>2 DEF PathInv, RequestOK, ReturnToGateway, ReturnToSocket, ReturnToClient
  <2> QED BY <2>1, Carried DEF PathInv
<1>3. CASE \E i \in 1..3 : TimeOut(i)
  <2>1. PICK i \in 1..3 : TimeOut(i) BY <1>3
  <2>2. stack \in Seq(FrameSet) /\ i \in DOMAIN stack BY <2>1 DEF PathInv, StackOK, TimeOut
  <2>3. i \in 1..Len(stack) /\ i - 1 \in 0..Len(stack) - 1 BY <2>2
  <2>4. StackOK(SubSeq(stack, 1, i - 1), "DeadlineExceeded") BY <2>3, CutStack DEF PathInv
  <2>5. StackOK(stack', code') /\ UNCHANGED request BY <2>1, <2>4 DEF TimeOut
  <2>6. late' \subseteq Op
    <3>1. \A j \in i..Len(stack) : stack[j].op \in Op
      <4>1. \A j \in i..Len(stack) : stack[j] \in FrameSet BY <2>2, <2>3
      <4> QED BY <4>1 DEF FrameSet
    <3>2. late \subseteq Op BY DEF PathInv, RequestOK
    <3> QED BY <2>1, <3>1, <3>2 DEF TimeOut
  <2>7. RequestOK' BY <2>1, <2>6, CodeFacts DEF PathInv, RequestOK, TimeOut
  <2> QED BY <2>5, <2>7, Carried DEF PathInv
<1>4. CASE LateEffect
  <2>1. RequestOK' /\ UNCHANGED <<stack, code, request>>
    BY <1>4 DEF PathInv, RequestOK, LateEffect
  <2> QED BY <2>1, Carried DEF PathInv
<1> QED BY <1>1, <1>2, <1>3, <1>4

-----------------------------------------------------------------------------
\* EffectInv holds in the beginning.
LEMMA EffectInit == RequestInit => EffectInv /\ AnswerTellsEffect
BY DEF RequestInit, EffectInv, AnswerTellsEffect, Refusal

\* As long as the calls go on, the client has no answer.
LEMMA NoAnswerYet ==
    ASSUME EffectInv, phase = "called"
    PROVE  answer = "none"
BY DEF EffectInv

\* A step of the servers that answers nothing keeps AnswerTellsEffect.
LEMMA AnswerKept ==
    ASSUME answer' = "none"
    PROVE  AnswerTellsEffect'
BY DEF AnswerTellsEffect, Refusal

\* The calls above the first are for other operations.
LEMMA NestedDiffer ==
    ASSUME PathInv, EffectInv, stack # <<>>, NEW j \in 1..Len(stack), j > 1
    PROVE  stack[j].op # op
<1>1. 1 \in 1..Len(stack) BY TopFacts
<1>2. Depth(stack[j].op) < Depth(stack[1].op) BY <1>1 DEF PathInv, StackOK
<1>3. Depth(stack[1].op) \in 0..2 BY DepthFacts
<1>4. stack[j].op # stack[1].op BY <1>2, <1>3
<1> QED BY <1>4 DEF EffectInv

\* What is left when the top call ends.
LEMMA BelowFacts ==
    ASSUME PathInv, stack # <<>>, stack' = Below
    PROVE  /\ Len(stack) = 1 => stack' = <<>>
           /\ Len(stack) # 1 => stack' # <<>> /\ stack'[1] = stack[1]
<1>1. stack \in Seq(FrameSet) /\ Len(stack) \in Nat \ {0}
  BY TopFacts DEF PathInv, StackOK
<1> DEFINE n == Len(stack) - 1
           t == SubSeq(stack, 1, n)
<1>2. n \in 0..Len(stack) /\ (Len(stack) = 1 => n = 0) /\ (Len(stack) # 1 => n # 0 /\ 1 \in 1..n)
  <2> DEFINE m == Len(stack)
  <2>1. m \in Nat \ {0} BY <1>1
  <2> HIDE DEF m
  <2>2. /\ m - 1 \in 0..m /\ (m = 1 => m - 1 = 0)
        /\ m # 1 => m - 1 # 0 /\ 1 \in 1..m - 1
    BY <2>1
  <2> QED BY <2>2 DEF m
<1>3. t \in Seq(FrameSet) /\ Len(t) = n /\ \A i \in 1..n : t[i] = stack[i]
  BY <1>1, <1>2, StackFacts
<1>4. stack' = t BY DEF Below
<1> HIDE DEF t, n
<1>5. n = 0 => t = <<>> BY <1>3
<1>6. n # 0 => t # <<>> BY <1>3
<1> QED BY <1>2, <1>3, <1>4, <1>5, <1>6

\* A call that ends keeps EffectInv if the first call ends with OK only after its
\* effect, and with a refusal only before it and for no fault of a server.
LEMMA EndsEffect ==
    ASSUME PathInv, EffectInv, stack # <<>>, phase = "called", effects' = effects,
           NEW c, NEW cause, Ends(c, cause), c # "none",
           Len(stack) = 1 /\ c = "OK" => Top.at = "written",
           Len(stack) = 1 /\ c \notin {"OK", "Internal", "DeadlineExceeded"} =>
             Top.at # "written" /\ cause \notin ServerFault
    PROVE  EffectInv' /\ AnswerTellsEffect'
<1>1. answer' = "none" /\ phase' = "called" /\ op' = op /\ late' = late /\ code' = c /\ stack' = Below
  BY NoAnswerYet DEF Ends
<1>2. /\ stack[1].op = op /\ op \notin late
      /\ op \in effects <=> stack[1].at = "written"
  BY DEF EffectInv
<1>3. CASE Len(stack) = 1
  <2>1. stack' = <<>> /\ Top = stack[1] BY <1>1, <1>3, BelowFacts DEF Top
  <2>2. blame' = cause BY <1>3 DEF Ends
  <2> QED BY <1>1, <1>2, <1>3, <2>1, <2>2, AnswerKept DEF EffectInv
<1>4. CASE Len(stack) # 1
  <2>1. stack' # <<>> /\ stack'[1] = stack[1] BY <1>1, <1>4, BelowFacts
  <2> QED BY <1>1, <1>2, <2>1, AnswerKept DEF EffectInv
<1> QED BY <1>3, <1>4

\* A step of the top call that is no effect keeps EffectInv.
LEMMA StepEffect ==
    ASSUME PathInv, EffectInv, stack # <<>>, phase = "called",
           UNCHANGED <<request, phase, answer, late, effects>>,
           stack' # <<>>, stack'[1].op = op, stack'[1].at = "written" <=> stack[1].at = "written"
    PROVE  EffectInv' /\ AnswerTellsEffect'
<1>1. answer' = "none" /\ phase' = "called" BY NoAnswerYet
<1>2. /\ op \notin late
      /\ op \in effects <=> stack[1].at = "written"
  BY DEF EffectInv
<1> QED BY <1>1, <1>2, AnswerKept DEF EffectInv

\* SetTop, for the first call.
LEMMA FirstAfterSetTop ==
    ASSUME PathInv, EffectInv, stack # <<>>, NEW f, FrameOK(f), f.op = Top.op, SetTop(f),
           code' = "none", UNCHANGED request
    PROVE  /\ stack' # <<>> /\ stack'[1].op = op
           /\ Len(stack) = 1 => stack'[1] = f /\ Top = stack[1]
           /\ Len(stack) # 1 => stack'[1] = stack[1] /\ Top.op # op
<1>1. stack' # <<>> /\ stack'[1] = IF Len(stack) = 1 THEN f ELSE stack[1]
  BY SetTopInv
<1>2. stack[1].op = op BY DEF EffectInv
<1>3. Len(stack) # 1 => Top.op # op
  <2>1. Len(stack) \in 1..Len(stack) /\ Len(stack) \in Nat \ {0} BY TopFacts
  <2>2. \A m \in Nat \ {0} : m # 1 => m > 1 OBVIOUS
  <2> QED BY <2>1, <2>2, NestedDiffer DEF Top
<1>4. Len(stack) = 1 => Top = stack[1] BY DEF Top
<1> QED BY <1>1, <1>2, <1>3, <1>4

\* The ways in keep EffectInv.
LEMMA EntryEffect ==
    ASSUME PathInv, EffectInv, AnswerTellsEffect,
           \/ Authenticate \/ ForwardHTTP \/ RateLimit \/ handleClientMessage
           \/ \E user \in {"claimed", "none"} : CallDirectly(user)
    PROVE  EffectInv' /\ AnswerTellsEffect'
<1>1. /\ phase \in {"arrived", "admitted"}
      /\ stack = <<>> /\ code = "none" /\ answer = "none" /\ effects = {} /\ late = {}
  BY DEF EffectInv, Authenticate, ForwardHTTP, RateLimit, handleClientMessage, CallDirectly
<1>2. op' = op /\ UNCHANGED request /\ code' = "none" /\ effects' = {} /\ late' = {}
  BY <1>1 DEF Authenticate, ForwardHTTP, RateLimit, handleClientMessage, CallDirectly, Answers
<1>3. \/ phase' = "admitted" /\ stack' = <<>> /\ answer' = "none"
      \/ /\ phase' = "answered" /\ stack' = <<>>
         /\ answer' \in {ErrorEncoder("Unauthenticated"), ErrorEncoder("ResourceExhausted"), "dropped"}
         /\ blame' \in {"token", "rate", "fields"}
      \/ /\ phase' = "called" /\ answer' = "none"
         /\ \E user \in CallUser :
              Entitled(user) /\ stack' = <<Frame(op, user, fields)>>
  <2>1. CASE Authenticate BY <1>1, <2>1 DEF Authenticate, Answers
  <2>2. CASE ForwardHTTP
    BY <1>1, <2>2 DEF ForwardHTTP, UserIDMiddleware, CallUser, Entitled
  <2>3. CASE RateLimit BY <1>1, <2>3 DEF RateLimit, Answers
  <2>4. CASE handleClientMessage
    BY <1>1, <2>4 DEF handleClientMessage, Answers, CallUser, Entitled
  <2>5. CASE \E user \in {"claimed", "none"} : CallDirectly(user)
    BY <1>1, <2>5 DEF CallDirectly, CallUser, Entitled
  <2> QED BY <2>1, <2>2, <2>3, <2>4, <2>5
<1>4. CASE phase' = "admitted" /\ stack' = <<>> /\ answer' = "none"
  BY <1>2, <1>4, AnswerKept DEF EffectInv
<1>5. CASE /\ phase' = "answered" /\ stack' = <<>>
           /\ answer' \in {ErrorEncoder("Unauthenticated"), ErrorEncoder("ResourceExhausted"), "dropped"}
           /\ blame' \in {"token", "rate", "fields"}
  <2>1. answer' \in {"401", "429", "dropped"}
    BY <1>5 DEF ErrorEncoder, mapBusinessCodeToHTTP
  <2> QED BY <1>2, <1>5, <2>1 DEF EffectInv, AnswerTellsEffect, ServerFault
<1>6. CASE /\ phase' = "called" /\ answer' = "none"
           /\ \E user \in CallUser :
                Entitled(user) /\ stack' = <<Frame(op, user, fields)>>
  <2>1. stack' # <<>> /\ stack'[1].op = op /\ stack'[1].at = "handler"
    BY <1>2, <1>6, CallInv
  <2> QED BY <1>2, <1>6, <2>1, AnswerKept DEF EffectInv
<1> QED BY <1>3, <1>4, <1>5, <1>6

\* The steps of a call in a service keep EffectInv.
LEMMA ServiceEffect ==
    ASSUME PathInv, EffectInv, AnswerTellsEffect,
           \/ MustGetUserID \/ RequireFields \/ EnterService \/ CallService \/ TakesEffect
           \/ ServiceFinishes \/ PublishPanics
           \/ \E kind \in DOMAIN grpcCodeMapping \cup {"plain"} : ServiceFails(kind)
    PROVE  EffectInv' /\ AnswerTellsEffect'
<1>1. stack # <<>> /\ code = "none" /\ phase = "called"
  BY DEF MustGetUserID, RequireFields, EnterService, CallService, TakesEffect,
         ServiceFinishes, PublishPanics, ServiceFails, Check, InService, Running
<1>2. FrameOK(Top) /\ Top \in FrameSet BY <1>1, TopFacts
<1>3. ASSUME NEW what \in {"user", "fields"}, Check(what), Passes,
             what = "user" => Top.user # "none"
      PROVE  EffectInv' /\ AnswerTellsEffect'
  <2> DEFINE f == [Top EXCEPT !.checks = Tail(@)]
  <2>1. FrameOK(f) /\ f.op = Top.op /\ f.at = "handler" /\ Top.at = "handler"
    BY <1>1, <1>3, PassedFrame DEF Check
  <2>2. /\ SetTop(f) /\ code' = "none" /\ UNCHANGED request
        /\ UNCHANGED <<request, phase, answer, late, effects>>
    BY <1>1, <1>3 DEF Passes
  <2> HIDE DEF f
  <2>3. stack' # <<>> /\ stack'[1].op = op /\ (stack'[1].at = "written" <=> stack[1].at = "written")
    BY <1>1, <2>1, <2>2, FirstAfterSetTop
  <2> QED BY <1>1, <2>2, <2>3, StepEffect
<1>4. CASE MustGetUserID
  <2>1. CASE Top.user = "none"
    <3>1. Ends(Recovery, "panic") /\ effects' = effects BY <1>4, <2>1 DEF MustGetUserID
    <3> QED BY <1>1, <3>1, CodeFacts, EndsEffect
  <2>2. CASE Top.user # "none"
    <3>1. Top.user # "none" BY <1>2, <2>2 DEF FrameSet, CallUser
    <3>2. Check("user") /\ Passes BY <1>4, <2>2 DEF MustGetUserID
    <3> QED BY <1>3, <3>1, <3>2
  <2> QED BY <2>1, <2>2
<1>5. CASE RequireFields
  <2>1. CASE ~Top.fields
    <3>1. Ends(BadRequest, "fields") /\ effects' = effects /\ Top.at = "handler"
      BY <1>5, <2>1 DEF RequireFields, Check
    <3>2. "fields" \notin ServerFault BY DEF ServerFault
    <3> QED BY <1>1, <3>1, <3>2, CodeFacts, EndsEffect
  <2>2. CASE Top.fields
    <3>1. Check("fields") /\ Passes BY <1>5, <2>2 DEF RequireFields
    <3> QED BY <1>3, <3>1
  <2> QED BY <2>1, <2>2
<1>6. CASE EnterService
  <2>1. PICK p \in Plans(Top.op) : SetTop([Top EXCEPT !.at = "service", !.plan = p])
    BY <1>6 DEF EnterService
  <2> DEFINE f == [Top EXCEPT !.at = "service", !.plan = p]
  <2>2. Top.at = "handler" /\ Top.checks = <<>> BY <1>6 DEF EnterService
  <2>3. FrameOK(f) /\ f.op = Top.op /\ f.at = "service" BY <1>1, <2>2, EnteredFrame
  <2>4. /\ SetTop(f) /\ code' = "none" /\ UNCHANGED request
        /\ UNCHANGED <<request, phase, answer, late, effects>>
    BY <1>1, <1>6, <2>1 DEF EnterService
  <2> HIDE DEF f
  <2>5. stack' # <<>> /\ stack'[1].op = op /\ (stack'[1].at = "written" <=> stack[1].at = "written")
    BY <1>1, <2>2, <2>3, <2>4, FirstAfterSetTop
  <2> QED BY <1>1, <2>4, <2>5, StepEffect
<1>7. CASE CallService
  <2>1. stack' # <<>> /\ stack'[1] = stack[1] BY <1>7, PushInv
  <2>2. UNCHANGED <<request, phase, answer, late, effects>> BY <1>7 DEF CallService
  <2>3. stack[1].op = op BY <1>1 DEF EffectInv
  <2> QED BY <1>1, <2>1, <2>2, <2>3, StepEffect
<1>8. CASE TakesEffect
  <2> DEFINE f == [Top EXCEPT !.at = "written", !.plan = Tail(@)]
  <2>1. Top.at # "handler" /\ Top.plan # <<>> /\ Head(Top.plan) = Effect
    BY <1>8 DEF TakesEffect, InService
  <2>2. FrameOK(f) /\ f.op = Top.op /\ f.at = "written" BY <1>1, <2>1, WrittenFrame
  <2>3. /\ SetTop(f) /\ code' = "none" /\ UNCHANGED request /\ op' = op
        /\ effects' = effects \cup {Top.op} /\ late' = late
        /\ phase' = "called" /\ answer' = "none"
    BY <1>1, <1>8, NoAnswerYet DEF TakesEffect
  <2> HIDE DEF f
  <2>4. /\ stack' # <<>> /\ stack'[1].op = op
        /\ Len(stack) = 1 => stack'[1] = f /\ Top = stack[1]
        /\ Len(stack) # 1 => stack'[1] = stack[1] /\ Top.op # op
    BY <1>1, <2>2, <2>3, FirstAfterSetTop
  <2>5. /\ stack[1].op = op /\ op \notin late
        /\ op \in effects <=> stack[1].at = "written"
    BY <1>1 DEF EffectInv
  <2>6. op \in effects' <=> stack'[1].at = "written"
    BY <2>2, <2>3, <2>4, <2>5
  <2> QED BY <2>3, <2>4, <2>5, <2>6, AnswerKept DEF EffectInv
<1>9. CASE ServiceFinishes
  <2>1. Ends("OK", "none") /\ effects' = effects /\ Top.at # "handler" /\ Top.plan = <<>>
    BY <1>9 DEF ServiceFinishes, InService
  <2>2. Top.at = "written"
    <3>1. SUFFICES ASSUME Top.at = "service" PROVE FALSE BY <1>2, <2>1 DEF FrameSet
    <3>2. Top.plan \in Seq(CallSet \cup {Effect}) /\ Ahead(Top.op, Top.plan)
      BY <1>2, <3>1 DEF FrameSet, FrameOK
    <3> QED BY <2>1, <3>2, AheadRest
  <2> QED BY <1>1, <2>1, <2>2, EndsEffect
<1>10. CASE PublishPanics
  <2>1. Ends(Recovery, "panic") /\ effects' = effects BY <1>10 DEF PublishPanics
  <2> QED BY <1>1, <2>1, CodeFacts, EndsEffect
<1>11. CASE \E kind \in DOMAIN grpcCodeMapping \cup {"plain"} : ServiceFails(kind)
  <2>1. PICK kind \in DOMAIN grpcCodeMapping \cup {"plain"} : ServiceFails(kind) BY <1>11
  <2>2. /\ Ends(ConvertError(kind), kind) /\ effects' = effects
        /\ Top.at = "written" => kind \in {"internal", "plain"}
    BY <2>1 DEF ServiceFails
  <2>3. /\ ConvertError(kind) # "none" /\ ConvertError(kind) # "OK"
        /\ kind \in {"internal", "plain"} => ConvertError(kind) = "Internal"
        /\ kind \in ServerFault => ConvertError(kind) = "Internal"
    BY CodeFacts
  <2> QED BY <1>1, <2>2, <2>3, EndsEffect
<1> QED BY <1>4, <1>5, <1>6, <1>7, <1>8, <1>9, <1>10, <1>11

\* Returns, deadlines and late effects keep EffectInv.
LEMMA ReturnEffect ==
    ASSUME PathInv, EffectInv, AnswerTellsEffect,
           \/ ReturnToService \/ ReturnToGateway \/ ReturnToSocket \/ ReturnToClient
           \/ \E i \in 1..3 : TimeOut(i)
           \/ LateEffect
    PROVE  EffectInv' /\ AnswerTellsEffect'
<1>1. CASE ReturnToService
  <2>1. stack # <<>> /\ code # "none" /\ phase = "called" BY <1>1 DEF ReturnToService, Returned
  <2>2. Waiting(Top) BY <2>1, TopFacts
  <2> DEFINE f == [Top EXCEPT !.plan = Tail(@)]
             policy == Head(Top.plan).policy
  <2>3. FrameOK(f) /\ f.op = Top.op /\ f.at = Top.at BY <2>1, <2>2, ReturnedFrame
  <2>4. /\ policy \in {"lookup", "required", "bestEffort"}
        /\ Top.at = "written" => policy # "lookup"
    BY <2>1, <2>2, ReturnedFrame
  <2>5. CASE code = "OK" \/ policy = "bestEffort"
    <3>1. /\ SetTop(f) /\ code' = "none" /\ UNCHANGED request
          /\ UNCHANGED <<request, phase, answer, late, effects>>
      BY <1>1, <2>5 DEF ReturnToService
    <3> HIDE DEF f
    <3>2. stack' # <<>> /\ stack'[1].op = op /\ (stack'[1].at = "written" <=> stack[1].at = "written")
      BY <2>1, <2>3, <3>1, FirstAfterSetTop
    <3> QED BY <2>1, <3>1, <3>2, StepEffect
  <2>6. CASE ~(code = "OK" \/ policy = "bestEffort")
    <3> DEFINE c == ConvertError(IF policy = "lookup" THEN "notFound" ELSE "internal")
    <3>1. Ends(c, policy) /\ effects' = effects
      BY <1>1, <2>6 DEF ReturnToService
    <3>2. /\ c # "none" /\ c # "OK"
          /\ c \notin {"OK", "Internal", "DeadlineExceeded"} => policy = "lookup"
      BY CodeFacts
    <3>3. "lookup" \notin ServerFault BY DEF ServerFault
    <3> HIDE DEF c, policy
    <3> QED BY <2>1, <2>4, <3>1, <3>2, <3>3, EndsEffect
  <2> QED BY <2>5, <2>6
<1>2. CASE ReturnToGateway \/ ReturnToSocket \/ ReturnToClient
  <2>1. /\ stack = <<>> /\ code # "none" /\ phase' = "answered"
        /\ UNCHANGED <<op, stack, code, late, effects, blame>>
    BY <1>2 DEF ReturnToGateway, ReturnToSocket, ReturnToClient, Returned
  <2>2. EffectInv'
    BY <2>1 DEF EffectInv
  <2>3. answer' \in {"200", "message.sent", "OK"} => code = "OK"
    <3>1. CASE ReturnToGateway
      BY <3>1 DEF ReturnToGateway, ErrorEncoder, mapBusinessCodeToHTTP
    <3>2. CASE ReturnToSocket BY <3>2 DEF ReturnToSocket
    <3>3. CASE ReturnToClient
      <4>1. answer' = code /\ code \in Code BY <3>3 DEF ReturnToClient, PathInv, RequestOK
      <4> QED BY <4>1 DEF Code, grpcCodeMapping
    <3> QED BY <1>2, <3>1, <3>2, <3>3
  <2>4. answer' \in Refusal => code \notin {"OK", "Internal", "DeadlineExceeded"}
    <3>1. CASE ReturnToGateway
      BY <3>1 DEF ReturnToGateway, ErrorEncoder, ResponseEncoder, mapBusinessCodeToHTTP, Refusal
    <3>2. CASE ReturnToSocket BY <3>2 DEF ReturnToSocket, Refusal
    <3>3. CASE ReturnToClient
      BY <3>3 DEF ReturnToClient, Refusal
    <3> QED BY <1>2, <3>1, <3>2, <3>3
  <2>5. /\ code = "OK" => op \in effects
        /\ code \notin {"OK", "Internal", "DeadlineExceeded"} =>
             op \notin effects \cup late /\ blame \notin ServerFault
    BY <2>1 DEF EffectInv
  <2>6. AnswerTellsEffect' BY <2>1, <2>3, <2>4, <2>5 DEF AnswerTellsEffect
  <2> QED BY <2>2, <2>6
<1>3. CASE \E i \in 1..3 : TimeOut(i)
  <2>1. PICK i \in 1..3 : TimeOut(i) BY <1>3
  <2>2. stack \in Seq(FrameSet) /\ i \in 1..Len(stack) /\ Len(stack) \in Nat /\ phase = "called"
    BY <2>1 DEF PathInv, StackOK, TimeOut
  <2>3. stack # <<>> BY <2>2
  <2>4. i - 1 \in 0..Len(stack) BY <2>2
  <2> DEFINE t == SubSeq(stack, 1, i - 1)
  <2>5. t \in Seq(FrameSet) /\ Len(t) = i - 1 /\ \A j \in 1..i - 1 : t[j] = stack[j]
    BY <2>2, <2>4, StackFacts
  <2>6. /\ stack' = t /\ code' = "DeadlineExceeded" /\ op' = op /\ effects' = effects
        /\ phase' = "called" /\ answer' = "none"
        /\ late' = late \cup {stack[j].op : j \in {k \in i..Len(stack) : CanTakeEffect(stack[k])}}
    BY <2>1, <2>2, NoAnswerYet DEF TimeOut
  <2> HIDE DEF t
  <2>7. CASE i = 1
    <3>1. stack' = <<>> BY <2>5, <2>6, <2>7
    <3> QED BY <2>6, <3>1, AnswerKept DEF EffectInv
  <2>8. CASE i > 1
    <3>1. stack' # <<>> /\ stack'[1] = stack[1]
      <4>1. 1 \in 1..i - 1 /\ i - 1 # 0 BY <2>8
      <4> QED BY <2>5, <2>6, <4>1
    <3>2. \A j \in i..Len(stack) : stack[j].op # op
      <4>1. \A j \in i..Len(stack) : j \in 1..Len(stack) /\ j > 1 BY <2>2, <2>8
      <4> QED BY <2>3, <4>1, NestedDiffer
    <3>3. /\ stack[1].op = op /\ op \notin late
          /\ op \in effects <=> stack[1].at = "written"
      BY <2>3 DEF EffectInv
    <3>4. op \notin late' BY <2>6, <3>2, <3>3
    <3> QED BY <2>6, <3>1, <3>3, <3>4, AnswerKept DEF EffectInv
  <2> QED BY <2>7, <2>8
<1>4. CASE LateEffect
  <2>1. PICK o \in late : late' = late \ {o} /\ effects' = effects \cup {o}
    BY <1>4 DEF LateEffect
  <2>2. UNCHANGED <<op, phase, stack, code, answer, blame>> BY <1>4 DEF LateEffect
  <2>3. /\ late # {}
        /\ effects \subseteq effects' /\ effects' \cup late' = effects \cup late
    BY <2>1
  <2>4. op \notin late => (op \notin late' /\ (op \in effects' <=> op \in effects))
    BY <2>1
  <2>5. EffectInv' BY <2>2, <2>3, <2>4 DEF EffectInv
  <2>6. AnswerTellsEffect' BY <2>2, <2>3 DEF AnswerTellsEffect
  <2> QED BY <2>5, <2>6
<1> QED BY <1>1, <1>2, <1>3, <1>4

-----------------------------------------------------------------------------
\* A request with a bad token gets into the servers only if it is whitelisted.
Admitted == phase \in {"admitted", "called"} /\ token = "bad" => op \in WhiteList

\* What the acts of a request are.
ActedInv == Admitted /\ acted \subseteq Op \X Who /\ ActsForCaller

\* A request with a bad token calls no further services: whitelisted operations
\* make no calls.
LEMMA BadToken ==
    ASSUME PathInv, EffectInv, Admitted, token = "bad", NEW j \in 1..Len(stack)
    PROVE  stack[j].op \in WhiteList
<1>1. stack \in Seq(FrameSet) BY DEF PathInv, StackOK
<1>2. stack # <<>> BY <1>1
<1>3. phase = "called" /\ stack[1].op = op BY <1>2 DEF EffectInv, PathInv, RequestOK
<1>4. op \in WhiteList BY <1>3 DEF Admitted
<1>5. Depth(stack[1].op) = 0 BY <1>3, <1>4 DEF WhiteList, Depth
<1>6. CASE j = 1 BY <1>3, <1>4, <1>6
<1>7. CASE j # 1
  <2>1. 1 \in 1..Len(stack) /\ 1 < j BY <1>1, <1>7
  <2>2. Depth(stack[j].op) < Depth(stack[1].op) BY <2>1 DEF PathInv, StackOK
  <2>3. Depth(stack[j].op) \in 0..2 BY DepthFacts
  <2> QED BY <1>5, <2>2, <2>3
<1> QED BY <1>6, <1>7

\* A call that has passed the check for a user, or will pass it, acts as it may.
LEMMA OneActs ==
    ASSUME PathInv, EffectInv, Admitted, NEW j \in 1..Len(stack),
           stack[j].at # "handler" \/ CanTakeEffect(stack[j]),
           NEW o \in Op, NEW who \in Who, <<o, who>> = ActsFor(stack[j])
    PROVE  /\ NeedsUser(o) => \/ who = "caller" /\ token = "valid"
                              \/ who = "claimed" /\ entry = "service"
           /\ token = "bad" =>
                /\ o \in WhiteList
                /\ who = IF o = "RefreshGroupQRCode" THEN "named" ELSE "nobody"
<1> DEFINE f == stack[j]
<1>1. FrameOK(f) /\ f \in FrameSet BY DEF PathInv, StackOK, FrameOK
<1>2. /\ o = f.op
      /\ who = IF NeedsUser(o) THEN f.user
               ELSE IF o \in OfNamedUser THEN "named" ELSE "nobody"
  BY DEF ActsFor
<1>3. NeedsUser(o) => f.user \in {"caller", "claimed"}
  <2>1. SUFFICES ASSUME NeedsUser(o), f.user = "none" PROVE FALSE
    BY <1>1 DEF FrameSet, CallUser
  <2>2. f.at = "handler" /\ \E k \in 1..Len(f.checks) : f.checks[k] = "user"
    BY <1>1, <1>2, <2>1 DEF FrameOK, Vetted
  <2>3. f.checks \in Seq({"user", "fields"}) BY <1>1 DEF FrameSet, CheckList
  <2>4. DOMAIN f.checks = 1..Len(f.checks) BY <2>3
  <2>5. PassesChecks(f) BY <2>2 DEF CanTakeEffect
  <2> HIDE DEF f
  <2> QED BY <2>1, <2>2, <2>4, <2>5 DEF PassesChecks
<1>4. Entitled(f.user) BY <1>1 DEF FrameOK
<1>5. token = "bad" => ~NeedsUser(o)
  BY <1>3, <1>4 DEF Entitled, PathInv, RequestOK
<1>6. token = "bad" => o \in WhiteList BY <1>2, BadToken
<1> HIDE DEF f
<1>7. o \in WhiteList => (o \in OfNamedUser <=> o = "RefreshGroupQRCode")
  BY DEF WhiteList, OfNamedUser
<1> QED BY <1>2, <1>3, <1>4, <1>5, <1>6, <1>7 DEF Entitled

\* For whom a call acts is a pair of an operation and somebody.
LEMMA ActsType ==
    ASSUME PathInv, NEW j \in 1..Len(stack)
    PROVE  ActsFor(stack[j]) \in Op \X Who
<1>1. stack[j] \in FrameSet BY DEF PathInv, StackOK, FrameOK
<1> QED BY <1>1 DEF FrameSet, ActsFor, Who, CallUser

\* A step that adds the acts of some calls which act as they may.
LEMMA MoreActs ==
    ASSUME PathInv, EffectInv, ActedInv, Admitted', UNCHANGED request,
           NEW J, J \subseteq 1..Len(stack),
           \A j \in J : stack[j].at # "handler" \/ CanTakeEffect(stack[j]),
           acted' = acted \cup {ActsFor(stack[j]) : j \in J}
    PROVE  ActedInv'
<1>1. acted' \subseteq Op \X Who BY ActsType DEF ActedInv
<1>2. ActsForCaller'
  <2>1. SUFFICES ASSUME NEW o \in Op, NEW who \in Who, <<o, who>> \in acted'
                 PROVE  /\ NeedsUser(o) => \/ who = "caller" /\ token = "valid"
                                           \/ who = "claimed" /\ entry = "service"
                        /\ token = "bad" =>
                             /\ o \in WhiteList
                             /\ who = IF o = "RefreshGroupQRCode" THEN "named" ELSE "nobody"
    BY DEF ActsForCaller
  <2>2. CASE <<o, who>> \in acted BY <2>2 DEF ActedInv, ActsForCaller
  <2>3. CASE \E j \in J : <<o, who>> = ActsFor(stack[j])
    BY <2>3, OneActs DEF ActedInv
  <2> QED BY <2>1, <2>2, <2>3
<1> QED BY <1>1, <1>2 DEF ActedInv

\* A step that does not act.
LEMMA NoActs ==
    ASSUME ActedInv, Admitted', UNCHANGED <<request, acted>>
    PROVE  ActedInv'
BY DEF ActedInv, ActsForCaller

\* Every step keeps ActedInv.
LEMMA ActedNext ==
    ASSUME PathInv, EffectInv, ActedInv, [RequestNext]_requestVars
    PROVE  ActedInv'
<1>1. UNCHANGED request /\ Admitted'
  <2>1. CASE Authenticate \/ ForwardHTTP \/ RateLimit
    BY <2>1 DEF Authenticate, ForwardHTTP, RateLimit, Answers, ActedInv, Admitted
  <2>2. CASE handleClientMessage \/ \E user \in {"claimed", "none"} : CallDirectly(user)
    BY <2>2 DEF handleClientMessage, CallDirectly, Admitted, PathInv, RequestOK
  <2>3. CASE MustGetUserID \/ RequireFields
    BY <2>3 DEF MustGetUserID, RequireFields, Passes, Ends, ActedInv, Admitted
  <2>4. CASE EnterService \/ CallService \/ TakesEffect
    BY <2>4 DEF EnterService, CallService, TakesEffect, ActedInv, Admitted
  <2>5. CASE \/ ServiceFinishes \/ PublishPanics
             \/ \E kind \in DOMAIN grpcCodeMapping \cup {"plain"} : ServiceFails(kind)
    BY <2>5 DEF ServiceFinishes, PublishPanics, ServiceFails, Ends, ActedInv, Admitted
  <2>6. CASE ReturnToService
    BY <2>6 DEF ReturnToService, Ends, ActedInv, Admitted
  <2>7. CASE ReturnToGateway \/ ReturnToSocket \/ ReturnToClient
    BY <2>7 DEF ReturnToGateway, ReturnToSocket, ReturnToClient, Admitted
  <2>8. CASE (\E i \in 1..3 : TimeOut(i)) \/ LateEffect \/ UNCHANGED requestVars
    BY <2>8 DEF TimeOut, LateEffect, ActedInv, Admitted
  <2> QED BY <2>1, <2>2, <2>3, <2>4, <2>5, <2>6, <2>7, <2>8 DEF RequestNext, Servers
<1>2. CASE TakesEffect
  <2>1. stack # <<>> /\ Top.at # "handler" BY <1>2 DEF TakesEffect, InService, Running
  <2>2. Len(stack) \in 1..Len(stack) /\ Top = stack[Len(stack)] BY <2>1, TopFacts
  <2> DEFINE J == {Len(stack)}
  <2>3. acted' = acted \cup {ActsFor(stack[j]) : j \in J}
    BY <1>2, <2>2 DEF TakesEffect
  <2>4. J \subseteq 1..Len(stack) /\ \A j \in J : stack[j].at # "handler"
    BY <2>1, <2>2
  <2> HIDE DEF J
  <2> QED BY <1>1, <2>3, <2>4, MoreActs
<1>3. CASE \E i \in 1..3 : TimeOut(i)
  <2>1. PICK i \in 1..3 : TimeOut(i) BY <1>3
  <2> DEFINE J == {k \in i..Len(stack) : CanTakeEffect(stack[k])}
  <2>2. acted' = acted \cup {ActsFor(stack[j]) : j \in J} BY <2>1 DEF TimeOut
  <2>3. stack \in Seq(FrameSet) BY DEF PathInv, StackOK
  <2>4. J \subseteq 1..Len(stack) BY <2>3
  <2>5. \A j \in J : CanTakeEffect(stack[j]) OBVIOUS
  <2> HIDE DEF J
  <2> QED BY <1>1, <2>2, <2>4, <2>5, MoreActs
<1>4. CASE ~TakesEffect /\ ~\E i \in 1..3 : TimeOut(i)
  <2>1. acted' = acted
    <3>1. CASE Authenticate \/ ForwardHTTP \/ RateLimit \/ handleClientMessage
               \/ \E user \in {"claimed", "none"} : CallDirectly(user)
      BY <3>1 DEF Authenticate, ForwardHTTP, RateLimit, handleClientMessage, CallDirectly
    <3>2. CASE MustGetUserID \/ RequireFields \/ EnterService \/ CallService
      BY <3>2 DEF MustGetUserID, RequireFields, Passes, EnterService, CallService
    <3>3. CASE \/ ServiceFinishes \/ PublishPanics \/ ReturnToService
               \/ \E kind \in DOMAIN grpcCodeMapping \cup {"plain"} : ServiceFails(kind)
      BY <3>3 DEF ServiceFinishes, PublishPanics, ReturnToService, ServiceFails
    <3>4. CASE ReturnToGateway \/ ReturnToSocket \/ ReturnToClient \/ LateEffect
      BY <3>4 DEF ReturnToGateway, ReturnToSocket, ReturnToClient, LateEffect
    <3>5. CASE UNCHANGED requestVars BY <3>5
    <3> QED BY <1>4, <3>1, <3>2, <3>3, <3>4, <3>5 DEF RequestNext, Servers
  <2> QED BY <1>1, <2>1, NoActs
<1> QED BY <1>2, <1>3, <1>4

\* The whole inductive invariant of a request.
RequestInv == PathInv /\ EffectInv /\ AnswerTellsEffect /\ ActedInv

\* Every step of a request keeps it.
LEMMA RequestNextInv == RequestInv /\ [RequestNext]_requestVars => RequestInv'
<1> SUFFICES ASSUME RequestInv, [RequestNext]_requestVars PROVE RequestInv'
  OBVIOUS
<1>0. PathInv /\ EffectInv /\ AnswerTellsEffect /\ ActedInv BY DEF RequestInv
<1> SUFFICES PathInv' /\ EffectInv' /\ AnswerTellsEffect'
  BY <1>0, ActedNext DEF RequestInv
<1>1. CASE \/ Authenticate \/ ForwardHTTP \/ RateLimit \/ handleClientMessage
           \/ \E user \in {"claimed", "none"} : CallDirectly(user)
  BY <1>0, <1>1, EntryInv, EntryEffect
<1>2. CASE \/ MustGetUserID \/ RequireFields \/ EnterService \/ CallService \/ TakesEffect
           \/ ServiceFinishes \/ PublishPanics
           \/ \E kind \in DOMAIN grpcCodeMapping \cup {"plain"} : ServiceFails(kind)
  BY <1>0, <1>2, ServiceInv, ServiceEffect
<1>3. CASE \/ ReturnToService \/ ReturnToGateway \/ ReturnToSocket \/ ReturnToClient
           \/ \E i \in 1..3 : TimeOut(i)
           \/ LateEffect
  BY <1>0, <1>3, ReturnInv, ReturnEffect
<1>4. CASE UNCHANGED requestVars
  <2>1. PathInv'
    <3>1. RequestOK' BY <1>0, <1>4 DEF PathInv, RequestOK
    <3>2. StackOK(stack', code') /\ UNCHANGED request BY <1>0, <1>4 DEF PathInv
    <3> QED BY <3>1, <3>2, Carried DEF PathInv
  <2>2. EffectInv' BY <1>0, <1>4 DEF EffectInv
  <2>3. AnswerTellsEffect' BY <1>0, <1>4 DEF AnswerTellsEffect
  <2> QED BY <2>1, <2>2, <2>3
<1> QED BY <1>1, <1>2, <1>3, <1>4 DEF RequestNext, Servers

\* The invariant of a request holds always.
LEMMA RequestInvCorrect == RequestSpec => []RequestInv
<1>1. RequestInit => ActedInv
  BY DEF RequestInit, ActedInv, Admitted, ActsForCaller
<1>2. RequestInit => RequestInv BY <1>1, RequestInitInv, EffectInit DEF RequestInv
<1> QED BY <1>2, RequestNextInv, PTL DEF RequestSpec

\* Every variable of RequestPath keeps its type; calls go three deep at most.
THEOREM RequestTypeCorrect == RequestSpec => []RequestTypeOK
<1>1. RequestInv => RequestTypeOK
  <2>1. SUFFICES ASSUME RequestInv PROVE RequestTypeOK
    OBVIOUS
  <2>2. RequestOK /\ StackOK(stack, code) BY <2>1 DEF RequestInv, PathInv
  <2>3. stack \in Seq(FrameSet) /\ Len(stack) \in Nat /\ DOMAIN stack = 1..Len(stack)
    BY <2>2 DEF StackOK
  <2>4. \A i \in 1..Len(stack) : stack[i] \in FrameSet BY <2>3
  <2>5. Len(stack) <= 3
    <3>1. SUFFICES ASSUME Len(stack) >= 4 PROVE FALSE BY <2>3
    <3>2. 1 \in 1..Len(stack) /\ 2 \in 1..Len(stack) /\ 3 \in 1..Len(stack) /\ 4 \in 1..Len(stack)
      BY <2>3, <3>1
    <3>3. /\ Depth(stack[4].op) < Depth(stack[3].op)
          /\ Depth(stack[3].op) < Depth(stack[2].op)
          /\ Depth(stack[2].op) < Depth(stack[1].op)
      BY <2>2, <3>2 DEF StackOK
    <3>4. \A o : Depth(o) \in 0..2 BY DepthFacts
    <3>5. /\ Depth(stack[1].op) \in 0..2 /\ Depth(stack[2].op) \in 0..2
          /\ Depth(stack[3].op) \in 0..2 /\ Depth(stack[4].op) \in 0..2
      BY <3>4
    <3> QED BY <3>3, <3>5
  <2>6. acted \subseteq Op \X Who BY <2>1 DEF RequestInv, ActedInv
  <2> QED BY <2>2, <2>3, <2>4, <2>5, <2>6 DEF RequestOK, RequestTypeOK, FrameSet
<1> QED BY <1>1, RequestInvCorrect, PTL

\* What takes effect for the user of the metadata does so for the one whose token
\* was checked, or on a direct call for the claimed one, however deep the calls go
\* and however late they end; with a bad token only whitelisted operations do
\* anything, RefreshGroupQRCode for the user its request names.
THEOREM ActsCorrect == RequestSpec => []ActsForCaller
<1>1. RequestInv => ActsForCaller BY DEF RequestInv, ActedInv
<1> QED BY <1>1, RequestInvCorrect, PTL

\* What the client is told is true of the operation: success means that it took
\* effect, a refusal that it did not and will not and that no server is to blame.
THEOREM AnswersCorrect == RequestSpec => []AnswerTellsEffect
<1>1. RequestInv => AnswerTellsEffect BY DEF RequestInv
<1> QED BY <1>1, RequestInvCorrect, PTL
=============================================================================
