-------------------------- MODULE UserSessionProofs --------------------------
(***************************************************************************)
(* For any number of devices, calls and errors: every session's device is  *)
(* listed in user_devices, a change of credentials leaves no session       *)
(* behind but those RevocationComplete names, and a login no device of the *)
(* same type but those KickComplete names.                                 *)
(***************************************************************************)
EXTENDS UserSession, TLAPS

\* Every step keeps the types.
LEMMA TypeStep == TypeOK /\ [Next]_vars => TypeOK'
<1> SUFFICES ASSUME TypeOK, [Next]_vars PROVE TypeOK'
  OBVIOUS
<1> USE SessionAssumption DEF TypeOK, PC, LoginPC, RevokePC, NoDevice, NoType, rows
<1>1. CASE UNCHANGED vars
  BY <1>1 DEF vars
<1>2. ASSUME NEW d \in Device, NEW k \in Type, Register(d, k) PROVE TypeOK'
  BY <1>2 DEF Register, local, Session
<1>3. ASSUME NEW c \in Call, NEW d \in Device, NEW k \in Type, Login(c, d, k) PROVE TypeOK'
  BY <1>3 DEF Login, Goto, account, Credentials
<1>4. ASSUME NEW c \in Call, NEW D \in SUBSET Device, Delete(c, D)
      PROVE /\ sessions' \subseteq Session
            /\ errors' \in 0..MaxErrors
            /\ spared' \subseteq Device
  BY <1>4 DEF Delete, DeleteSessionsOf, Works, Fails
<1>5. ASSUME NEW c \in Call, NEW d \in Device, Logout(c, d) PROVE TypeOK'
  BY <1>5, <1>4 DEF Logout, Goto, account, local
<1>6. ASSUME NEW c \in Call, NEW s \in sessions, Refresh(c, s) PROVE TypeOK'
  BY <1>6 DEF Refresh, Goto, account, Session
<1>7. ASSUME NEW c \in Call, RefreshSave(c) PROVE TypeOK'
  BY <1>7 DEF RefreshSave, Save, Goto, account, local, Session
<1>8. ASSUME NEW c \in Call, RefreshFails(c) PROVE TypeOK'
  BY <1>8 DEF RefreshFails, Fails, Goto, account, local
<1>9. ASSUME NEW c \in Call, NEW d \in Device \cup {NoDevice},
             ChangePassword(c, d) \/ ChangeContact(c, d)
      PROVE TypeOK'
  BY <1>9 DEF ChangePassword, ChangeContact, Goto, account
<1>10. ASSUME NEW c \in Call, ResetPassword(c) PROVE TypeOK'
  BY <1>10 DEF ResetPassword, Goto, account, local
<1>11. ASSUME NEW c \in Call, LoginStep(c) PROVE TypeOK'
  <2>1. CASE KickList(c)
    BY <2>1 DEF KickList, RowsOfType, InFlightAs, Writers, Works, Fails, Goto, account
  <2>2. ASSUME NEW e \in Device, Kick(c, e) PROVE TypeOK'
    BY <2>2, <1>4 DEF Kick, account
  <2>3. CASE KickEnds(c)
    BY <2>3 DEF KickEnds, Goto, account, local
  <2>4. CASE LoginDevice(c)
    BY <2>4 DEF LoginDevice, Goto, account, local
  <2>5. CASE LoginCreate(c)
    BY <2>5 DEF LoginCreate, Goto, account, local
  <2>6. CASE LoginFind(c)
    BY <2>6 DEF LoginFind, Goto, account
  <2>7. CASE LoginSave(c)
    BY <2>7 DEF LoginSave, NewSession, Save, Goto, account, local, Session
  <2>8. CASE LoginFails(c)
    BY <2>8 DEF LoginFails, Fails, account, local
  <2>9. QED
    BY <1>11, <2>1, <2>2, <2>3, <2>4, <2>5, <2>6, <2>7, <2>8 DEF LoginStep
<1>12. ASSUME NEW c \in Call, RevokeStep(c) PROVE TypeOK'
  <2>1. InFlight(c) \subseteq Device
    BY DEF InFlight, Writers
  <2>2. CASE UpdatePassword(c)
    BY <2>2, <2>1 DEF UpdatePassword, Changed, Goto, local
  <2>3. CASE UpdateContact(c)
    BY <2>3, <2>1 DEF UpdateContact, Changed, Goto, local
  <2>4. CASE ResetCommit(c)
    BY <2>4, <2>1 DEF ResetCommit, Goto, local
  <2>5. CASE UpdateFails(c)
    BY <2>5 DEF UpdateFails, Fails, account, local
  <2>6. CASE RevokeList(c)
    BY <2>6 DEF RevokeList, Goto, account
  <2>7. CASE RevokeListFails(c)
    BY <2>7 DEF RevokeListFails, Fails, Goto, account, local
  <2>8. CASE RevokeEnds(c)
    BY <2>8 DEF RevokeEnds, Goto, account, local
  <2>9. CASE RevokeOthers(c)
    BY <2>9, <1>4 DEF RevokeOthers, Goto, account, local
  <2>10. ASSUME NEW e \in Device, Revoke(c, e) PROVE TypeOK'
    BY <2>10, <1>4 DEF Revoke, account
  <2>11. QED
    BY <1>12, <2>2, <2>3, <2>4, <2>5, <2>6, <2>7, <2>8, <2>9, <2>10
       DEF RevokeStep
<1>13. QED
  BY <1>1, <1>2, <1>3, <1>5, <1>6, <1>7, <1>8, <1>9, <1>10, <1>11, <1>12
     DEF Next

\* The types hold in the beginning.
LEMMA TypeInit == Init => TypeOK
<1> SUFFICES ASSUME Init PROVE TypeOK
  OBVIOUS
<1>1. row \in [Call -> SUBSET Session] /\ todo \in [Call -> SUBSET Device]
  BY DEF Init
<1>2. pc \in [Call -> PC] /\ \A c \in Call : pc[c] = "idle"
  BY DEF Init, PC
<1>3. /\ dev \in [Call -> Device \cup {NoDevice}] /\ since \in [Call -> Nat]
      /\ type \in [Call -> Type \cup {NoType}] /\ typeOf \in [Device -> Type \cup {NoType}]
  BY DEF Init
<1>4. errors \in 0..MaxErrors /\ password \in Nat /\ contact \in Nat
  BY SessionAssumption DEF Init
<1>5. /\ registered \in BOOLEAN
      /\ devices \subseteq Device /\ sessions \subseteq Session
      /\ spared \subseteq Device
  BY DEF Init
<1>6. \A c \in Call : pc[c] \notin LoginPC \cup {"refresh"}
  BY <1>2 DEF LoginPC
<1>7. QED
  BY <1>1, <1>2, <1>3, <1>4, <1>5, <1>6 DEF TypeOK

\* Every variable keeps its type, and a call that will write a session knows
\* the device it is for.
THEOREM TypeCorrect == Spec => []TypeOK
  BY TypeInit, TypeStep, PTL DEF Spec
-----------------------------------------------------------------------------
\* What keeps SessionHasDevice: a row in a call's hands is of a known device,
\* and Login looks for a session only after it has recorded its device.
DeviceInv ==
    /\ SessionHasDevice
    /\ \A c \in Call : \A s \in row[c] : s.device \in devices
    /\ \A c \in Call : pc[c] \in {"find", "save"} => dev[c] \in devices
    /\ \A c \in Call : pc[c] = "refresh" =>
          dev[c] \in devices /\ \A s \in row[c] : s.device = dev[c] /\ s.type = type[c]
    /\ \A c \in Call : pc[c] # "idle" => registered
    /\ ~registered => devices = {}

\* Every step keeps DeviceInv.
LEMMA DeviceStep == TypeOK /\ DeviceInv /\ [Next]_vars => DeviceInv'
<1> SUFFICES ASSUME TypeOK, DeviceInv, [Next]_vars PROVE DeviceInv'
  OBVIOUS
<1> USE DEF TypeOK, DeviceInv, SessionHasDevice, rows
<1>1. CASE UNCHANGED vars
  BY <1>1 DEF vars
<1>2. ASSUME NEW d \in Device, NEW k \in Type, Register(d, k) PROVE DeviceInv'
  BY <1>2 DEF Register, local
<1>3. ASSUME NEW c \in Call, NEW d \in Device, NEW k \in Type, Login(c, d, k) PROVE DeviceInv'
  BY <1>3 DEF Login, Goto, account
<1>4. ASSUME NEW c \in Call, NEW D, Delete(c, D) PROVE sessions' \subseteq sessions
  BY <1>4 DEF Delete, DeleteSessionsOf
<1>5. ASSUME NEW c \in Call, NEW d \in Device, Logout(c, d) PROVE DeviceInv'
  BY <1>5, <1>4 DEF Logout, Goto, account, local
<1>6. ASSUME NEW c \in Call, NEW s \in sessions, Refresh(c, s) PROVE DeviceInv'
  BY <1>6 DEF Refresh, Goto, account
<1>7. ASSUME NEW c \in Call, RefreshSave(c) PROVE DeviceInv'
  BY <1>7 DEF RefreshSave, Save, Goto, account, local, Session
<1>8. ASSUME NEW c \in Call, RefreshFails(c) PROVE DeviceInv'
  BY <1>8 DEF RefreshFails, Goto, account, local
<1>9. ASSUME NEW c \in Call, NEW d \in Device \cup {NoDevice},
             ChangePassword(c, d) \/ ChangeContact(c, d)
      PROVE DeviceInv'
  BY <1>9 DEF ChangePassword, ChangeContact, Goto, account
<1>10. ASSUME NEW c \in Call, ResetPassword(c) PROVE DeviceInv'
  BY <1>10 DEF ResetPassword, Goto, account, local
<1>11. ASSUME NEW c \in Call, LoginStep(c) PROVE DeviceInv'
  <2>1. CASE KickList(c)
    BY <2>1 DEF KickList, Goto, account
  <2>2. ASSUME NEW e \in Device, Kick(c, e) PROVE DeviceInv'
    BY <2>2, <1>4 DEF Kick, account
  <2>3. CASE KickEnds(c)
    BY <2>3 DEF KickEnds, Goto, account, local
  <2>4. CASE LoginDevice(c)
    BY <2>4 DEF LoginDevice, Goto, account, local
  <2>5. CASE LoginCreate(c)
    BY <2>5 DEF LoginCreate, Goto, account, local
  <2>6. CASE LoginFind(c)
    BY <2>6 DEF LoginFind, Goto, account
  <2>7. CASE LoginSave(c)
    BY <2>7 DEF LoginSave, NewSession, Save, Goto, account, local, Session
  <2>8. CASE LoginFails(c)
    BY <2>8 DEF LoginFails, account, local
  <2>9. QED
    BY <1>11, <2>1, <2>2, <2>3, <2>4, <2>5, <2>6, <2>7, <2>8 DEF LoginStep
<1>12. ASSUME NEW c \in Call, RevokeStep(c) PROVE DeviceInv'
  <2>1. CASE UpdatePassword(c) \/ UpdateContact(c)
    BY <2>1 DEF UpdatePassword, UpdateContact, Goto, local
  <2>2. CASE ResetCommit(c)
    BY <2>2 DEF ResetCommit, Goto, local
  <2>3. CASE UpdateFails(c)
    BY <2>3 DEF UpdateFails, account, local
  <2>4. CASE RevokeList(c)
    BY <2>4 DEF RevokeList, Goto, account
  <2>5. CASE RevokeListFails(c) \/ RevokeEnds(c)
    BY <2>5 DEF RevokeListFails, RevokeEnds, Goto, account, local
  <2>6. CASE RevokeOthers(c)
    BY <2>6, <1>4 DEF RevokeOthers, Goto, account, local
  <2>7. ASSUME NEW e \in Device, Revoke(c, e) PROVE DeviceInv'
    BY <2>7, <1>4 DEF Revoke, account
  <2>8. QED
    BY <1>12, <2>1, <2>2, <2>3, <2>4, <2>5, <2>6, <2>7 DEF RevokeStep
<1>13. QED
  BY <1>1, <1>2, <1>3, <1>5, <1>6, <1>7, <1>8, <1>9, <1>10, <1>11, <1>12
     DEF Next

\* DeviceInv holds in the beginning.
LEMMA DeviceInit == Init => DeviceInv
  BY DEF Init, DeviceInv, SessionHasDevice

\* However calls overlap and fail, every session's device has a row in
\* user_devices, where the forced logouts look for it.
THEOREM DevicesKnown == Spec => []SessionHasDevice
<1>1. DeviceInv => SessionHasDevice
  BY DEF DeviceInv
<1>2. QED
  BY <1>1, DeviceInit, DeviceStep, TypeCorrect, PTL DEF Spec
-----------------------------------------------------------------------------
\* Some call has changed the credentials and will delete the sessions of e.
Pending(e) ==
    \E c \in Call :
        \/ pc[c] \in {"list", "revokeOthers"} /\ dev[c] # e
        \/ pc[c] = "revoke" /\ e \in todo[c]

\* What keeps RevocationComplete: an old session, and an old row that a refresh
\* is about to save, is spared or still to be deleted; a login that checked old
\* credentials is on a spared device and does not kick itself.
RevokeInv ==
    /\ \A s \in sessions : s.since < Credentials =>
          s.device \in spared \/ Pending(s.device)
    /\ \A c \in Call : pc[c] = "refresh" => \A s \in row[c] :
          s.since < Credentials => s.device \in spared \/ Pending(s.device)
    /\ \A c \in Call : pc[c] \in LoginPC /\ since[c] < Credentials =>
          dev[c] \in spared
    /\ \A c \in Call : pc[c] = "kick" => dev[c] \notin todo[c]
    /\ \A c \in Call : pc[c] \in {"idle", "kickList"} => todo[c] = {}
    /\ ~registered => Credentials = 0

IInv == TypeOK /\ DeviceInv /\ RevokeInv

\* A step of call c that neither deletes nor changes anything for the others.
LEMMA PendingKept ==
    ASSUME TypeOK, NEW c \in Call, NEW e,
           \A d \in Call \ {c} : pc'[d] = pc[d] /\ dev'[d] = dev[d] /\ todo'[d] = todo[d],
           pc[c] \notin RevokePC, Pending(e)
    PROVE  Pending(e)'
  BY DEF Pending, RevokePC

\* A deletion by c keeps the devices of the other calls that will write.
LEMMA DeleteKeeps ==
    ASSUME TypeOK, NEW c \in Call, NEW D \in SUBSET Device, Delete(c, D)
    PROVE  /\ sessions' \subseteq sessions
           /\ \A e \in spared \ D : e \in spared'
           /\ \A d \in Call \ {c} : pc[d] \in LoginPC \cup {"refresh"} /\ dev[d] \in D
                 => dev[d] \in spared'
           /\ \A s \in sessions' : s.device \in D => s.device \in spared'
<1>1. CASE Works /\ DeleteSessionsOf(D) /\ spared' = (spared \ D) \cup (D \cap InFlight(c))
  BY <1>1 DEF DeleteSessionsOf, InFlight, Writers
<1>2. CASE spared' = spared \cup D /\ UNCHANGED sessions
  BY <1>2
<1>3. QED
  BY <1>1, <1>2 DEF Delete

\* Every step keeps RevokeInv.
LEMMA RevokeStepInv == IInv /\ [Next]_vars => RevokeInv'
<1> SUFFICES ASSUME IInv, [Next]_vars PROVE RevokeInv'
  OBVIOUS
<1> USE DEF IInv, TypeOK, RevokeInv, Credentials, rows
<1>0. TypeOK
  BY DEF IInv
<1>1. CASE UNCHANGED vars
  BY <1>1 DEF vars, Pending
<1>2. ASSUME NEW d \in Device, NEW k \in Type, Register(d, k) PROVE RevokeInv'
  BY <1>2 DEF Register, local, Pending, DeviceInv, LoginPC, Session
<1>3. ASSUME NEW c \in Call, NEW d \in Device, NEW k \in Type, Login(c, d, k) PROVE RevokeInv'
  <2>1. \A e : Pending(e) => Pending(e)'
    BY <1>0, <1>3, PendingKept DEF Login, Goto, RevokePC
  <2>2. QED
    BY <1>3, <2>1 DEF Login, Goto, account, LoginPC
<1>5. ASSUME NEW c \in Call, NEW d \in Device, Logout(c, d) PROVE RevokeInv'
  <2>1. \A e : Pending(e) => Pending(e)'
    BY <1>0, <1>5, PendingKept DEF Logout, Goto, RevokePC, local
  <2>2. Delete(c, {d}) /\ {d} \in SUBSET Device
    BY <1>5 DEF Logout
  <2>3. QED
    BY <1>0, <1>5, <2>1, <2>2, DeleteKeeps
       DEF Logout, Goto, account, local, LoginPC, DeviceInv
<1>6. ASSUME NEW c \in Call, NEW s \in sessions, Refresh(c, s) PROVE RevokeInv'
  <2>1. \A e : Pending(e) => Pending(e)'
    BY <1>0, <1>6, PendingKept DEF Refresh, Goto, RevokePC
  <2>2. QED
    BY <1>6, <2>1 DEF Refresh, Goto, account, LoginPC
<1>7. ASSUME NEW c \in Call, RefreshSave(c) PROVE RevokeInv'
  <2>1. \A e : Pending(e) => Pending(e)'
    BY <1>0, <1>7, PendingKept DEF RefreshSave, Goto, RevokePC, local
  <2>2. PICK s \in row[c] : Save([s EXCEPT !.token = c])
    BY <1>7 DEF RefreshSave
  <2>3. /\ s \in Session
        /\ s.since < Credentials => s.device \in spared \/ Pending(s.device)
    BY <1>7, <2>2 DEF RefreshSave, Goto
  <2>4. \A t \in sessions' : t \in sessions
            \/ (t.since = s.since /\ t.device = s.device)
    <3>1. sessions' \subseteq sessions \cup {[s EXCEPT !.token = c]}
      BY <2>2 DEF Save
    <3>2. [s EXCEPT !.token = c].since = s.since
          /\ [s EXCEPT !.token = c].device = s.device
      BY <2>3 DEF Session
    <3>3. QED
      BY <3>1, <3>2
  <2>5. QED
    BY <1>7, <2>1, <2>3, <2>4 DEF RefreshSave, Goto, account, local, LoginPC
<1>8. ASSUME NEW c \in Call, RefreshFails(c) PROVE RevokeInv'
  <2>1. \A e : Pending(e) => Pending(e)'
    BY <1>0, <1>8, PendingKept DEF RefreshFails, Goto, RevokePC, local
  <2>2. QED
    BY <1>8, <2>1 DEF RefreshFails, Goto, account, local, LoginPC
<1>9. ASSUME NEW c \in Call, NEW d \in Device \cup {NoDevice},
             ChangePassword(c, d) \/ ChangeContact(c, d)
      PROVE RevokeInv'
  <2>1. \A e : Pending(e) => Pending(e)'
    BY <1>0, <1>9, PendingKept DEF ChangePassword, ChangeContact, Goto, RevokePC
  <2>2. QED
    BY <1>9, <2>1 DEF ChangePassword, ChangeContact, Goto, account, LoginPC
<1>10. ASSUME NEW c \in Call, ResetPassword(c) PROVE RevokeInv'
  <2>1. \A e : Pending(e) => Pending(e)'
    BY <1>0, <1>10, PendingKept DEF ResetPassword, Goto, RevokePC, local
  <2>2. QED
    BY <1>10, <2>1 DEF ResetPassword, Goto, account, local, LoginPC
<1>11. ASSUME NEW c \in Call, LoginStep(c) PROVE RevokeInv'
  <2>0. \A e : Pending(e) => Pending(e)'
    <3>1. pc[c] \notin RevokePC
      BY <1>11 DEF LoginStep, KickList, Kick, KickEnds, LoginDevice, LoginCreate,
                   LoginFind, LoginSave, LoginFails, Goto, RevokePC
    <3>2. \A d \in Call \ {c} :
              pc'[d] = pc[d] /\ dev'[d] = dev[d] /\ todo'[d] = todo[d]
      BY <1>11 DEF LoginStep, KickList, Kick, KickEnds, LoginDevice, LoginCreate,
                   LoginFind, LoginSave, LoginFails, Goto, local
    <3>3. QED
      BY <1>0, <3>1, <3>2, PendingKept
  <2>1. CASE KickList(c)
    BY <2>1, <2>0 DEF KickList, Goto, account, LoginPC
  <2>2. ASSUME NEW e \in Device, Kick(c, e) PROVE RevokeInv'
    <3>1. Delete(c, {e}) /\ {e} \in SUBSET Device /\ e # dev[c]
      BY <2>2 DEF Kick
    <3>2. QED
      BY <1>0, <2>2, <2>0, <3>1, DeleteKeeps DEF Kick, account, LoginPC, DeviceInv
  <2>3. CASE KickEnds(c)
    BY <2>3, <2>0 DEF KickEnds, Goto, account, local, LoginPC
  <2>4. CASE LoginDevice(c)
    BY <2>4, <2>0 DEF LoginDevice, Goto, account, local, LoginPC
  <2>5. CASE LoginCreate(c)
    BY <2>5, <2>0 DEF LoginCreate, Goto, account, local, LoginPC
  <2>6. CASE LoginFind(c)
    BY <2>6, <2>0 DEF LoginFind, Goto, account, LoginPC
  <2>7. CASE LoginSave(c)
    <3>1. \A t \in sessions' : t \in sessions
              \/ (t.since = since[c] /\ t.device = dev[c])
      <4>1. CASE row[c] = {}
        BY <2>7, <4>1 DEF LoginSave, NewSession
      <4>2. CASE row[c] # {}
        <5>1. PICK s \in row[c] : Save([NewSession(c) EXCEPT !.id = s.id])
          BY <2>7, <4>2 DEF LoginSave
        <5>2. sessions' \subseteq sessions \cup {[NewSession(c) EXCEPT !.id = s.id]}
          BY <5>1 DEF Save
        <5>3. [NewSession(c) EXCEPT !.id = s.id].since = since[c]
              /\ [NewSession(c) EXCEPT !.id = s.id].device = dev[c]
          BY DEF NewSession
        <5>4. QED
          BY <5>2, <5>3
      <4>3. QED
        BY <4>1, <4>2
    <3>2. since[c] < Credentials => dev[c] \in spared
      BY <2>7 DEF LoginSave, Goto, LoginPC
    <3>3. QED
      BY <2>7, <2>0, <3>1, <3>2 DEF LoginSave, Goto, account, local, LoginPC
  <2>8. CASE LoginFails(c)
    BY <2>8, <2>0 DEF LoginFails, account, local, LoginPC
  <2>9. QED
    BY <1>11, <2>1, <2>2, <2>3, <2>4, <2>5, <2>6, <2>7, <2>8 DEF LoginStep
<1>12. ASSUME NEW c \in Call, RevokeStep(c) PROVE RevokeInv'
  <2>1. \A d \in Call \ {c} : pc[d] \in LoginPC \cup {"refresh"} => dev[d] \in InFlight(c)
    BY DEF InFlight, Writers
  <2>2. CASE UpdatePassword(c) \/ UpdateContact(c)
    <3>1. /\ pc' = [pc EXCEPT ![c] = pc'[c]] /\ pc'[c] \in {"list", "revokeOthers"}
          /\ UNCHANGED <<local, sessions>>
          /\ spared' = spared \cup ({dev[c]} \ {NoDevice}) \cup InFlight(c)
      BY <2>2 DEF UpdatePassword, UpdateContact, Changed, Goto
    <3>2. \A e \in Device : e \in spared' \/ Pending(e)'
      BY <3>1, DeviceAssumption DEF Pending, local
    <3>3. \A t \in Session : t.device \in Device
      BY DEF Session
    <3>4. UNCHANGED registered /\ registered
      BY <2>2 DEF UpdatePassword, UpdateContact, Goto, DeviceInv
    <3>5. QED
      BY <2>1, <3>1, <3>2, <3>3, <3>4 DEF local, LoginPC
  <2>3. CASE ResetCommit(c)
    <3>1. pc[c] # "refresh" /\ pc[c] \notin LoginPC
      BY <2>3 DEF ResetCommit, Goto, LoginPC
    <3>2. \A d \in Call : pc[d] \in LoginPC \cup {"refresh"} => dev[d] \in spared'
      BY <2>1, <2>3, <3>1 DEF ResetCommit
    <3>3. QED
      BY <2>3, <3>2 DEF ResetCommit, Goto, local, DeviceInv, LoginPC
  <2>4. CASE UpdateFails(c)
    <3>1. \A e : Pending(e) => Pending(e)'
      BY <1>0, <2>4, PendingKept DEF UpdateFails, RevokePC, local
    <3>2. QED
      BY <2>4, <3>1 DEF UpdateFails, account, local, LoginPC
  <2>5. CASE RevokeList(c)
    <3>1. \A e \in devices : Pending(e) => Pending(e)'
      BY <2>5 DEF RevokeList, Goto, Pending
    <3>2. QED
      BY <2>5, <3>1 DEF RevokeList, Goto, account, LoginPC, DeviceInv, SessionHasDevice
  <2>6. CASE RevokeListFails(c)
    <3>1. \A t \in Session : t.device \in Device
      BY DEF Session
    <3>2. QED
      BY <2>6, <3>1 DEF RevokeListFails, Goto, account, local, LoginPC
  <2>7. CASE RevokeEnds(c)
    <3>1. \A e : Pending(e) => Pending(e)'
      BY <2>7 DEF RevokeEnds, Goto, local, Pending
    <3>2. QED
      BY <2>7, <3>1 DEF RevokeEnds, Goto, account, local, LoginPC
  <2>8. CASE RevokeOthers(c)
    <3> DEFINE D == Device \ {dev[c]}
    <3>1. Delete(c, D) /\ D \in SUBSET Device
      BY <2>8 DEF RevokeOthers
    <3>2. \A e : Pending(e) /\ e \notin D /\ e \in Device => Pending(e)'
      BY <2>8 DEF RevokeOthers, Goto, local, Pending
    <3>3. \A t \in Session : t.device \in Device
      BY DEF Session
    <3> HIDE DEF D
    <3>4. QED
      BY <1>0, <2>8, <3>1, <3>2, <3>3, DeleteKeeps
         DEF RevokeOthers, Goto, account, local, LoginPC, DeviceInv
  <2>9. ASSUME NEW e \in Device, Revoke(c, e) PROVE RevokeInv'
    <3>1. Delete(c, {e}) /\ {e} \in SUBSET Device
      BY <2>9 DEF Revoke
    <3>2. \A f : Pending(f) /\ f # e => Pending(f)'
      BY <2>9 DEF Revoke, Pending
    <3>3. QED
      BY <1>0, <2>9, <3>1, <3>2, DeleteKeeps DEF Revoke, account, LoginPC, DeviceInv
  <2>10. QED
    BY <1>12, <2>2, <2>3, <2>4, <2>5, <2>6, <2>7, <2>8, <2>9 DEF RevokeStep
<1>13. QED
  BY <1>1, <1>2, <1>3, <1>5, <1>6, <1>7, <1>8, <1>9, <1>10, <1>11, <1>12
     DEF Next

\* RevokeInv holds in the beginning.
LEMMA RevokeInit == Init => RevokeInv
  BY DEF Init, RevokeInv, LoginPC, Credentials

\* The invariant of the sessions holds always.
LEMMA IInvCorrect == Spec => []IInv
<1>1. Init => IInv
  BY TypeInit, DeviceInit, RevokeInit DEF IInv
<1>2. IInv /\ [Next]_vars => IInv'
  BY TypeStep, DeviceStep, RevokeStepInv DEF IInv
<1>3. QED
  BY <1>1, <1>2, PTL DEF Spec

\* For any number of devices and overlapping calls, a session from before a
\* change of password or contact is left only on the device that made it, or
\* where a deletion failed or overlapped a login or refresh of the device.
THEOREM RevocationCorrect == Spec => []RevocationComplete
<1>1. IInv => RevocationComplete
  BY DEF IInv, RevokeInv, RevocationComplete, Pending, RevokePC
<1>2. QED
  BY <1>1, IInvCorrect, PTL
-----------------------------------------------------------------------------
\* Call c will write a session and looks for devices to kick no more.
Writer(c) == pc[c] \in (LoginPC \ {"kickList"}) \cup {"refresh"}

\* Call c will write a session of device e under type k, the type of e's row if it
\* has one.
WritesAs(c, e, k) ==
    /\ Writer(c) /\ dev[c] = e /\ type[c] = k
    /\ e \in devices => typeOf[e] = k

\* Device e has a session under the type k of its row, or is about to have one.
Present(e, k) ==
    \/ \E s \in sessions : s.device = e /\ OfType(s, k)
    \/ \E c \in Call : WritesAs(c, e, k)

\* A login of d is still to delete the sessions of e.
Kicking(d, e) == \E c \in Call : pc[c] = "kick" /\ dev[c] = d /\ e \in todo[c]

\* What keeps KickComplete: of two devices of one type that have sessions, or are
\* about to have them, one is spared or about to be kicked by the other's login.
KickInv ==
    \A d, e \in Device, k \in Type :
        d # e /\ Present(d, k) /\ Present(e, k) =>
            d \in spared \/ e \in spared \/ Kicking(d, e) \/ Kicking(e, d)

\* A step that brings no session near and forgets no kick.
LEMMA KickKept ==
    ASSUME KickInv, spared \subseteq spared',
           \A e \in Device, k \in Type : Present(e, k)' => Present(e, k),
           \A d, e \in Device : Kicking(d, e) => Kicking(d, e)'
    PROVE  KickInv'
  BY DEF KickInv

\* A step of call c that writes no session, starts no refresh and lists nothing.
LEMMA PresentKept ==
    ASSUME NEW c \in Call, sessions' \subseteq sessions, UNCHANGED rows,
           \A x \in Call \ {c} : pc'[x] = pc[x] /\ dev'[x] = dev[x] /\ type'[x] = type[x],
           Writer(c)' => Writer(c) /\ dev'[c] = dev[c] /\ type'[c] = type[c]
    PROVE  \A e \in Device, k \in Type : Present(e, k)' => Present(e, k)
<1>1. \A x \in Call : Writer(x)' => Writer(x) /\ dev'[x] = dev[x] /\ type'[x] = type[x]
  BY DEF Writer
<1>2. \A x \in Call, e \in Device, k \in Type : WritesAs(x, e, k)' => WritesAs(x, e, k)
  BY <1>1 DEF WritesAs, rows
<1>3. \A s \in sessions', k \in Type : OfType(s, k)' => OfType(s, k)
  BY DEF OfType, rows
<1> QED BY <1>2, <1>3 DEF Present

\* A step of call c that is not kicking, or keeps its list.
LEMMA KickingKept ==
    ASSUME NEW c \in Call,
           \A x \in Call \ {c} : pc'[x] = pc[x] /\ dev'[x] = dev[x] /\ todo'[x] = todo[x],
           pc[c] # "kick" \/ todo[c] = {}
    PROVE  \A d, e \in Device : Kicking(d, e) => Kicking(d, e)'
BY DEF Kicking

\* A deletion of the sessions of D: those of D that remain or are about to be
\* written again are spared.
LEMMA KickDelete ==
    ASSUME TypeOK, KickInv, NEW c \in Call, NEW D \in SUBSET Device, Delete(c, D),
           UNCHANGED <<rows, type>>,
           \A x \in Call \ {c} : pc'[x] = pc[x] /\ dev'[x] = dev[x],
           Writer(c)' => Writer(c) /\ dev'[c] = dev[c] /\ dev[c] \notin D,
           \A d, e \in Device : Kicking(d, e) /\ e \notin D => Kicking(d, e)'
    PROVE  KickInv'
<1>1. /\ sessions' \subseteq sessions
      /\ \A e \in spared \ D : e \in spared'
      /\ \A d \in Call \ {c} : pc[d] \in LoginPC \cup {"refresh"} /\ dev[d] \in D
            => dev[d] \in spared'
      /\ \A s \in sessions' : s.device \in D => s.device \in spared'
  BY DeleteKeeps
<1>2. \A x \in Call : Writer(x)' => Writer(x) /\ dev'[x] = dev[x] /\ (dev[x] \in D => x # c)
  BY DEF Writer
<1>3. \A e \in D, k \in Type : Present(e, k)' => e \in spared'
  BY <1>1, <1>2 DEF Present, WritesAs, Writer
<1>4. \A e \in Device, k \in Type : Present(e, k)' => Present(e, k)
  BY <1>1, <1>2, PresentKept
<1> QED BY <1>1, <1>3, <1>4 DEF KickInv

\* KickList: another device of the type is listed, or is about to write, or the
\* list cannot be read.
LEMMA KickListInv ==
    ASSUME IInv, KickInv, NEW c \in Call, KickList(c)
    PROVE  KickInv'
<1>1. /\ pc[c] = "kickList" /\ pc' = [pc EXCEPT ![c] = "kick"] /\ dev[c] \in Device
      /\ UNCHANGED <<sessions, devices, typeOf, dev, type>> /\ TypeOK /\ DeviceInv
      /\ pc'[c] = "kick" /\ \A x \in Call \ {c} : pc'[x] = pc[x]
  BY DEF KickList, Goto, IInv, TypeOK, LoginPC, rows
<1>2. /\ spared \subseteq spared'
      /\ \A x \in Call \ {c} : todo'[x] = todo[x]
  BY <1>1 DEF KickList, TypeOK
<1>3. \A d, e \in Device : Kicking(d, e) => Kicking(d, e)'
  BY <1>1, <1>2, KickingKept
<1>4. \A e \in Device, k \in Type :
          Present(e, k)' => Present(e, k) \/ (e = dev[c] /\ k = type[c])
  BY <1>1 DEF Present, WritesAs, OfType, Writer
<1>5. ASSUME NEW e \in Device, e # dev[c], Present(e, type[c])
      PROVE  e \in spared' \/ Kicking(dev[c], e)'
  <2>1. InFlightAs(c, type[c]) \subseteq spared'
    BY DEF KickList
  <2>2. CASE \E s \in sessions : s.device = e /\ OfType(s, type[c])
    <3>1. e \in RowsOfType(type[c])
      BY <1>1, <2>2 DEF DeviceInv, SessionHasDevice, OfType, RowsOfType
    <3>2. CASE RowsOfType(type[c]) \subseteq spared'
      BY <3>1, <3>2
    <3>3. CASE todo' = [todo EXCEPT ![c] = RowsOfType(type[c]) \ {dev[c]}]
      <4>1. e \in todo'[c]
        BY <1>1, <1>5, <3>1, <3>3 DEF TypeOK
      <4> QED BY <1>1, <4>1 DEF Kicking
    <3> QED BY <3>2, <3>3 DEF KickList
  <2>3. CASE \E x \in Call : WritesAs(x, e, type[c])
    <3>1. PICK x \in Call : WritesAs(x, e, type[c])
      BY <2>3
    <3>2. x \in Writers(c) /\ type[x] = type[c] /\ dev[x] = e
      BY <1>5, <3>1 DEF WritesAs, Writer, Writers
    <3>3. e \in InFlightAs(c, type[c])
      BY <3>2 DEF InFlightAs
    <3> QED BY <2>1, <3>3
  <2> QED BY <1>5, <2>2, <2>3 DEF Present
<1> SUFFICES ASSUME NEW d \in Device, NEW e \in Device, NEW k \in Type, d # e,
                    Present(d, k)', Present(e, k)'
             PROVE  d \in spared' \/ e \in spared' \/ Kicking(d, e)' \/ Kicking(e, d)'
  BY DEF KickInv
<1>6. CASE d = dev[c] /\ k = type[c]
  <2>1. Present(e, type[c])
    BY <1>4, <1>6
  <2>2. e \in spared' \/ Kicking(dev[c], e)'
    BY <1>5, <1>6, <2>1
  <2>3. Kicking(dev[c], e)' => Kicking(d, e)'
    BY <1>1, <1>6 DEF Kicking
  <2> QED BY <2>2, <2>3
<1>7. CASE e = dev[c] /\ k = type[c]
  <2>1. Present(d, type[c])
    BY <1>4, <1>7
  <2>2. d \in spared' \/ Kicking(dev[c], d)'
    BY <1>5, <1>7, <2>1
  <2>3. Kicking(dev[c], d)' => Kicking(e, d)'
    BY <1>1, <1>7 DEF Kicking
  <2> QED BY <2>2, <2>3
<1>8. CASE ~(d = dev[c] /\ k = type[c]) /\ ~(e = dev[c] /\ k = type[c])
  <2>1. Present(d, k) /\ Present(e, k)
    BY <1>4, <1>8
  <2> QED BY <1>2, <1>3, <2>1 DEF KickInv
<1> QED BY <1>6, <1>7, <1>8

\* LoginCreate: the new row has the type of the call that makes it, and the device
\* had no session before.
LEMMA CreatePresent ==
    ASSUME IInv, NEW c \in Call, LoginCreate(c)
    PROVE  \A e \in Device, k \in Type : Present(e, k)' => Present(e, k)
<1>1. /\ UNCHANGED <<sessions, dev, type>> /\ Writer(c) /\ TypeOK
      /\ \A s \in sessions : s.device \in devices
      /\ \A x \in Call : Writer(x)' => Writer(x)
  BY DEF LoginCreate, local, Goto, Writer, LoginPC, IInv, TypeOK, DeviceInv, SessionHasDevice
<1>2. CASE dev[c] \in devices
  <2>1. UNCHANGED <<devices, typeOf>>
    BY <1>2 DEF LoginCreate
  <2> QED BY <1>1, <2>1 DEF Present, WritesAs, OfType
<1>3. CASE dev[c] \notin devices
  <2>1. devices' = devices \cup {dev[c]} /\ typeOf' = [typeOf EXCEPT ![dev[c]] = type[c]]
    BY <1>3 DEF LoginCreate
  <2>2. \A e \in devices : e # dev[c] /\ typeOf'[e] = typeOf[e]
    BY <1>1, <1>3, <2>1 DEF TypeOK
  <2>3. \A s \in sessions', k \in Type : OfType(s, k)' => OfType(s, k)
    BY <1>1, <2>2 DEF OfType
  <2>4. \A x \in Call, e \in Device, k \in Type : WritesAs(x, e, k)' => WritesAs(x, e, k)
    BY <1>1, <2>1, <2>2 DEF WritesAs
  <2> QED BY <1>1, <2>3, <2>4 DEF Present
<1> QED BY <1>2, <1>3

\* Call c, which writes, saves a session of its device under its type.
LEMMA SavePresent ==
    ASSUME NEW c \in Call, Writer(c), UNCHANGED <<rows, dev, type>>,
           \A x \in Call : Writer(x)' => Writer(x),
           \A s \in sessions' : s \in sessions \/ (s.device = dev[c] /\ s.type = type[c])
    PROVE  \A e \in Device, k \in Type : Present(e, k)' => Present(e, k)
<1>1. \A s \in sessions', k \in Type : OfType(s, k)' => OfType(s, k)
  BY DEF OfType, rows
<1>2. \A x \in Call, e \in Device, k \in Type : WritesAs(x, e, k)' => WritesAs(x, e, k)
  BY DEF WritesAs, rows
<1>3. \A s \in sessions', k \in Type : OfType(s, k) =>
          s \in sessions \/ WritesAs(c, s.device, k)
  BY DEF OfType, WritesAs
<1> QED BY <1>1, <1>2, <1>3 DEF Present

\* The steps of a login.
LEMMA LoginKick ==
    ASSUME IInv, KickInv, NEW c \in Call, LoginStep(c)
    PROVE  KickInv'
<1>0. TypeOK /\ DeviceInv /\ RevokeInv
  BY DEF IInv
<1>1. CASE KickList(c)
  BY <1>1, KickListInv
<1>2. ASSUME NEW f \in Device, Kick(c, f) PROVE KickInv'
  <2>1. /\ Delete(c, {f}) /\ {f} \in SUBSET Device /\ UNCHANGED <<pc, dev, rows, type>>
        /\ pc[c] = "kick" /\ f \in todo[c] /\ todo' = [todo EXCEPT ![c] = @ \ {f}]
    BY <1>2 DEF Kick
  <2>2. dev[c] # f
    BY <1>0, <2>1 DEF RevokeInv
  <2>3. \A x \in Call : todo[x] \ {f} \subseteq todo'[x]
    BY <1>0, <2>1 DEF TypeOK
  <2>4. \A d, e \in Device : Kicking(d, e) /\ e \notin {f} => Kicking(d, e)'
    BY <2>1, <2>3 DEF Kicking
  <2>5. Writer(c)' => Writer(c) /\ dev'[c] = dev[c] /\ dev[c] \notin {f}
    BY <2>1, <2>2 DEF Writer
  <2> QED BY <1>0, <2>1, <2>4, <2>5, KickDelete
<1>3. CASE KickEnds(c) \/ LoginDevice(c) \/ LoginCreate(c) \/ LoginFind(c) \/ LoginFails(c)
  <2>1. /\ UNCHANGED <<sessions, dev, type, todo, spared>>
        /\ Writer(c) /\ (pc[c] # "kick" \/ todo[c] = {})
    BY <1>3 DEF KickEnds, LoginDevice, LoginCreate, LoginFind, LoginFails, local, Goto, Writer, LoginPC
  <2>2. \A x \in Call \ {c} : pc'[x] = pc[x]
    BY <1>0, <1>3 DEF KickEnds, LoginDevice, LoginCreate, LoginFind, LoginFails, Goto, TypeOK
  <2>3. \A e \in Device, k \in Type : Present(e, k)' => Present(e, k)
    <3>1. CASE LoginCreate(c)
      BY <3>1, CreatePresent
    <3>2. CASE ~LoginCreate(c)
      <4>1. UNCHANGED rows
        BY <1>3, <3>2 DEF KickEnds, LoginDevice, LoginFind, LoginFails
      <4> QED BY <2>1, <2>2, <4>1, PresentKept
    <3> QED BY <3>1, <3>2
  <2>4. \A d, e \in Device : Kicking(d, e) => Kicking(d, e)'
    BY <2>1, <2>2, KickingKept
  <2> QED BY <2>1, <2>3, <2>4, KickKept
<1>4. CASE LoginSave(c)
  <2>1. /\ UNCHANGED <<rows, dev, type, todo, spared>> /\ Writer(c) /\ pc[c] # "kick"
        /\ pc'[c] = "done"
        /\ \A x \in Call \ {c} : pc'[x] = pc[x]
    BY <1>0, <1>4 DEF LoginSave, local, Goto, Writer, LoginPC, TypeOK
  <2>2. \A s \in sessions' : s \in sessions \/ (s.device = dev[c] /\ s.type = type[c])
    BY <1>4 DEF LoginSave, Save, NewSession
  <2>3. \A e \in Device, k \in Type : Present(e, k)' => Present(e, k)
    <3>1. \A x \in Call : Writer(x)' => Writer(x)
      BY <2>1 DEF Writer
    <3> QED BY <2>1, <2>2, <3>1, SavePresent
  <2>4. \A d, e \in Device : Kicking(d, e) => Kicking(d, e)'
    BY <2>1, KickingKept
  <2> QED BY <2>1, <2>3, <2>4, KickKept
<1> QED BY <1>1, <1>2, <1>3, <1>4 DEF LoginStep

\* The steps of a change of password or contact.
LEMMA RevokeKick ==
    ASSUME IInv, KickInv, NEW c \in Call, RevokeStep(c)
    PROVE  KickInv'
<1>0. TypeOK /\ DeviceInv /\ RevokeInv
  BY DEF IInv
<1>1. /\ ~Writer(c) /\ ~Writer(c)' /\ pc[c] # "kick" /\ UNCHANGED <<rows, dev, type>>
      /\ \A x \in Call \ {c} : pc'[x] = pc[x] /\ todo'[x] = todo[x]
  BY <1>0 DEF RevokeStep, UpdatePassword, ResetCommit, UpdateContact, UpdateFails, RevokeList,
     RevokeListFails, RevokeEnds, RevokeOthers, Revoke, Goto, local, Writer, LoginPC, TypeOK
<1>2. \A d, e \in Device : Kicking(d, e) => Kicking(d, e)'
  BY <1>1, KickingKept
<1>3. CASE ResetCommit(c)
  <2>1. sessions' = {} /\ spared' = InFlight(c)
    BY <1>3 DEF ResetCommit
  <2>2. \A e \in Device, k \in Type : Present(e, k)' => e \in spared'
    BY <1>1, <2>1 DEF Present, WritesAs, Writer, InFlight, Writers
  <2> QED BY <2>2 DEF KickInv
<1>4. CASE RevokeListFails(c)
  BY <1>4 DEF RevokeListFails, KickInv
<1>5. CASE UpdatePassword(c) \/ UpdateContact(c) \/ UpdateFails(c) \/ RevokeList(c) \/ RevokeEnds(c)
  <2>1. UNCHANGED sessions /\ spared \subseteq spared'
    BY <1>5 DEF UpdatePassword, UpdateContact, UpdateFails, RevokeList, RevokeEnds, Changed
  <2>2. \A e \in Device, k \in Type : Present(e, k)' => Present(e, k)
    BY <1>1, <2>1, PresentKept
  <2> QED BY <1>2, <2>1, <2>2, KickKept
<1>6. CASE RevokeOthers(c)
  <2>1. Delete(c, Device \ {dev[c]}) /\ Device \ {dev[c]} \in SUBSET Device
    BY <1>6 DEF RevokeOthers
  <2> QED BY <1>0, <1>1, <1>2, <2>1, KickDelete
<1>7. ASSUME NEW f \in Device, Revoke(c, f) PROVE KickInv'
  <2>1. Delete(c, {f}) /\ {f} \in SUBSET Device
    BY <1>7 DEF Revoke
  <2> QED BY <1>0, <1>1, <1>2, <2>1, KickDelete
<1> QED BY <1>3, <1>4, <1>5, <1>6, <1>7 DEF RevokeStep

\* Every step keeps it.
LEMMA KickStep == IInv /\ KickInv /\ [Next]_vars => KickInv'
<1> SUFFICES ASSUME IInv, KickInv, [Next]_vars PROVE KickInv'
  OBVIOUS
<1>0. TypeOK /\ DeviceInv /\ RevokeInv
  BY DEF IInv
<1>1. CASE UNCHANGED vars
  BY <1>1 DEF vars, KickInv, Present, WritesAs, OfType, Writer, Kicking
<1>2. ASSUME NEW d \in Device, NEW k \in Type, Register(d, k) PROVE KickInv'
  \* the account is new: nobody is writing, and one device has a session
  <2>1. /\ \A x \in Call : pc'[x] = "idle"
        /\ \A s \in sessions' : s.device = d
    BY <1>0, <1>2 DEF Register, DeviceInv
  <2>2. \A e \in Device, j \in Type : Present(e, j)' => e = d
    BY <2>1 DEF Present, WritesAs, Writer, LoginPC
  <2> QED BY <2>2 DEF KickInv
<1>3. ASSUME NEW c \in Call,
             \/ \E d \in Device, k \in Type : Login(c, d, k)
             \/ \E d \in Device \cup {NoDevice} : ChangePassword(c, d) \/ ChangeContact(c, d)
             \/ ResetPassword(c) \/ RefreshFails(c)
      PROVE  KickInv'
  <2>1. /\ UNCHANGED <<rows, sessions, todo, spared>>
        /\ pc[c] # "kick" /\ ~Writer(c)'
        /\ \A x \in Call \ {c} : pc'[x] = pc[x] /\ dev'[x] = dev[x] /\ type'[x] = type[x]
    BY <1>0, <1>3 DEF Login, ChangePassword, ChangeContact, ResetPassword, RefreshFails, Goto,
       local, Writer, LoginPC, TypeOK
  <2>2. \A e \in Device, k \in Type : Present(e, k)' => Present(e, k)
    BY <2>1, PresentKept
  <2>3. \A d, e \in Device : Kicking(d, e) => Kicking(d, e)'
    BY <2>1, KickingKept
  <2> QED BY <2>1, <2>2, <2>3, KickKept
<1>4. ASSUME NEW c \in Call, NEW d \in Device, Logout(c, d) PROVE KickInv'
  <2>1. /\ Delete(c, {d}) /\ {d} \in SUBSET Device /\ ~Writer(c)' /\ pc[c] # "kick"
        /\ UNCHANGED <<rows, type>>
        /\ \A x \in Call \ {c} : pc'[x] = pc[x] /\ dev'[x] = dev[x] /\ todo'[x] = todo[x]
    BY <1>0, <1>4 DEF Logout, Goto, local, Writer, LoginPC, TypeOK
  <2>2. \A f, e \in Device : Kicking(f, e) => Kicking(f, e)'
    BY <2>1, KickingKept
  <2> QED BY <1>0, <2>1, <2>2, KickDelete
<1>5. ASSUME NEW c \in Call, NEW s \in sessions, Refresh(c, s) PROVE KickInv'
  <2>1. /\ UNCHANGED <<rows, sessions, todo, spared>> /\ pc[c] # "kick"
        /\ dev'[c] = s.device /\ type'[c] = s.type /\ s.device \in devices
        /\ \A x \in Call \ {c} : pc'[x] = pc[x] /\ dev'[x] = dev[x] /\ type'[x] = type[x]
    BY <1>0, <1>5 DEF Refresh, Goto, TypeOK, DeviceInv, SessionHasDevice
  <2>2. \A e \in Device, k \in Type : Present(e, k)' => Present(e, k)
    <3>1. \A x \in Call \ {c}, e \in Device, k \in Type :
              WritesAs(x, e, k)' => WritesAs(x, e, k)
      BY <2>1 DEF WritesAs, Writer, rows
    <3>2. \A e \in Device, k \in Type :
              WritesAs(c, e, k)' => s.device = e /\ OfType(s, k)
      BY <2>1 DEF WritesAs, OfType, rows
    <3>3. \A t \in sessions', k \in Type : OfType(t, k)' => OfType(t, k)
      BY <2>1 DEF OfType, rows
    <3> QED BY <2>1, <3>1, <3>2, <3>3 DEF Present
  <2>3. \A d, e \in Device : Kicking(d, e) => Kicking(d, e)'
    BY <2>1, KickingKept
  <2> QED BY <2>1, <2>2, <2>3, KickKept
<1>6. ASSUME NEW c \in Call, RefreshSave(c) PROVE KickInv'
  <2>1. /\ UNCHANGED <<rows, dev, type, todo, spared>> /\ pc[c] = "refresh" /\ pc'[c] = "done"
        /\ \A x \in Call \ {c} : pc'[x] = pc[x]
    BY <1>0, <1>6 DEF RefreshSave, Goto, local, TypeOK
  <2>2. PICK s \in row[c] : Save([s EXCEPT !.token = c])
    BY <1>6 DEF RefreshSave
  <2>3. s \in Session /\ s.device = dev[c] /\ s.type = type[c]
    BY <1>0, <2>1, <2>2 DEF TypeOK, DeviceInv
  <2>4. [s EXCEPT !.token = c].device = dev[c] /\ [s EXCEPT !.token = c].type = type[c]
    BY <2>3 DEF Session
  <2>5. \A t \in sessions' : t \in sessions \/ (t.device = dev[c] /\ t.type = type[c])
    BY <2>2, <2>4 DEF Save
  <2>6. \A e \in Device, k \in Type : Present(e, k)' => Present(e, k)
    <3>1. Writer(c) /\ \A x \in Call : Writer(x)' => Writer(x)
      BY <2>1 DEF Writer, LoginPC
    <3> QED BY <2>1, <2>5, <3>1, SavePresent
  <2>7. \A d, e \in Device : Kicking(d, e) => Kicking(d, e)'
    BY <2>1, KickingKept
  <2> QED BY <2>1, <2>6, <2>7, KickKept
<1> QED
  BY <1>1, <1>2, <1>3, <1>4, <1>5, <1>6, LoginKick, RevokeKick DEF Next

\* For any number of devices, types, calls and errors: two devices that logged in
\* under one type, that of their rows, keep their sessions only where a kick failed or overlapped another login or refresh.
THEOREM KickCorrect == Spec => []KickComplete
<1>1. TypeOK /\ KickInv => KickComplete
  <2> SUFFICES ASSUME TypeOK, KickInv, \A c \in Call : pc[c] \notin LoginPC,
                      NEW s \in sessions, NEW t \in sessions, NEW k \in Type,
                      s.device # t.device, OfType(s, k), OfType(t, k)
               PROVE  s.device \in spared \/ t.device \in spared
    BY DEF KickComplete
  <2>1. s.device \in Device /\ t.device \in Device
    BY DEF TypeOK, Session
  <2>2. Present(s.device, k) /\ Present(t.device, k)
    BY DEF Present
  <2>3. \A d, e \in Device : ~Kicking(d, e)
    BY DEF Kicking, LoginPC
  <2> QED BY <2>1, <2>2, <2>3 DEF KickInv
<1>2. Init => KickInv
  BY DEF Init, KickInv, Present, WritesAs, Writer, LoginPC
<1> QED BY <1>1, <1>2, KickStep, IInvCorrect, TypeCorrect, PTL DEF Spec
=============================================================================
