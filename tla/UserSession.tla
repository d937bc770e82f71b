----------------------------- MODULE UserSession -----------------------------
(***************************************************************************)
(* The devices (user_devices) and sessions (user_sessions) of one account: *)
(* Register, Login with the kick of devices of the same type, RefreshToken, *)
(* Logout, and the changes of password and contact that end sessions.      *)
(*                                                                         *)
(* Only Register and the first part of ResetPassword use a transaction;    *)
(* every other call is a series of statements that interleaves with the    *)
(* calls of the user's other devices.  UserSession rows are written with   *)
(* gorm's Save: the whole row, inserted again if it was deleted meanwhile. *)
(***************************************************************************)
EXTENDS Naturals, FiniteSets

CONSTANTS Device, Type,    \* the user's devices and the values of device_type
          Call,            \* calls; each is made at most once and names the
                           \* refresh token and the session row it creates
          MaxErrors        \* bound: database errors

ASSUME SessionAssumption == MaxErrors \in Nat

VARIABLES
    registered, \* the account exists
    password,   \* how often the password was changed
    contact,    \* how often phone or email was changed
    devices,    \* user_devices
    typeOf,     \* the device_type of its rows
    sessions,   \* user_sessions; `type' is the one in its tokens, and `since' a
                \* history field: the credentials in force when the session's
                \* owner proved his
    pc,         \* where each call is
    dev,        \* the device of the call
    type,       \* the device_type its request or its token names
    row,        \* the session row the call has read; {}: none
    since,      \* the credentials in force when the call checked them
    todo,       \* devices whose sessions the call still has to delete
    errors,     \* database errors so far
    spared      \* history: devices that the last deletion aimed at them may
                \* have missed, because it failed or overlapped another call

vars == <<registered, password, contact, devices, typeOf, sessions, pc, dev, type,
          row, since, todo, errors, spared>>
account == <<registered, password, contact>>
rows    == <<devices, typeOf>>
local   == <<dev, type, row, since, todo>>

\* device_id left out of a request; the type of no row and no call.
NoDevice == "none"
NoType   == "none"

ASSUME DeviceAssumption == NoDevice \notin Device

\* The credentials in force: each change of password or contact is a new one.
Credentials == password + contact

Session == [id : Call \cup {"registration"}, device : Device, type : Type,
            token : Call \cup {"registration"}, since : Nat]

LoginPC  == {"kickList", "kick", "device", "create", "find", "save"}
RevokePC == {"list", "revoke", "revokeOthers"}
PC == {"idle", "refresh", "newPassword", "newContact", "reset", "done"}
        \cup LoginPC \cup RevokePC

TypeOK ==
    /\ registered \in BOOLEAN
    /\ password \in Nat /\ contact \in Nat
    /\ devices \subseteq Device
    /\ typeOf \in [Device -> Type \cup {NoType}]
    /\ sessions \subseteq Session
    /\ pc \in [Call -> PC]
    /\ dev \in [Call -> Device \cup {NoDevice}]
    /\ type \in [Call -> Type \cup {NoType}]
    /\ row \in [Call -> SUBSET Session]
    /\ since \in [Call -> Nat]
    /\ todo \in [Call -> SUBSET Device]
    /\ errors \in 0..MaxErrors
    /\ spared \subseteq Device
    /\ \A c \in Call : pc[c] \in LoginPC \cup {"refresh"} =>
         dev[c] \in Device /\ type[c] \in Type

Init ==
    /\ registered = FALSE
    /\ password = 0 /\ contact = 0
    /\ devices = {}
    /\ typeOf = [d \in Device |-> NoType]
    /\ sessions = {}
    /\ pc = [c \in Call |-> "idle"]
    /\ dev = [c \in Call |-> NoDevice]
    /\ type = [c \in Call |-> NoType]
    /\ row = [c \in Call |-> {}]
    /\ since = [c \in Call |-> 0]
    /\ todo = [c \in Call |-> {}]
    /\ errors = 0
    /\ spared = {}

Goto(c, from, to) == pc[c] = from /\ pc' = [pc EXCEPT ![c] = to]
Fails == errors < MaxErrors /\ errors' = errors + 1
Works == errors' = errors

\* Other calls than c that will write a session, and their devices.
Writers(c)  == {x \in Call \ {c} : pc[x] \in LoginPC \cup {"refresh"}}
InFlight(c) == {dev[x] : x \in Writers(c)}

-----------------------------------------------------------------------------
(* user_session_repository.go *)

DeleteSessionsOf(D) == sessions' = {s \in sessions : s.device \notin D}

\* Save: update by primary key, or insert if the row is gone.
Save(s) == sessions' = {t \in sessions : t.id # s.id} \cup {s}

\* A deletion of the sessions of D by call c, which may fail.
Delete(c, D) ==
    \/ /\ Works
       /\ DeleteSessionsOf(D)
       /\ spared' = (spared \ D) \cup (D \cap InFlight(c))
    \/ /\ Fails
       /\ spared' = spared \cup D
       /\ UNCHANGED sessions

-----------------------------------------------------------------------------
\* Register: account, device and first session in one transaction.
Register(d, k) ==
    /\ ~registered
    /\ registered' = TRUE
    /\ devices' = {d}
    /\ typeOf' = [typeOf EXCEPT ![d] = k]
    /\ sessions' = {[id |-> "registration", device |-> d, type |-> k,
                     token |-> "registration", since |-> 0]}
    /\ UNCHANGED <<password, contact, pc, local, errors, spared>>

\* Login: the account exists and the password is the current one.  The type is
\* what this request says, whatever the device's row says.
Login(c, d, k) ==
    /\ registered
    /\ Goto(c, "idle", "kickList")
    /\ dev' = [dev EXCEPT ![c] = d]
    /\ type' = [type EXCEPT ![c] = k]
    /\ since' = [since EXCEPT ![c] = Credentials]
    /\ UNCHANGED <<account, rows, sessions, row, todo, errors, spared>>

\* The rows of a type, and the devices with another call in flight that names it.
RowsOfType(k)    == {e \in devices : typeOf[e] = k}
InFlightAs(c, k) == {dev[x] : x \in {y \in Writers(c) : type[y] = k}}

\* Mutant: the query returns the device that logs in and nothing else.
KickListOwn(c) ==
    /\ Goto(c, "kickList", "kick")
    /\ Works
    /\ todo' = [todo EXCEPT ![c] = {}]
    /\ spared' = spared \cup InFlightAs(c, type[c])
    /\ UNCHANGED <<account, rows, sessions, dev, type, row, since>>

\* handleSameTypeDeviceKick: GetByUserIDAndDeviceType; an error is only logged.
KickList(c) ==
    /\ Goto(c, "kickList", "kick")
    /\ \/ /\ Works
          /\ todo' = [todo EXCEPT ![c] = RowsOfType(type[c]) \ {dev[c]}]
          /\ spared' = spared \cup InFlightAs(c, type[c])
       \/ /\ Fails
          /\ spared' = spared \cup RowsOfType(type[c]) \cup InFlightAs(c, type[c])
          /\ UNCHANGED todo
    /\ UNCHANGED <<account, rows, sessions, dev, type, row, since>>

\* The sessions of one such device; an error is only logged.
Kick(c, e) ==
    /\ pc[c] = "kick"
    /\ e \in todo[c]
    /\ Delete(c, {e})
    /\ todo' = [todo EXCEPT ![c] = @ \ {e}]
    /\ UNCHANGED <<account, rows, pc, dev, type, row, since>>

KickEnds(c) ==
    /\ todo[c] = {}
    /\ Goto(c, "kick", "device")
    /\ UNCHANGED <<account, rows, sessions, local, errors, spared>>

\* GetByUserIDAndDeviceID of the device row, and UpdateLastLogin if it exists; its
\* type is neither compared nor changed.
LoginDevice(c) ==
    /\ Goto(c, "device", IF dev[c] \in devices THEN "find" ELSE "create")
    /\ UNCHANGED <<account, rows, sessions, local, errors, spared>>

\* Create the device row; the unique key refuses it if another call has.
LoginCreate(c) ==
    /\ Goto(c, "create", IF dev[c] \in devices THEN "done" ELSE "find")
    /\ devices' = devices \cup {dev[c]}
    /\ typeOf' = IF dev[c] \in devices THEN typeOf ELSE [typeOf EXCEPT ![dev[c]] = type[c]]
    /\ UNCHANGED <<account, sessions, local, errors, spared>>

\* GetByUserIDAndDeviceID of the session.
LoginFind(c) ==
    LET found == {s \in sessions : s.device = dev[c]} IN
    /\ Goto(c, "find", "save")
    /\ IF found = {} THEN UNCHANGED row
       ELSE \E s \in found : row' = [row EXCEPT ![c] = {s}]
    /\ UNCHANGED <<account, rows, sessions, dev, type, since, todo, errors, spared>>

NewSession(c) ==
    [id |-> c, device |-> dev[c], type |-> type[c], token |-> c, since |-> since[c]]

\* Create a session, or Save the one found with the new tokens.
LoginSave(c) ==
    /\ Goto(c, "save", "done")
    /\ IF row[c] = {} THEN sessions' = sessions \cup {NewSession(c)}
       ELSE \E s \in row[c] : Save([NewSession(c) EXCEPT !.id = s.id])
    /\ UNCHANGED <<account, rows, local, errors, spared>>

\* Any statement of Login after the kick fails and ends the call.
LoginFails(c) ==
    /\ pc[c] \in {"device", "create", "find", "save"}
    /\ Fails
    /\ pc' = [pc EXCEPT ![c] = "done"]
    /\ UNCHANGED <<account, rows, sessions, local, spared>>

\* Logout.
Logout(c, d) ==
    /\ registered
    /\ Goto(c, "idle", "done")
    /\ Delete(c, {d})
    /\ UNCHANGED <<account, rows, local>>

-----------------------------------------------------------------------------
\* RefreshToken: a session with the presented token exists and is not expired.
Refresh(c, s) ==
    /\ s \in sessions
    /\ Goto(c, "idle", "refresh")
    /\ dev' = [dev EXCEPT ![c] = s.device]
    /\ type' = [type EXCEPT ![c] = s.type]
    /\ row' = [row EXCEPT ![c] = {s}]
    /\ UNCHANGED <<account, rows, sessions, since, todo, errors, spared>>

\* The row read before is saved with new tokens.
RefreshSave(c) ==
    /\ Goto(c, "refresh", "done")
    /\ \E s \in row[c] : Save([s EXCEPT !.token = c])
    /\ UNCHANGED <<account, rows, local, errors, spared>>

RefreshFails(c) ==
    /\ Goto(c, "refresh", "done")
    /\ Fails
    /\ UNCHANGED <<account, rows, sessions, local, spared>>

-----------------------------------------------------------------------------
\* The credentials have changed: sessions of calls in flight come from the old.
Changed(c) ==
    spared' = spared \cup ({dev[c]} \ {NoDevice}) \cup InFlight(c)

\* ChangePassword from device d: the old password is right.
ChangePassword(c, d) ==
    /\ registered
    /\ Goto(c, "idle", "newPassword")
    /\ dev' = [dev EXCEPT ![c] = d]
    /\ UNCHANGED <<account, rows, sessions, type, row, since, todo, errors, spared>>

\* UpdatePassword.
UpdatePassword(c) ==
    /\ Goto(c, "newPassword", "list")
    /\ password' = password + 1
    /\ Changed(c)
    /\ UNCHANGED <<registered, contact, rows, sessions, local, errors>>

\* ResetPassword: the account exists and the code was verified.
ResetPassword(c) ==
    /\ registered
    /\ Goto(c, "idle", "reset")
    /\ UNCHANGED <<account, rows, sessions, local, errors, spared>>

\* One transaction: UpdatePassword and DeleteByUserID.
ResetCommit(c) ==
    /\ Goto(c, "reset", "list")
    /\ password' = password + 1
    /\ sessions' = {}
    /\ spared' = InFlight(c)
    /\ UNCHANGED <<registered, contact, rows, local, errors>>

\* forceLogoutOtherDevices, forceLogoutAllDevices: GetByUserID.
RevokeList(c) ==
    /\ Goto(c, "list", "revoke")
    /\ todo' = [todo EXCEPT ![c] = devices \ {dev[c]}]
    /\ UNCHANGED <<account, rows, sessions, dev, type, row, since, errors, spared>>

RevokeListFails(c) ==
    /\ Goto(c, "list", "done")
    /\ Fails
    /\ spared' = Device
    /\ UNCHANGED <<account, rows, sessions, local>>

\* The sessions of one device; an error is only logged.
Revoke(c, e) ==
    /\ pc[c] = "revoke"
    /\ e \in todo[c]
    /\ Delete(c, {e})
    /\ todo' = [todo EXCEPT ![c] = @ \ {e}]
    /\ UNCHANGED <<account, rows, pc, dev, type, row, since>>

RevokeEnds(c) ==
    /\ todo[c] = {}
    /\ Goto(c, "revoke", "done")
    /\ UNCHANGED <<account, rows, sessions, local, errors, spared>>

\* ChangePhone, ChangeEmail: the old contact matches, the new one is free and
\* its code was verified.
ChangeContact(c, d) ==
    /\ registered
    /\ Goto(c, "idle", "newContact")
    /\ dev' = [dev EXCEPT ![c] = d]
    /\ UNCHANGED <<account, rows, sessions, type, row, since, todo, errors, spared>>

\* UpdatePhone, UpdateEmail.
UpdateContact(c) ==
    /\ Goto(c, "newContact", "revokeOthers")
    /\ contact' = contact + 1
    /\ Changed(c)
    /\ UNCHANGED <<registered, password, rows, sessions, local, errors>>

\* An update or the reset transaction fails and ends the call.
UpdateFails(c) ==
    /\ pc[c] \in {"newPassword", "reset", "newContact"}
    /\ Fails
    /\ pc' = [pc EXCEPT ![c] = "done"]
    /\ UNCHANGED <<account, rows, sessions, local, spared>>

\* Mutant: the condition on device_id is the wrong way round.
RevokeOwn(c) ==
    /\ Goto(c, "revokeOthers", "done")
    /\ Delete(c, {dev[c]} \ {NoDevice})
    /\ UNCHANGED <<account, rows, local>>

\* invalidateSessionsAfterContactChange: DeleteByUserIDExceptDeviceID.
RevokeOthers(c) ==
    /\ Goto(c, "revokeOthers", "done")
    /\ Delete(c, Device \ {dev[c]})
    /\ UNCHANGED <<account, rows, local>>

-----------------------------------------------------------------------------
LoginStep(c) ==
    \/ KickList(c) \/ KickEnds(c) \/ LoginDevice(c) \/ LoginCreate(c)
    \/ LoginFind(c) \/ LoginSave(c) \/ LoginFails(c)
    \/ \E e \in Device : Kick(c, e)

RevokeStep(c) ==
    \/ UpdatePassword(c) \/ ResetCommit(c) \/ UpdateContact(c) \/ UpdateFails(c)
    \/ RevokeList(c) \/ RevokeListFails(c) \/ RevokeEnds(c) \/ RevokeOthers(c)
    \/ \E e \in Device : Revoke(c, e)

Next ==
    \/ \E d \in Device, k \in Type : Register(d, k)
    \/ \E c \in Call :
          \/ \E d \in Device, k \in Type : Login(c, d, k)
          \/ \E d \in Device : Logout(c, d)
          \/ \E d \in Device \cup {NoDevice} :
                ChangePassword(c, d) \/ ChangeContact(c, d)
          \/ \E s \in sessions : Refresh(c, s)
          \/ ResetPassword(c)
          \/ LoginStep(c) \/ RevokeStep(c) \/ RefreshSave(c) \/ RefreshFails(c)

Spec == Init /\ [][Next]_vars

-----------------------------------------------------------------------------
\* forceLogoutAllDevices and forceLogoutOtherDevices delete the sessions of the
\* devices they find in user_devices: a session whose device has no row there
\* would survive every change of password.  No series of logins, refreshes,
\* kicks and changes, however they overlap, makes one.
SessionHasDevice == \A s \in sessions : s.device \in devices

\* After ChangePassword, ResetPassword, ChangePhone and ChangeEmail have ended,
\* a session from before the change is on the device that made the change, or
\* on one whose deletion failed or overlapped a login or refresh of that device.
RevocationComplete ==
    (\A c \in Call : pc[c] \notin RevokePC) =>
        \A s \in sessions : s.since < Credentials => s.device \in spared

\* handleSameTypeDeviceKick: when no login is going on, two devices that have
\* logged in under one type, which is that of their rows, have sessions only if
\* the kick of one of them failed or overlapped another login or refresh.  (A
\* device that logs in under another type than its row's is neither kicked by nor
\* kicks the devices of its row's type; nothing is said of it.)
OfType(s, k) == s.type = k /\ typeOf[s.device] = k
KickComplete ==
    (\A c \in Call : pc[c] \notin LoginPC) =>
        \A s, t \in sessions, k \in Type :
            s.device # t.device /\ OfType(s, k) /\ OfType(t, k)
                => s.device \in spared \/ t.device \in spared
=============================================================================
