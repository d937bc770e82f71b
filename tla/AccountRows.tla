----------------------------- MODULE AccountRows -----------------------------
(***************************************************************************)
(* The rows of a user in the user service: profile, settings, the contact  *)
(* columns of users, and the QR codes.                                     *)
(*                                                                         *)
(* UpdateProfile and UpdateSettings read the row, change the columns the   *)
(* request names in memory and save the WHOLE row; RefreshQRCode and       *)
(* the bindings and changes of phone and email write one column.  Nothing  *)
(* locks a row between the read and the write, so calls of the user's      *)
(* devices interleave there.                                               *)
(***************************************************************************)
EXTENDS Naturals, FiniteSets

CONSTANTS AccUser,      \* users
          Value,        \* values of a column: nicknames, avatars, contacts, flags
          NoValue,      \* NULL
          Default,      \* what the settings of a new user are
          Token,        \* QR code tokens; every new code draws one
          AccCall,      \* calls in flight
          NoAccount,    \* no user
          MaxAccCalls   \* bound: how many calls are made

ASSUME AccAssumption ==
    /\ NoValue \notin Value \cup Token
    /\ NoAccount \notin AccUser
    /\ Default \in Value
    /\ MaxAccCalls \in Nat

\* avatar stands for the profile columns that any value may take, and
\* friend_verify_required for the columns of the settings.
Profile  == {"nickname", "avatar", "qrcode_url"}
Settings == {"friend_verify_required", "language"}
Contact  == {"phone", "email"}
AccColumn == Profile \cup Settings \cup Contact

\* The columns of the table that has column k.
TableOf(k) == IF k \in Profile THEN Profile ELSE IF k \in Settings THEN Settings ELSE Contact

VARIABLES
    row,         \* the rows of each user, as one function over the columns
    qowner,      \* user_qrcodes: the user of each token; NoAccount: no row
    qexpired,    \* tokens whose expires_at has passed
    apc,         \* where each call is
    areq,        \* its request: user, column and value
    copy,        \* the row it has read
    amade,       \* calls made so far
    meant,       \* the value each column was last set to by a request
    overlapped   \* rows written while another call held a copy of them

accVars == <<row, qowner, qexpired, apc, areq, copy, amade, meant, overlapped>>
qrcodes == <<qowner, qexpired>>

Blank   == [k \in AccColumn |-> NoValue]
NoAsk   == [user |-> NoAccount, column |-> "none", value |-> NoValue]
AccPC   == {"idle", "check", "save", "url", "available", "bind"}

AccTypeOK ==
    /\ row \in [AccUser -> [AccColumn -> Value \cup Token \cup {NoValue}]]
    /\ qowner \in [Token -> AccUser \cup {NoAccount}]
    /\ qexpired \subseteq Token
    /\ apc \in [AccCall -> AccPC]
    /\ copy \in [AccCall -> [AccColumn -> Value \cup Token \cup {NoValue}]]
    /\ amade \in 0..MaxAccCalls
    /\ meant \in [AccUser -> [AccColumn -> Value \cup Token \cup {NoValue}]]

AccInit ==
    /\ row = [u \in AccUser |-> Blank]
    /\ qowner = [q \in Token |-> NoAccount]
    /\ qexpired = {}
    /\ apc = [c \in AccCall |-> "idle"]
    /\ areq = [c \in AccCall |-> NoAsk]
    /\ copy = [c \in AccCall |-> Blank]
    /\ amade = 0
    /\ meant = [u \in AccUser |-> Blank]
    /\ overlapped = {}

Registered(u) == row[u]["nickname"] # NoValue

\* The row with column k of user u is in the hands of a call other than c.
Held(c, u, k) ==
    \E d \in AccCall \ {c} : /\ apc[d] \in {"check", "save"}
                             /\ areq[d].user = u /\ areq[d].column \in TableOf(k)

AccGoto(c, from, to) ==
    /\ apc[c] = from
    /\ apc' = [apc EXCEPT ![c] = to]

\* A call for column k of user u that reads the row and goes on at "to".
AccBegins(c, u, k, v, to) ==
    /\ amade < MaxAccCalls
    /\ amade' = amade + 1
    /\ Registered(u)
    /\ AccGoto(c, "idle", to)
    /\ areq' = [areq EXCEPT ![c] = [user |-> u, column |-> k, value |-> v]]
    /\ copy' = [copy EXCEPT ![c] = IF to \in {"check", "save"} THEN row[u] ELSE Blank]
    /\ UNCHANGED <<row, meant, overlapped>>

AccEnds(c) ==
    /\ apc' = [apc EXCEPT ![c] = "idle"]
    /\ areq' = [areq EXCEPT ![c] = NoAsk]
    /\ copy' = [copy EXCEPT ![c] = Blank]
    /\ amade' = amade

\* The call writes the columns in new of its user's row, and ends.
Writes(c, new) ==
    LET u == areq[c].user
        k == areq[c].column
    IN  /\ row' = [row EXCEPT ![u] = [j \in AccColumn |->
                                        IF j \in DOMAIN new THEN new[j] ELSE row[u][j]]]
        /\ meant' = [meant EXCEPT ![u][k] = areq[c].value]
        /\ overlapped' = IF Held(c, u, k) THEN overlapped \cup {<<u, TableOf(k)>>}
                         ELSE overlapped
        /\ AccEnds(c)

-----------------------------------------------------------------------------
\* The transaction of Register: the user with a phone, an email or both, which no
\* other user has, and with initUserDataInTx profile, settings and code.
InitUserData(u, n, q, phone, email) ==
    LET data == [nickname |-> n, avatar |-> NoValue, qrcode_url |-> q,
                 friend_verify_required |-> Default, language |-> Default,
                 phone |-> phone, email |-> email]
    IN  /\ ~Registered(u)
        /\ {phone, email} # {NoValue}
        /\ \A w \in AccUser, k \in Contact : data[k] # NoValue => row[w][k] # data[k]
        /\ qowner[q] = NoAccount
        /\ row' = [row EXCEPT ![u] = data]
        /\ meant' = [meant EXCEPT ![u] = data]
        /\ qowner' = [qowner EXCEPT ![q] = u]
        /\ UNCHANGED <<qexpired, apc, areq, copy, amade, overlapped>>

\* UpdateProfile reads the profile; a nickname is then looked for among the
\* other users' before the row is saved.
UpdateProfile(c, u, k, v) ==
    /\ k \in {"nickname", "avatar"}
    /\ AccBegins(c, u, k, v, IF k = "nickname" THEN "check" ELSE "save")
    /\ UNCHANGED qrcodes

CheckNicknameExists(c) ==
    /\ AccGoto(c, "check", "save")
    /\ \A w \in AccUser \ {areq[c].user} : row[w]["nickname"] # areq[c].value
    /\ UNCHANGED <<row, qrcodes, areq, copy, amade, meant, overlapped>>

UpdateSettings(c, u, k, v) ==
    /\ k \in Settings
    /\ AccBegins(c, u, k, v, "save")
    /\ UNCHANGED qrcodes

\* Mutant: the columns that the request does not name are saved empty.
SaveRequestOnly(c) ==
    /\ apc[c] = "save"
    /\ Writes(c, [j \in TableOf(areq[c].column) |->
                    IF j = areq[c].column THEN areq[c].value ELSE NoValue])
    /\ UNCHANGED qrcodes

\* The whole row is saved: the columns of the copy with the requested change.
SaveRow(c) ==
    /\ apc[c] = "save"
    /\ Writes(c, [j \in TableOf(areq[c].column) |->
                    IF j = areq[c].column THEN areq[c].value ELSE copy[c][j]])
    /\ UNCHANGED qrcodes

\* Mutant: the profile is pointed at the code before the code is stored.
RefreshWithoutRow(c, u, q) ==
    /\ qowner[q] = NoAccount
    /\ AccBegins(c, u, "qrcode_url", q, "url")
    /\ UNCHANGED qrcodes

\* RefreshQRCode stores a new code ...
RefreshQRCode(c, u, q) ==
    /\ qowner[q] = NoAccount
    /\ AccBegins(c, u, "qrcode_url", q, "url")
    /\ qowner' = [qowner EXCEPT ![q] = u]
    /\ UNCHANGED qexpired

\* ... and points the profile at it.
UpdateQRCode(c) ==
    /\ apc[c] = "url"
    /\ Writes(c, [qrcode_url |-> areq[c].value])
    /\ UNCHANGED qrcodes

QRCodeExpires(q) ==
    /\ qowner[q] # NoAccount
    /\ qexpired' = qexpired \cup {q}
    /\ UNCHANGED <<row, qowner, apc, areq, copy, amade, meant, overlapped>>

\* BindPhone and BindEmail go on only if no contact of the kind is bound.
BindContact(c, u, k, v) ==
    /\ k \in Contact
    /\ row[u][k] = NoValue
    /\ AccBegins(c, u, k, v, "available")
    /\ UNCHANGED qrcodes

\* ChangePhone and ChangeEmail go on only if one is bound, other than the new one
\* (that the sessions of the other devices end then is in UserSession).
ChangeContact(c, u, k, v) ==
    /\ k \in Contact
    /\ row[u][k] \notin {NoValue, v}
    /\ AccBegins(c, u, k, v, "available")
    /\ UNCHANGED qrcodes

\* ensurePhoneAvailable, ensureEmailAvailable, and then the code is verified.
EnsureAvailable(c) ==
    /\ AccGoto(c, "available", "bind")
    /\ \A w \in AccUser \ {areq[c].user} : row[w][areq[c].column] # areq[c].value
    /\ UNCHANGED <<row, qrcodes, areq, copy, amade, meant, overlapped>>

\* UpdatePhone, UpdateEmail, under the unique index of the column.
UpdateContactColumn(c) ==
    LET k == areq[c].column IN
    /\ apc[c] = "bind"
    /\ \A w \in AccUser \ {areq[c].user} : row[w][k] # areq[c].value
    /\ Writes(c, [j \in {k} |-> areq[c].value])
    /\ UNCHANGED qrcodes

\* A check refuses, a code does not verify, or the database fails.
AccCallFails(c) ==
    /\ apc[c] # "idle"
    /\ AccEnds(c)
    /\ UNCHANGED <<row, qrcodes, meant, overlapped>>

AccNext ==
    \/ \E u \in AccUser :
         \/ \E n \in Value, q \in Token, phone, email \in Value \cup {NoValue} :
              InitUserData(u, n, q, phone, email)
         \/ \E c \in AccCall :
              \/ \E k \in AccColumn, v \in Value :
                   \/ UpdateProfile(c, u, k, v) \/ UpdateSettings(c, u, k, v)
                   \/ BindContact(c, u, k, v) \/ ChangeContact(c, u, k, v)
              \/ \E q \in Token : RefreshQRCode(c, u, q)
    \/ \E q \in Token : QRCodeExpires(q)
    \/ \E c \in AccCall :
         \/ CheckNicknameExists(c) \/ SaveRow(c) \/ UpdateQRCode(c)
         \/ EnsureAvailable(c) \/ UpdateContactColumn(c) \/ AccCallFails(c)

AccSpec == AccInit /\ [][AccNext]_accVars

-----------------------------------------------------------------------------
\* GetUserByQRCode: the user of a code, also of one that was replaced since.
GetUserByQRCode(q) == {u \in AccUser : qowner[q] = u /\ q \notin qexpired}

\* A column keeps the value that UpdateProfile, UpdateSettings, RefreshQRCode, a
\* binding or a change of a contact last gave it: the save of the whole row takes
\* it back only where two calls overlapped on the row.
WritesKept ==
    \A u \in AccUser, k \in AccColumn :
        row[u][k] = meant[u][k] \/ <<u, TableOf(k)>> \in overlapped

\* The code a profile shows leads back to its user until it expires, whatever
\* RefreshQRCode fails or a saved copy brings back.
ShownCodeResolves ==
    \A u \in AccUser :
        LET q == row[u]["qrcode_url"] IN
        q \in Token => q \in qexpired \/ GetUserByQRCode(q) = {u}
=============================================================================
