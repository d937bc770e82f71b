----------------------------- MODULE GroupQRCode -----------------------------
(***************************************************************************)
(* The QR codes of one group: GetGroupQRCode, which returns, renews or     *)
(* creates a code, and RefreshGroupQRCode, which revokes the codes there   *)
(* are and creates a new one.  Their statements run one by one, without a  *)
(* transaction.  JoinGroupByQRCode itself is in GroupMembership.           *)
(***************************************************************************)
EXTENDS Naturals, FiniteSets, Sequences

CONSTANTS QToken,      \* tokens; every new code draws one
          NoToken,     \* no code
          QCall,       \* calls in flight
          MaxQCalls    \* bound: how many calls are made

ASSUME QAssumption == NoToken \notin QToken /\ MaxQCalls \in Nat

VARIABLES
    created,    \* the codes, in the order of created_at
    isActive,   \* codes whose is_active is true
    life,       \* where expire_at is: "fresh", "renew" (less than a day ahead), "past"
    dissolved,  \* the group is dissolved
    qpc,        \* where each call is
    seen,       \* the code it has read
    qmade,      \* calls made so far
    revoked     \* codes that a RefreshGroupQRCode has invalidated

qrVars == <<created, isActive, life, dissolved, qpc, seen, qmade, revoked>>

Codes == {created[i] : i \in DOMAIN created}
QPC   == {"idle", "get", "renew", "invalidate", "create"}

QRTypeOK ==
    /\ created \in Seq(QToken)
    /\ isActive \subseteq QToken
    /\ life \in [QToken -> {"fresh", "renew", "past"}]
    /\ dissolved \in BOOLEAN
    /\ qpc \in [QCall -> QPC]
    /\ seen \in [QCall -> QToken \cup {NoToken}]
    /\ qmade \in 0..MaxQCalls
    /\ revoked \subseteq QToken

QRInit ==
    /\ created = <<>>
    /\ isActive = {}
    /\ life = [q \in QToken |-> "fresh"]
    /\ dissolved = FALSE
    /\ qpc = [c \in QCall |-> "idle"]
    /\ seen = [c \in QCall |-> NoToken]
    /\ qmade = 0
    /\ revoked = {}

IsValid(q) == q \in isActive /\ life[q] # "past"

\* GetActiveByGroupID: the newest active code, if there is one.
GetActiveByGroupID ==
    LET active == {i \in DOMAIN created : created[i] \in isActive} IN
    {created[i] : i \in {j \in active : \A k \in active : k <= j}}

QRGoto(c, from, to) == qpc[c] = from /\ qpc' = [qpc EXCEPT ![c] = to]

QREnds(c) ==
    /\ qpc' = [qpc EXCEPT ![c] = "idle"]
    /\ seen' = [seen EXCEPT ![c] = NoToken]

QRBegins(c, to) ==
    /\ qmade < MaxQCalls
    /\ qmade' = qmade + 1
    /\ QRGoto(c, "idle", to)
    /\ UNCHANGED <<created, isActive, life, dissolved, seen, revoked>>

-----------------------------------------------------------------------------
\* GetGroupQRCode by a member, RefreshGroupQRCode by the owner or an admin.
GetGroupQRCode(c)     == QRBegins(c, "get")
RefreshGroupQRCode(c) == QRBegins(c, "invalidate")

\* The newest active code is returned if it is valid ...
ReturnCode(c) ==
    /\ qpc[c] = "get"
    /\ \E q \in GetActiveByGroupID : IsValid(q) /\ life[q] = "fresh"
    /\ QREnds(c)
    /\ UNCHANGED <<created, isActive, life, dissolved, qmade, revoked>>

\* ... or renewed first if it has less than a day to go; a call that finds none
\* that is valid creates one, and so does one whose query fails, whatever there is.
FindCode(c) ==
    /\ \/ \E q \in GetActiveByGroupID :
            /\ IsValid(q) /\ life[q] = "renew"
            /\ seen' = [seen EXCEPT ![c] = q]
            /\ QRGoto(c, "get", "renew")
       \/ QRGoto(c, "get", "create") /\ UNCHANGED seen
    /\ UNCHANGED <<created, isActive, life, dissolved, qmade, revoked>>

\* Mutant: the renewal saves the row as it was read, is_active included.
RenewSavesRow(c) ==
    /\ qpc[c] = "renew"
    /\ life' = [life EXCEPT ![seen[c]] = "fresh"]
    /\ isActive' = isActive \cup {seen[c]}
    /\ QREnds(c)
    /\ UNCHANGED <<created, dissolved, qmade, revoked>>

\* UpdateExpireAt writes expire_at only, of a code revoked in the meantime too.
UpdateExpireAt(c) ==
    /\ qpc[c] = "renew"
    /\ life' = [life EXCEPT ![seen[c]] = "fresh"]
    /\ QREnds(c)
    /\ UNCHANGED <<created, isActive, dissolved, qmade, revoked>>

\* InvalidateByGroupID.
Invalidate(c) ==
    /\ QRGoto(c, "invalidate", "create")
    /\ isActive' = {}
    /\ revoked' = revoked \cup Codes
    /\ UNCHANGED <<created, life, dissolved, seen, qmade>>

\* createNewQRCode inserts a code; the codes there are stay as they are.
CreateNewQRCode(c, q) ==
    /\ qpc[c] = "create"
    /\ q \notin Codes
    /\ created' = Append(created, q)
    /\ isActive' = isActive \cup {q}
    /\ QREnds(c)
    /\ UNCHANGED <<life, dissolved, qmade, revoked>>

\* The database fails; a failed renewal is only logged.
QRCallFails(c) ==
    /\ qpc[c] # "idle"
    /\ QREnds(c)
    /\ UNCHANGED <<created, isActive, life, dissolved, qmade, revoked>>

\* Time passes for code q; the group is dissolved (GroupMembership).
CodeAges(q) ==
    /\ q \in Codes /\ life[q] # "past"
    /\ life' = [life EXCEPT ![q] = IF life[q] = "fresh" THEN "renew" ELSE "past"]
    /\ UNCHANGED <<created, isActive, dissolved, qpc, seen, qmade, revoked>>

Dissolves ==
    /\ dissolved' = TRUE
    /\ UNCHANGED <<created, isActive, life, qpc, seen, qmade, revoked>>

QRNext ==
    \/ \E c \in QCall :
         \/ GetGroupQRCode(c) \/ RefreshGroupQRCode(c)
         \/ ReturnCode(c) \/ FindCode(c) \/ UpdateExpireAt(c) \/ Invalidate(c)
         \/ \E q \in QToken : CreateNewQRCode(c, q)
         \/ QRCallFails(c)
    \/ \E q \in QToken : CodeAges(q)
    \/ Dissolves

QRSpec == QRInit /\ [][QRNext]_qrVars

-----------------------------------------------------------------------------
\* GetGroupPreviewByQRCode: the codes that lead to the group.
GetGroupPreviewByQRCode == {q \in Codes : IsValid(q) /\ ~dissolved}

\* A code that RefreshGroupQRCode has revoked never leads to the group again,
\* whatever renewals were on their way, and the code a later GetGroupQRCode
\* hands out is not one of them.
RefreshRevokes ==
    /\ GetGroupPreviewByQRCode \cap revoked = {}
    /\ GetActiveByGroupID \cap revoked = {}
=============================================================================
