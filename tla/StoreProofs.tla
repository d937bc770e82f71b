----------------------------- MODULE StoreProofs -----------------------------
(***************************************************************************)
(* Proofs about the tables that calls read and write in separate steps:    *)
(* the files (FileStore), the account rows (AccountRows), the              *)
(* conversations (ConversationView), the read positions (ReadReceipt) and  *)
(* the friendships (Friendship), for any sets of rows, users and calls.    *)
(***************************************************************************)
EXTENDS FileStore, AccountRows, ConversationView, ReadReceipt, Friendship, TLAPS

-----------------------------------------------------------------------------
(* Files. *)

\* The strengthening: what a CompleteUpload relies on between StatObject and
\* Save, and what a DeleteFile relies on between the object and the row.
FileInv ==
    /\ FileTypeOK
    /\ \A f \in File : fstatus[f] # "none" <=> fowner[f] \in FileUser
    /\ \A f \in File : fstatus[f] = "none" => f \notin object
    /\ \A c \in FileCall : fpc[c] # "idle" => fstatus[ffile[c]] # "none"
    /\ \A f \in File : Completing(f) => f \in object \/ f \in excused
    /\ \A f \in File : fstatus[f] = "active" =>
                       f \in object \/ f \in excused \/ Deleting(f)
    /\ \A f \in object : Deleting(f) \/ fstatus[f] = "deleted" => f \in leftover

\* The first state: no row, no object, no call.
LEMMA FileInitInv == FileInit => FileInv
  BY FileAssumption
  DEF FileInit, FileInv, FileTypeOK, FilePC, Completing, Deleting

\* GenerateUploadToken adds a row for a file that no call is about.
LEMMA TokenStep ==
  ASSUME FileInv, NEW u \in FileUser, NEW f \in File, NEW type, NEW size,
         GenerateUploadToken(u, f, type, size)
  PROVE  FileInv'
  BY FileAssumption
  DEF FileInv, FileTypeOK, FilePC, GenerateUploadToken, Completing, Deleting, fcalls

\* The client's upload and the passing of expires_at.
LEMMA PutStep ==
  ASSUME FileInv, NEW f \in File, PutObject(f)
  PROVE  FileInv'
  BY DEF FileInv, FileTypeOK, FilePC, PutObject, Completing, Deleting, fcalls

\* An upload URL expires.
LEMMA ExpiresStep ==
  ASSUME FileInv, NEW f \in File, FileExpires(f)
  PROVE  FileInv'
  BY DEF FileInv, FileTypeOK, FilePC, FileExpires, Completing, Deleting, fcalls

\* A call begins: it has done nothing yet.
LEMMA BeginStep ==
  ASSUME FileInv, NEW c \in FileCall, NEW u \in FileUser, NEW f \in File,
         NEW to \in {"stat", "remove"}, FileBegins(c, u, f, to)
  PROVE  FileInv'
  BY FileAssumption
  DEF FileInv, FileTypeOK, FilePC, FileBegins, FileGoto, Visible, Completing, Deleting

\* The two halves of CompleteUpload.
LEMMA StatStep ==
  ASSUME FileInv, NEW c \in FileCall, StatObject(c)
  PROVE  FileInv'
  BY DEF FileInv, FileTypeOK, FilePC, StatObject, FileGoto, Completing, Deleting

\* CompleteUpload saves the row it has read.
LEMMA SaveStep ==
  ASSUME FileInv, NEW c \in FileCall, Save(c)
  PROVE  FileInv'
  BY FileAssumption
  DEF FileInv, FileTypeOK, FilePC, Save, FileEnds, Completing, Deleting

\* The steps of DeleteFile.
LEMMA RemoveStep ==
  ASSUME FileInv, NEW c \in FileCall, RemoveObject(c)
  PROVE  FileInv'
  BY DEF FileInv, FileTypeOK, FilePC, RemoveObject, FileGoto, Completing, Deleting

\* The object cannot be removed.
LEMMA RemoveFailsStep ==
  ASSUME FileInv, NEW c \in FileCall, RemoveObjectFails(c)
  PROVE  FileInv'
  BY DEF FileInv, FileTypeOK, FilePC, RemoveObjectFails, FileGoto, Completing, Deleting

\* DeleteFile deletes the row.
LEMMA DeleteRowStep ==
  ASSUME FileInv, NEW c \in FileCall, DeleteRow(c)
  PROVE  FileInv'
  BY FileAssumption
  DEF FileInv, FileTypeOK, FilePC, DeleteRow, FileEnds, Completing, Deleting

\* A call fails.
LEMMA FailsStep ==
  ASSUME FileInv, NEW c \in FileCall, FileCallFails(c)
  PROVE  FileInv'
  BY FileAssumption
  DEF FileInv, FileTypeOK, FilePC, FileCallFails, FileEnds, Completing, Deleting

\* FileInv is an invariant of the specification.
LEMMA FileInvariance == FileSpec => []FileInv
<1>1. FileInv /\ [FileNext]_fileVars => FileInv'
  <2> SUFFICES ASSUME FileInv, [FileNext]_fileVars PROVE FileInv'
    OBVIOUS
  <2>1. CASE UNCHANGED fileVars
    BY <2>1 DEF FileInv, FileTypeOK, FilePC, Completing, Deleting, fileVars
  <2>2. ASSUME NEW f \in File, PutObject(f) \/ FileExpires(f) PROVE FileInv'
    BY <2>2, PutStep, ExpiresStep
  <2>3. ASSUME NEW f \in File, NEW u \in FileUser,
               NEW type \in DOMAIN MaxSize \cup {"unspecified"}, NEW size \in FileSize,
               GenerateUploadToken(u, f, type, size)
        PROVE  FileInv'
    BY <2>3, TokenStep
  <2>4. ASSUME NEW f \in File, NEW u \in FileUser, NEW c \in FileCall,
               CompleteUpload(c, u, f) \/ DeleteFile(c, u, f)
        PROVE  FileInv'
    BY <2>4, BeginStep DEF CompleteUpload, DeleteFile
  <2>5. ASSUME NEW c \in FileCall, StatObject(c) \/ Save(c) PROVE FileInv'
    BY <2>5, StatStep, SaveStep
  <2>6. ASSUME NEW c \in FileCall,
               \/ RemoveObject(c) \/ RemoveObjectFails(c)
               \/ DeleteRow(c) \/ FileCallFails(c)
        PROVE  FileInv'
    BY <2>6, RemoveStep, RemoveFailsStep, DeleteRowStep, FailsStep
  <2> QED BY <2>1, <2>2, <2>3, <2>4, <2>5, <2>6 DEF FileNext
<1> QED BY FileInitInv, <1>1, PTL DEF FileSpec

\* The variables of the file service keep their types.
THEOREM FileTypeCorrect == FileSpec => []FileTypeOK
<1>1. FileInv => FileTypeOK
  BY DEF FileInv
<1> QED BY FileInvariance, <1>1, PTL

\* Whatever the order of uploads, completions, deletions and failures, the rows
\* of CompleteUpload and DeleteFile and the objects in MinIO match.
THEOREM RowsMatch == FileSpec => []RowMatchesObject
<1>1. FileInv => RowMatchesObject
  <2> SUFFICES ASSUME FileInv PROVE RowMatchesObject
    OBVIOUS
  <2>1. ASSUME NEW u \in FileUser, NEW f \in ListUserFiles(u) \cup GenerateDownloadURL(u)
        PROVE  f \in object \/ f \in excused \/ Deleting(f)
    BY <2>1 DEF FileInv, ListUserFiles, GenerateDownloadURL, GetFileInfo
  <2>2. ASSUME NEW f \in object \ leftover
        PROVE  \E u \in FileUser : f \in BatchGetFileInfo(u, object)
    <3>1. f \in File /\ fstatus[f] \notin {"none", "deleted"} /\ fowner[f] \in FileUser
      BY <2>2 DEF FileInv, FileTypeOK
    <3> QED BY <3>1 DEF BatchGetFileInfo
  <2> QED BY <2>1, <2>2 DEF RowMatchesObject
<1> QED BY FileInvariance, <1>1, PTL

-----------------------------------------------------------------------------
(* Account rows. *)

AccReq == [user : AccUser \cup {NoAccount}, column : AccColumn \cup {"none"},
           value : Value \cup Token \cup {NoValue}]

\* What a call in flight is about, by the operation it belongs to.
AccCallInv ==
    /\ AccTypeOK
    /\ areq \in [AccCall -> AccReq]
    /\ \A c \in AccCall : apc[c] # "idle" =>
         /\ areq[c].user \in AccUser
         /\ areq[c].value # NoValue
         /\ Registered(areq[c].user)
         /\ apc[c] \in {"check", "save"} =>
              /\ areq[c].column \in {"nickname", "avatar"} \cup Settings
              /\ copy[c]["nickname"] # NoValue
         /\ apc[c] = "url" => areq[c].column = "qrcode_url"
         /\ apc[c] \in {"available", "bind"} => areq[c].column \in Contact

\* A code that a profile shows, that a copy of the profile holds or that
\* RefreshQRCode is about to show, is a code of that user.
OwnCodes ==
    /\ \A u \in AccUser : row[u]["qrcode_url"] \in Token => qowner[row[u]["qrcode_url"]] = u
    /\ \A c \in AccCall :
         /\ apc[c] \in {"check", "save"} /\ copy[c]["qrcode_url"] \in Token =>
              qowner[copy[c]["qrcode_url"]] = areq[c].user
         /\ apc[c] = "url" => /\ areq[c].value \in Token
                              /\ qowner[areq[c].value] = areq[c].user

\* A copy agrees with its row until a write overlaps it.
CopiesAgree ==
    /\ WritesKept
    /\ \A c \in AccCall : apc[c] \in {"check", "save"} =>
         \/ <<areq[c].user, TableOf(areq[c].column)>> \in overlapped
         \/ \A j \in TableOf(areq[c].column) : copy[c][j] = row[areq[c].user][j]

AccInv == AccCallInv /\ OwnCodes /\ CopiesAgree

\* The steps that write no row: a call begins, passes a check or fails.
LEMMA AccQuietStep ==
  ASSUME AccInv, NEW c \in AccCall, AccCallInv', row' = row, meant' = meant,
         overlapped' = overlapped, qowner' = qowner,
         \A d \in AccCall \ {c} : apc'[d] = apc[d] /\ areq'[d] = areq[d] /\ copy'[d] = copy[d],
         \/ apc'[c] \in {"idle", "available", "bind"}
         \/ apc'[c] \in {"check", "save"} /\ copy'[c] = row[areq'[c].user]
         \/ /\ apc[c] = "check" /\ apc'[c] = "save"
            /\ areq'[c] = areq[c] /\ copy'[c] = copy[c]
  PROVE  AccInv'
<1>1. OwnCodes'
  BY DEF AccInv, OwnCodes, AccCallInv
<1>2. CopiesAgree'
  BY DEF AccInv, CopiesAgree, WritesKept, AccCallInv
<1> QED BY <1>1, <1>2 DEF AccInv

\* The four ways a call begins.
LEMMA BeginsCall ==
  ASSUME AccInv, NEW c \in AccCall, NEW u \in AccUser, NEW k \in AccColumn,
         NEW v \in Value \cup Token, NEW to \in {"check", "save", "url", "available"},
         AccBegins(c, u, k, v, to), qowner' \in [Token -> AccUser \cup {NoAccount}],
         qexpired' = qexpired,
         to \in {"check", "save"} => k \in {"nickname", "avatar"} \cup Settings,
         to = "url" => k = "qrcode_url",
         to = "available" => k \in Contact
  PROVE  /\ AccCallInv'
         /\ apc'[c] = to /\ areq'[c] = [user |-> u, column |-> k, value |-> v]
         /\ copy'[c] = IF to \in {"check", "save"} THEN row[u] ELSE Blank
         /\ \A d \in AccCall \ {c} :
              apc'[d] = apc[d] /\ areq'[d] = areq[d] /\ copy'[d] = copy[d]
<1>1. Blank \in [AccColumn -> Value \cup Token \cup {NoValue}]
  BY DEF Blank
<1>2. /\ apc'[c] = to /\ areq'[c] = [user |-> u, column |-> k, value |-> v]
      /\ copy'[c] = IF to \in {"check", "save"} THEN row[u] ELSE Blank
      /\ \A d \in AccCall \ {c} :
           apc'[d] = apc[d] /\ areq'[d] = areq[d] /\ copy'[d] = copy[d]
  BY DEF AccInv, AccCallInv, AccTypeOK, AccBegins, AccGoto
<1>3. AccTypeOK'
  BY <1>1, AccAssumption DEF AccInv, AccCallInv, AccTypeOK, AccBegins, AccGoto, AccPC
<1>4. areq' \in [AccCall -> AccReq]
  BY DEF AccInv, AccCallInv, AccBegins, AccReq
<1>5. v # NoValue
  BY AccAssumption
<1>6. row' = row
  BY DEF AccBegins
<1> QED BY <1>2, <1>3, <1>4, <1>5, <1>6, AccAssumption
        DEF AccInv, AccCallInv, AccBegins, Registered

\* A call that ends is idle, and the others are where they were.
LEMMA EndsCall ==
  ASSUME AccInv, NEW c \in AccCall, AccEnds(c)
  PROVE  /\ apc' \in [AccCall -> AccPC] /\ areq' \in [AccCall -> AccReq]
         /\ copy' \in [AccCall -> [AccColumn -> Value \cup Token \cup {NoValue}]]
         /\ apc'[c] = "idle" /\ amade' = amade
         /\ \A d \in AccCall \ {c} :
              apc'[d] = apc[d] /\ areq'[d] = areq[d] /\ copy'[d] = copy[d]
<1>1. Blank \in [AccColumn -> Value \cup Token \cup {NoValue}]
  BY DEF Blank
<1>2. NoAsk \in AccReq
  BY DEF NoAsk, AccReq
<1> QED BY <1>1, <1>2 DEF AccInv, AccCallInv, AccTypeOK, AccEnds, AccPC

\* A call writes columns of its table and ends.  The code it may write into
\* qrcode_url is one of the user, and the columns it was not asked to write are
\* as in the row or the row is overlapped.
LEMMA WriteStep ==
  ASSUME AccInv, NEW c \in AccCall, apc[c] # "idle", NEW new,
         Writes(c, new), UNCHANGED qrcodes,
         areq[c].column \in DOMAIN new, DOMAIN new \subseteq TableOf(areq[c].column),
         \A j \in DOMAIN new : new[j] \in Value \cup Token \cup {NoValue},
         new[areq[c].column] = areq[c].value,
         "nickname" \in DOMAIN new => new["nickname"] # NoValue,
         "qrcode_url" \in DOMAIN new /\ new["qrcode_url"] \in Token =>
             qowner[new["qrcode_url"]] = areq[c].user,
         \/ <<areq[c].user, TableOf(areq[c].column)>> \in overlapped
         \/ \A j \in DOMAIN new \ {areq[c].column} : new[j] = row[areq[c].user][j]
  PROVE  AccInv'
<1> DEFINE u == areq[c].user
           k == areq[c].column
<1>1. u \in AccUser /\ k \in AccColumn /\ areq[c].value \in Value \cup Token /\ TableOf(k) \subseteq AccColumn
  BY DEF AccInv, AccCallInv, AccReq, TableOf, AccColumn, Profile, Settings, Contact
<1>2. /\ \A w \in AccUser \ {u} : row'[w] = row[w]
      /\ \A j \in AccColumn : row'[u][j] = IF j \in DOMAIN new THEN new[j] ELSE row[u][j]
      /\ row' \in [AccUser -> [AccColumn -> Value \cup Token \cup {NoValue}]]
  BY <1>1 DEF AccInv, AccCallInv, AccTypeOK, Writes
<1>3. /\ meant' \in [AccUser -> [AccColumn -> Value \cup Token \cup {NoValue}]]
      /\ meant'[u][k] = areq[c].value
      /\ \A w \in AccUser, j \in AccColumn : <<w, j>> # <<u, k>> => meant'[w][j] = meant[w][j]
  BY <1>1 DEF AccInv, AccCallInv, AccTypeOK, Writes
<1>4. AccEnds(c)
  BY DEF Writes
<1>5. /\ overlapped \subseteq overlapped'
      /\ Held(c, u, k) => <<u, TableOf(k)>> \in overlapped'
  BY DEF Writes
<1>6. \A w \in AccUser : Registered(w) => Registered(w)'
  BY <1>2, <1>1 DEF Registered, AccColumn, Profile
<1>7. AccCallInv'
  <2>1. AccTypeOK'
    BY <1>2, <1>3, <1>4, EndsCall DEF AccInv, AccCallInv, AccTypeOK, qrcodes
  <2>2. /\ areq' \in [AccCall -> AccReq] /\ apc'[c] = "idle"
        /\ \A d \in AccCall \ {c} :
             apc'[d] = apc[d] /\ areq'[d] = areq[d] /\ copy'[d] = copy[d]
    BY <1>4, EndsCall
  <2> QED BY <2>1, <2>2, <1>6 DEF AccInv, AccCallInv
<1>8. OwnCodes'
  <2>1. qowner' = qowner
    BY DEF qrcodes
  <2>2. \A w \in AccUser : row'[w]["qrcode_url"] \in Token => qowner[row'[w]["qrcode_url"]] = w
    BY <1>1, <1>2 DEF AccInv, OwnCodes, AccColumn, Profile
  <2> QED BY <2>1, <2>2, <1>4, EndsCall DEF AccInv, OwnCodes
<1>9. CopiesAgree'
  <2>1. ASSUME NEW w \in AccUser, NEW j \in AccColumn
        PROVE  row'[w][j] = meant'[w][j] \/ <<w, TableOf(j)>> \in overlapped'
    <3>1. CASE w # u
      BY <2>1, <3>1, <1>2, <1>3, <1>5 DEF AccInv, CopiesAgree, WritesKept
    <3>2. CASE w = u /\ j = k
      BY <2>1, <3>2, <1>1, <1>2, <1>3
    <3>3. CASE w = u /\ j # k /\ j \notin DOMAIN new
      BY <2>1, <3>3, <1>2, <1>3, <1>5 DEF AccInv, CopiesAgree, WritesKept
    <3>4. CASE w = u /\ j # k /\ j \in DOMAIN new
      <4>1. TableOf(j) = TableOf(k)
        BY <3>4, <1>1 DEF TableOf, Profile, Settings, Contact, AccColumn
      <4>2. <<u, TableOf(k)>> \in overlapped \/ row'[u][j] = row[u][j]
        BY <1>2, <2>1, <3>4
      <4> QED BY <2>1, <3>4, <4>1, <4>2, <1>3, <1>5 DEF AccInv, CopiesAgree, WritesKept
    <3> QED BY <3>1, <3>2, <3>3, <3>4
  <2>2. ASSUME NEW d \in AccCall, apc'[d] \in {"check", "save"}
        PROVE  \/ <<areq'[d].user, TableOf(areq'[d].column)>> \in overlapped'
               \/ \A j \in TableOf(areq'[d].column) : copy'[d][j] = row'[areq'[d].user][j]
    <3>1. d # c /\ apc[d] = apc'[d] /\ areq'[d] = areq[d] /\ copy'[d] = copy[d]
      BY <2>2, <1>4, EndsCall
    <3>2. areq[d].user \in AccUser /\ areq[d].column \in AccColumn
      BY <2>2, <3>1 DEF AccInv, AccCallInv, Settings, AccColumn, Profile
    <3>3. CASE areq[d].user = u /\ areq[d].column \in TableOf(k)
      <4>1. Held(c, u, k)
        BY <2>2, <3>1, <3>3 DEF Held
      <4>2. TableOf(areq[d].column) = TableOf(k)
        BY <3>3, <1>1 DEF TableOf, Profile, Settings, Contact, AccColumn
      <4> QED BY <3>1, <3>3, <4>1, <4>2, <1>5
    <3>4. CASE areq[d].user = u /\ areq[d].column \notin TableOf(k)
      <4>1. TableOf(areq[d].column) \cap TableOf(k) = {} /\ TableOf(areq[d].column) \subseteq AccColumn
        BY <3>4, <3>2, <1>1 DEF TableOf, Profile, Settings, Contact, AccColumn
      <4>2. \A j \in TableOf(areq[d].column) : row'[u][j] = row[u][j]
        BY <4>1, <1>2
      <4> QED BY <2>2, <3>1, <3>4, <4>2, <1>5 DEF AccInv, CopiesAgree
    <3>5. CASE areq[d].user # u
      <4>1. row'[areq[d].user] = row[areq[d].user]
        BY <3>2, <3>5, <1>2
      <4>2. \/ <<areq[d].user, TableOf(areq[d].column)>> \in overlapped
            \/ \A j \in TableOf(areq[d].column) : copy[d][j] = row[areq[d].user][j]
        BY <2>2, <3>1 DEF AccInv, CopiesAgree
      <4>3. \/ <<areq[d].user, TableOf(areq[d].column)>> \in overlapped'
            \/ \A j \in TableOf(areq[d].column) : copy[d][j] = row'[areq[d].user][j]
        BY <4>1, <4>2, <1>5
      <4> QED BY <4>3, <3>1
    <3> QED BY <3>3, <3>4, <3>5
  <2> QED BY <2>1, <2>2 DEF CopiesAgree, WritesKept
<1> QED BY <1>7, <1>8, <1>9 DEF AccInv

\* Registration: no call is about the user yet, and the code is nobody's.
LEMMA InitUserDataStep ==
  ASSUME AccInv, NEW u \in AccUser, NEW n \in Value, NEW q \in Token,
         NEW phone \in Value \cup {NoValue}, NEW email \in Value \cup {NoValue},
         InitUserData(u, n, q, phone, email)
  PROVE  AccInv'
<1> DEFINE data == [nickname |-> n, avatar |-> NoValue, qrcode_url |-> q,
                    friend_verify_required |-> Default, language |-> Default,
                    phone |-> phone, email |-> email]
<1>1. data \in [AccColumn -> Value \cup Token \cup {NoValue}]
  BY AccAssumption DEF AccColumn, Profile, Settings, Contact
<1>2. data["nickname"] = n /\ data["qrcode_url"] = q
  OBVIOUS
<1>3. /\ row' \in [AccUser -> [AccColumn -> Value \cup Token \cup {NoValue}]]
      /\ row'[u] = data /\ \A w \in AccUser \ {u} : row'[w] = row[w]
      /\ meant' \in [AccUser -> [AccColumn -> Value \cup Token \cup {NoValue}]]
      /\ meant'[u] = data /\ \A w \in AccUser \ {u} : meant'[w] = meant[w]
  BY <1>1 DEF AccInv, AccCallInv, AccTypeOK, InitUserData
<1> HIDE DEF data
<1>4. /\ qowner' \in [Token -> AccUser \cup {NoAccount}] /\ qowner'[q] = u
      /\ \A p \in Token : qowner[p] # NoAccount => qowner'[p] = qowner[p]
  BY DEF AccInv, AccCallInv, AccTypeOK, InitUserData
<1>5. UNCHANGED <<qexpired, apc, areq, copy, amade, overlapped>> /\ ~Registered(u)
  BY DEF InitUserData
<1>6. \A w \in AccUser : Registered(w) => Registered(w)'
  BY <1>2, <1>3, AccAssumption DEF Registered
<1>7. \A c \in AccCall : apc[c] # "idle" => areq[c].user \in AccUser \ {u}
  BY <1>5 DEF AccInv, AccCallInv
<1>8. AccCallInv'
  <2>1. AccTypeOK'
    BY <1>3, <1>4, <1>5 DEF AccInv, AccCallInv, AccTypeOK
  <2> QED BY <2>1, <1>5, <1>6 DEF AccInv, AccCallInv
<1>9. OwnCodes'
  <2>1. \A w \in AccUser, p \in Token : qowner[p] = w => qowner'[p] = w
    BY <1>4, AccAssumption
  <2>2. ASSUME NEW w \in AccUser, row'[w]["qrcode_url"] \in Token
        PROVE  qowner'[row'[w]["qrcode_url"]] = w
    <3>1. CASE w = u
      BY <3>1, <1>2, <1>3, <1>4
    <3>2. CASE w # u
      <4>1. row'[w]["qrcode_url"] = row[w]["qrcode_url"]
        BY <3>2, <1>3
      <4> QED BY <2>2, <4>1, <2>1 DEF AccInv, OwnCodes
    <3> QED BY <3>1, <3>2
  <2>3. \A c \in AccCall : apc[c] # "idle" => areq[c].user \in AccUser
    BY <1>7
  <2> QED BY <2>1, <2>2, <2>3, <1>5 DEF AccInv, OwnCodes
<1>10. CopiesAgree'
  <2>1. WritesKept'
    BY <1>3, <1>5 DEF AccInv, CopiesAgree, WritesKept
  <2>2. \A c \in AccCall : apc[c] # "idle" => row'[areq[c].user] = row[areq[c].user]
    BY <1>3, <1>7
  <2> QED BY <2>1, <2>2, <1>5 DEF AccInv, CopiesAgree
<1> QED BY <1>8, <1>9, <1>10 DEF AccInv

\* RefreshQRCode stores a code that was nobody's.
LEMMA RefreshQRCodeStep ==
  ASSUME AccInv, NEW c \in AccCall, NEW u \in AccUser, NEW q \in Token, RefreshQRCode(c, u, q)
  PROVE  AccInv'
<1>1. /\ qowner' \in [Token -> AccUser \cup {NoAccount}] /\ qowner'[q] = u
      /\ \A p \in Token : qowner[p] # NoAccount => qowner'[p] = qowner[p]
  BY DEF AccInv, AccCallInv, AccTypeOK, RefreshQRCode
<1>2. AccBegins(c, u, "qrcode_url", q, "url") /\ qexpired' = qexpired
  BY DEF RefreshQRCode
<1>3. /\ AccCallInv'
      /\ apc'[c] = "url" /\ areq'[c] = [user |-> u, column |-> "qrcode_url", value |-> q]
      /\ \A d \in AccCall \ {c} :
           apc'[d] = apc[d] /\ areq'[d] = areq[d] /\ copy'[d] = copy[d]
  <2>1. "qrcode_url" \in AccColumn
    BY DEF AccColumn, Profile
  <2> QED BY <1>1, <1>2, <2>1, BeginsCall
<1>4. row' = row /\ meant' = meant /\ overlapped' = overlapped
  BY <1>2 DEF AccBegins
<1>5. OwnCodes'
  <2>1. \A w \in AccUser, p \in Token : qowner[p] = w => qowner'[p] = w
    BY <1>1, AccAssumption
  <2>2. \A w \in AccUser : row[w]["qrcode_url"] \in Token => qowner'[row[w]["qrcode_url"]] = w
    BY <2>1 DEF AccInv, OwnCodes
  <2>3. \A d \in AccCall : apc[d] # "idle" => areq[d].user \in AccUser
    BY DEF AccInv, AccCallInv
  <2> QED BY <2>1, <2>2, <2>3, <1>1, <1>3, <1>4 DEF AccInv, OwnCodes
<1>6. CopiesAgree'
  BY <1>3, <1>4 DEF AccInv, CopiesAgree, WritesKept
<1> QED BY <1>3, <1>5, <1>6 DEF AccInv

\* A call that reads the row, or none, and writes nothing yet.
LEMMA BeginsQuietly ==
  ASSUME AccInv, NEW c \in AccCall, NEW u \in AccUser, NEW k \in AccColumn, NEW v \in Value,
         NEW to \in {"check", "save", "available"}, AccBegins(c, u, k, v, to), UNCHANGED qrcodes,
         to \in {"check", "save"} => k \in {"nickname", "avatar"} \cup Settings,
         to = "available" => k \in Contact
  PROVE  AccInv'
<1>1. /\ qowner' = qowner /\ qexpired' = qexpired
      /\ qowner' \in [Token -> AccUser \cup {NoAccount}]
  BY DEF qrcodes, AccInv, AccCallInv, AccTypeOK
<1>2. /\ AccCallInv'
      /\ apc'[c] = to /\ areq'[c] = [user |-> u, column |-> k, value |-> v]
      /\ copy'[c] = IF to \in {"check", "save"} THEN row[u] ELSE Blank
      /\ \A d \in AccCall \ {c} :
           apc'[d] = apc[d] /\ areq'[d] = areq[d] /\ copy'[d] = copy[d]
  BY <1>1, BeginsCall
<1>3. row' = row /\ meant' = meant /\ overlapped' = overlapped
  BY DEF AccBegins
<1> QED BY <1>1, <1>2, <1>3, AccQuietStep

\* A check passed leaves the call where it was but for its place.
LEMMA GoesOn ==
  ASSUME AccInv, NEW c \in AccCall, NEW from, NEW to, AccGoto(c, from, to),
         <<from, to>> \in {<<"check", "save">>, <<"available", "bind">>},
         UNCHANGED <<row, qrcodes, areq, copy, amade, meant, overlapped>>
  PROVE  AccInv'
<1>1. /\ apc[c] = from /\ apc'[c] = to /\ apc' \in [AccCall -> AccPC]
      /\ \A d \in AccCall \ {c} : apc'[d] = apc[d]
  BY DEF AccGoto, AccInv, AccCallInv, AccTypeOK, AccPC
<1>2. AccCallInv'
  BY <1>1 DEF AccInv, AccCallInv, AccTypeOK, Registered, qrcodes
<1> QED BY <1>1, <1>2, AccQuietStep DEF qrcodes

\* The whole row is saved.
LEMMA SaveRowStep ==
  ASSUME AccInv, NEW c \in AccCall, SaveRow(c)
  PROVE  AccInv'
<1> DEFINE T == TableOf(areq[c].column)
           new == [j \in T |-> IF j = areq[c].column THEN areq[c].value ELSE copy[c][j]]
<1>1. apc[c] = "save" /\ Writes(c, new) /\ UNCHANGED qrcodes
  BY DEF SaveRow
<1>2. /\ areq[c].column \in {"nickname", "avatar"} \cup Settings
      /\ areq[c].value \in Value \cup Token
      /\ copy[c] \in [AccColumn -> Value \cup Token \cup {NoValue}]
      /\ copy[c]["nickname"] # NoValue
  BY <1>1 DEF AccInv, AccCallInv, AccTypeOK, AccReq
<1>3. T \subseteq AccColumn /\ areq[c].column \in T
  BY <1>2 DEF TableOf, AccColumn, Profile, Settings, Contact
<1>4. \A j \in T : new[j] \in Value \cup Token \cup {NoValue}
  BY <1>2, <1>3
<1>5. "nickname" \in T => new["nickname"] # NoValue
  BY <1>2, AccAssumption
<1>6. "qrcode_url" \in T /\ new["qrcode_url"] \in Token => qowner[new["qrcode_url"]] = areq[c].user
  BY <1>1, <1>2 DEF AccInv, OwnCodes, Settings
<1>7. \/ <<areq[c].user, T>> \in overlapped
      \/ \A j \in T \ {areq[c].column} : new[j] = row[areq[c].user][j]
  BY <1>1 DEF AccInv, CopiesAgree
<1>8. DOMAIN new = T /\ new[areq[c].column] = areq[c].value
  BY <1>3
<1> HIDE DEF new
<1> QED BY <1>1, <1>3, <1>4, <1>5, <1>6, <1>7, <1>8, WriteStep

\* One column is written.
LEMMA ColumnStep ==
  ASSUME AccInv, NEW c \in AccCall, UpdateQRCode(c) \/ UpdateContactColumn(c)
  PROVE  AccInv'
<1>1. CASE UpdateQRCode(c)
  <2> DEFINE new == [qrcode_url |-> areq[c].value]
  <2>1. apc[c] = "url" /\ Writes(c, new) /\ UNCHANGED qrcodes
    BY <1>1 DEF UpdateQRCode
  <2>2. /\ areq[c].column = "qrcode_url" /\ areq[c].value \in Token
        /\ qowner[areq[c].value] = areq[c].user
    BY <2>1 DEF AccInv, AccCallInv, OwnCodes
  <2>3. DOMAIN new = {"qrcode_url"} /\ new["qrcode_url"] = areq[c].value
    OBVIOUS
  <2>4. "qrcode_url" \in TableOf("qrcode_url")
    BY DEF TableOf, Profile
  <2> HIDE DEF new
  <2> QED BY <2>1, <2>2, <2>3, <2>4, WriteStep
<1>2. CASE UpdateContactColumn(c)
  <2> DEFINE new == [j \in {areq[c].column} |-> areq[c].value]
  <2>1. apc[c] = "bind" /\ Writes(c, new) /\ UNCHANGED qrcodes
    BY <1>2 DEF UpdateContactColumn
  <2>2. areq[c].column \in Contact /\ areq[c].value \in Value \cup Token
    BY <2>1 DEF AccInv, AccCallInv, AccReq
  <2>3. DOMAIN new = {areq[c].column} /\ new[areq[c].column] = areq[c].value
    OBVIOUS
  <2>4. areq[c].column \in TableOf(areq[c].column) /\ areq[c].column \notin {"nickname", "qrcode_url"}
    BY <2>2 DEF TableOf, Contact, Profile, Settings
  <2> HIDE DEF new
  <2> QED BY <2>1, <2>2, <2>3, <2>4, WriteStep
<1> QED BY <1>1, <1>2

\* A call that fails ends.
LEMMA FailStep ==
  ASSUME AccInv, NEW c \in AccCall, AccCallFails(c)
  PROVE  AccInv'
<1>1. /\ AccEnds(c) /\ row' = row /\ meant' = meant /\ overlapped' = overlapped
      /\ qowner' = qowner /\ qexpired' = qexpired
  BY DEF AccCallFails, qrcodes
<1>2. AccCallInv'
  BY <1>1, EndsCall DEF AccInv, AccCallInv, AccTypeOK, Registered
<1> QED BY <1>1, <1>2, EndsCall, AccQuietStep

\* What the user service keeps of its rows is an invariant of AccSpec.
LEMMA AccInvariance == AccSpec => []AccInv
<1>1. AccInit => AccInv
  <2> SUFFICES ASSUME AccInit PROVE AccInv
    OBVIOUS
  <2>1. AccCallInv
    BY AccAssumption DEF AccInit, AccCallInv, AccTypeOK, AccReq, NoAsk, Blank, AccPC
  <2>2. OwnCodes
    BY AccAssumption DEF AccInit, OwnCodes, Blank, AccColumn, Profile
  <2>3. CopiesAgree
    BY DEF AccInit, CopiesAgree, WritesKept
  <2> QED BY <2>1, <2>2, <2>3 DEF AccInv
<1>2. AccInv /\ [AccNext]_accVars => AccInv'
  <2> SUFFICES ASSUME AccInv, [AccNext]_accVars PROVE AccInv'
    OBVIOUS
  <2>1. CASE UNCHANGED accVars
    BY <2>1 DEF accVars, AccInv, AccCallInv, AccTypeOK, OwnCodes, CopiesAgree, WritesKept, Registered
  <2>2. ASSUME NEW u \in AccUser, NEW n \in Value, NEW q \in Token,
               NEW phone \in Value \cup {NoValue}, NEW email \in Value \cup {NoValue},
               InitUserData(u, n, q, phone, email)
        PROVE  AccInv'
    BY <2>2, InitUserDataStep
  <2>3. ASSUME NEW u \in AccUser, NEW c \in AccCall, NEW k \in AccColumn, NEW v \in Value,
               \/ UpdateProfile(c, u, k, v) \/ UpdateSettings(c, u, k, v)
               \/ BindContact(c, u, k, v) \/ ChangeContact(c, u, k, v)
        PROVE  AccInv'
    <3>1. CASE UpdateProfile(c, u, k, v)
      <4>1. CASE k = "nickname"
        BY <2>3, <3>1, <4>1, BeginsQuietly DEF UpdateProfile
      <4>2. CASE k = "avatar"
        BY <2>3, <3>1, <4>2, BeginsQuietly DEF UpdateProfile
      <4> QED BY <3>1, <4>1, <4>2 DEF UpdateProfile
    <3>2. CASE UpdateSettings(c, u, k, v)
      BY <2>3, <3>2, BeginsQuietly DEF UpdateSettings
    <3>3. CASE BindContact(c, u, k, v)
      BY <2>3, <3>3, BeginsQuietly DEF BindContact
    <3>4. CASE ChangeContact(c, u, k, v)
      BY <2>3, <3>4, BeginsQuietly DEF ChangeContact
    <3> QED BY <2>3, <3>1, <3>2, <3>3, <3>4
  <2>4. ASSUME NEW u \in AccUser, NEW c \in AccCall, NEW q \in Token, RefreshQRCode(c, u, q)
        PROVE  AccInv'
    BY <2>4, RefreshQRCodeStep
  <2>5. ASSUME NEW q \in Token, QRCodeExpires(q)
        PROVE  AccInv'
    BY <2>5 DEF QRCodeExpires, AccInv, AccCallInv, AccTypeOK, OwnCodes, CopiesAgree, WritesKept, Registered
  <2>6. ASSUME NEW c \in AccCall, CheckNicknameExists(c) \/ EnsureAvailable(c)
        PROVE  AccInv'
    BY <2>6, GoesOn DEF CheckNicknameExists, EnsureAvailable
  <2>7. ASSUME NEW c \in AccCall, SaveRow(c)
        PROVE  AccInv'
    BY <2>7, SaveRowStep
  <2>8. ASSUME NEW c \in AccCall, UpdateQRCode(c) \/ UpdateContactColumn(c)
        PROVE  AccInv'
    BY <2>8, ColumnStep
  <2>9. ASSUME NEW c \in AccCall, AccCallFails(c)
        PROVE  AccInv'
    BY <2>9, FailStep
  <2> QED BY <2>1, <2>2, <2>3, <2>4, <2>5, <2>6, <2>7, <2>8, <2>9 DEF AccNext
<1> QED BY <1>1, <1>2, PTL DEF AccSpec

\* Every variable of AccountRows keeps its type.
THEOREM AccTypeCorrect == AccSpec => []AccTypeOK
<1>1. AccInv => AccTypeOK BY DEF AccInv, AccCallInv
<1> QED BY <1>1, AccInvariance, PTL

\* A column of a profile, of the settings or of the contacts keeps what a request
\* last gave it unless two calls overlapped on its row.
THEOREM UpdatesKept == AccSpec => []WritesKept
<1>1. AccInv => WritesKept
  BY DEF AccInv, CopiesAgree
<1> QED BY <1>1, AccInvariance, PTL

\* The code a profile shows leads back to its user until it expires.
THEOREM CodesResolve == AccSpec => []ShownCodeResolves
<1>1. AccInv => ShownCodeResolves
  BY DEF AccInv, OwnCodes, ShownCodeResolves, GetUserByQRCode
<1> QED BY <1>1, AccInvariance, PTL
-----------------------------------------------------------------------------
(* Conversations. *)

ConvReq == [conv : ConvId \cup {NoConv}, column : Column \cup {"none"}, value : 0..Unknown]

\* A setter's call is about an id that was drawn, and an id not drawn yet has no
\* row and nothing the devices could have missed.
ConvCallInv ==
    /\ ConvTypeOK
    /\ creq \in [ConvCall -> ConvReq]
    /\ \A c \in ConvCall : cpc[c] = "publish" =>
         creq[c].conv \in drawn /\ creq[c].column \in Column
    /\ \A i \in ConvId \ drawn : target[i] = NoConv /\ view[i] = setting[i]

\* What a call is about to announce is what the row holds, or asks the devices to
\* read it, unless another call overlapped it.
Announces ==
    \A c \in ConvCall : cpc[c] = "publish" /\ target[creq[c].conv] # NoConv =>
         \/ creq[c].value \in {setting[creq[c].conv][creq[c].column], Unknown}
         \/ <<creq[c].conv, creq[c].column>> \in blurred

ConvInv == ConvCallInv /\ Announces /\ ViewAgrees

\* The upsert: a new row under a new id, or none.
LEMMA UpsertStep ==
  ASSUME ConvInv, NEW t \in Target, NEW i \in ConvId, CreateOrUpdateConversation(t, i)
  PROVE  ConvInv'
<1>1. /\ i \notin drawn /\ drawn' = drawn \cup {i}
      /\ UNCHANGED <<setting, view, cpc, creq, cmade, blurred>>
  BY DEF CreateOrUpdateConversation, UpsertConversation
<1>2. /\ target' \in [ConvId -> Target \cup {NoConv}]
      /\ \A j \in ConvId \ {i} : target'[j] = target[j]
      /\ target'[i] \in {t, NoConv}
      /\ target'[i] = t => t = NoConv \/ \A j \in ConvId : target[j] # t
  BY <1>1 DEF CreateOrUpdateConversation, UpsertConversation, RowOf, ConvInv, ConvCallInv, ConvTypeOK
<1>3. ConvCallInv'
  BY <1>1, <1>2 DEF ConvInv, ConvCallInv, ConvTypeOK
<1>4. Announces'
  <2>1. \A d \in ConvCall : cpc[d] = "publish" => creq[d].conv \in ConvId \ {i}
    BY <1>1 DEF ConvInv, ConvCallInv, ConvTypeOK
  <2> QED BY <1>1, <1>2, <2>1 DEF ConvInv, Announces, Unknown
<1>5. ViewAgrees'
  BY <1>1, <1>2 DEF ConvInv, ConvCallInv, ViewAgrees
<1> QED BY <1>3, <1>4, <1>5 DEF ConvInv

\* A row is deleted.
LEMMA DeleteStep ==
  ASSUME ConvInv, NEW i \in ConvId, DeleteConversation(i)
  PROVE  ConvInv'
<1>1. UNCHANGED <<drawn, setting, view, cpc, creq, cmade, blurred>>
  BY DEF DeleteConversation
<1>2. /\ target' \in [ConvId -> Target \cup {NoConv}] /\ target'[i] = NoConv
      /\ \A j \in ConvId \ {i} : target'[j] = target[j]
  BY DEF DeleteConversation, ConvInv, ConvCallInv, ConvTypeOK
<1>3. ConvCallInv'
  BY <1>1, <1>2 DEF ConvInv, ConvCallInv, ConvTypeOK
<1>4. Announces'
  BY <1>1, <1>2 DEF ConvInv, ConvCallInv, ConvTypeOK, Announces
<1>5. ViewAgrees'
  BY <1>1, <1>2 DEF ConvInv, ViewAgrees
<1> QED BY <1>3, <1>4, <1>5 DEF ConvInv

\* A setter writes a column and has yet to announce it.
LEMMA UpdateStep ==
  ASSUME ConvInv, NEW c \in ConvCall, NEW i \in ConvId, NEW k \in Column,
         NEW written \in 0..MaxValue, NEW announced \in {written, Unknown},
         Update(c, i, k, written, announced)
  PROVE  ConvInv'
<1>1. i \in drawn /\ UNCHANGED <<target, drawn, view>>
  BY DEF Update
<1>2. announced \in 0..Unknown /\ MaxConvCalls \in Nat
  BY ConvAssumption DEF Unknown
<1>3. cmade' \in 0..MaxConvCalls
  BY <1>2 DEF Update, ConvInv, ConvCallInv, ConvTypeOK
<1>4. /\ cpc' \in [ConvCall -> {"idle", "publish"}] /\ creq' \in [ConvCall -> ConvReq]
      /\ cpc'[c] = "publish" /\ creq'[c] = [conv |-> i, column |-> k, value |-> announced]
      /\ \A d \in ConvCall \ {c} : cpc'[d] = cpc[d] /\ creq'[d] = creq[d]
  BY <1>2 DEF Update, ConvInv, ConvCallInv, ConvTypeOK, ConvReq
<1>5. /\ setting' \in [ConvId -> Setting]
      /\ \A j \in ConvId, l \in Column : <<j, l>> # <<i, k>> => setting'[j][l] = setting[j][l]
      /\ \A j \in ConvId \ {i} : setting'[j] = setting[j]
      /\ target[i] # NoConv => setting'[i][k] = written
  BY DEF Update, ConvInv, ConvCallInv, ConvTypeOK, Setting
<1>6. /\ blurred' \subseteq ConvId \X Column /\ blurred \subseteq blurred'
      /\ Overlaps(c, i, k) => <<i, k>> \in blurred'
  BY DEF Update, ConvInv, ConvCallInv, ConvTypeOK
<1>7. ConvCallInv'
  <2>1. ConvTypeOK'
    BY <1>1, <1>3, <1>4, <1>5, <1>6 DEF ConvInv, ConvCallInv, ConvTypeOK
  <2> QED BY <2>1, <1>1, <1>4, <1>5 DEF ConvInv, ConvCallInv
<1>8. Announces'
  <2> SUFFICES ASSUME NEW d \in ConvCall, cpc'[d] = "publish", target[creq'[d].conv] # NoConv
               PROVE  \/ creq'[d].value \in {setting'[creq'[d].conv][creq'[d].column], Unknown}
                      \/ <<creq'[d].conv, creq'[d].column>> \in blurred'
    BY <1>1 DEF Announces, Unknown
  <2>1. CASE d = c
    BY <2>1, <1>4, <1>5
  <2>2. CASE d # c /\ creq[d].conv = i /\ creq[d].column = k
    BY <2>2, <1>4, <1>6 DEF Overlaps
  <2>3. CASE d # c /\ <<creq[d].conv, creq[d].column>> # <<i, k>>
    <3>1. creq'[d] = creq[d] /\ cpc[d] = "publish"
      BY <2>3, <1>4
    <3>2. creq[d].conv \in ConvId /\ creq[d].column \in Column
      BY <3>1 DEF ConvInv, ConvCallInv, ConvTypeOK
    <3>3. setting'[creq[d].conv][creq[d].column] = setting[creq[d].conv][creq[d].column]
      BY <3>2, <2>3, <1>5
    <3> QED BY <3>1, <3>3, <1>6 DEF ConvInv, Announces
  <2> QED BY <2>1, <2>2, <2>3
<1>9. ViewAgrees'
  <2> SUFFICES ASSUME NEW j \in ConvId, NEW l \in Column, target[j] # NoConv
               PROVE  \/ view[j][l] \in {setting'[j][l], Unknown}
                      \/ <<j, l>> \in blurred'
                      \/ \E d \in ConvCall : cpc'[d] = "publish" /\ creq'[d].conv = j
                                                                  /\ creq'[d].column = l
    BY <1>1 DEF ViewAgrees, ConvInv, Unknown
  <2>1. CASE <<j, l>> = <<i, k>>
    BY <2>1, <1>4
  <2>2. CASE <<j, l>> # <<i, k>>
    <3>1. setting'[j][l] = setting[j][l]
      BY <2>2, <1>5
    <3>2. \/ view[j][l] \in {setting[j][l], Unknown}
          \/ <<j, l>> \in blurred
          \/ \E d \in ConvCall : cpc[d] = "publish" /\ creq[d].conv = j /\ creq[d].column = l
      BY DEF ConvInv, ViewAgrees
    <3>3. \A d \in ConvCall : cpc[d] = "publish" => d # c
      BY DEF Update
    <3> QED BY <3>1, <3>2, <3>3, <1>4, <1>6
  <2> QED BY <2>1, <2>2
<1> QED BY <1>7, <1>8, <1>9 DEF ConvInv

\* A call announces its value, or fails to.
LEMMA PublishStep ==
  ASSUME ConvInv, NEW c \in ConvCall, Publish(c) \/ PublishFails(c)
  PROVE  ConvInv'
<1> DEFINE i == creq[c].conv
           k == creq[c].column
<1>1. cpc[c] = "publish" /\ UNCHANGED <<target, drawn, setting, cmade>>
  BY DEF Publish, PublishFails, ConvEnds
<1>2. i \in drawn /\ i \in ConvId /\ k \in Column /\ creq[c].value \in 0..Unknown
  BY <1>1 DEF ConvInv, ConvCallInv, ConvTypeOK, ConvReq
<1>3. NoRequest \in ConvReq
  BY ConvAssumption DEF NoRequest, ConvReq, Unknown
<1>4. /\ cpc' \in [ConvCall -> {"idle", "publish"}] /\ creq' \in [ConvCall -> ConvReq]
      /\ cpc'[c] = "idle"
      /\ \A d \in ConvCall \ {c} : cpc'[d] = cpc[d] /\ creq'[d] = creq[d]
  BY <1>3 DEF Publish, PublishFails, ConvEnds, ConvInv, ConvCallInv, ConvTypeOK
<1>5. /\ view' \in [ConvId -> [Column -> 0..Unknown]]
      /\ \A j \in ConvId \ {i} : view'[j] = view[j]
      /\ \A j \in ConvId, l \in Column : <<j, l>> # <<i, k>> => view'[j][l] = view[j][l]
      /\ view'[i][k] = creq[c].value \/ <<i, k>> \in blurred'
      /\ blurred \subseteq blurred' /\ blurred' \subseteq ConvId \X Column
  BY <1>2 DEF Publish, PublishFails, ConvInv, ConvCallInv, ConvTypeOK
<1>6. ConvCallInv'
  <2>1. ConvTypeOK'
    BY <1>1, <1>4, <1>5 DEF ConvInv, ConvCallInv, ConvTypeOK, Unknown
  <2> QED BY <2>1, <1>1, <1>2, <1>4, <1>5 DEF ConvInv, ConvCallInv
<1>7. Announces'
  BY <1>1, <1>4, <1>5 DEF ConvInv, Announces, Unknown
<1>8. ViewAgrees'
  <2> SUFFICES ASSUME NEW j \in ConvId, NEW l \in Column, target[j] # NoConv
               PROVE  \/ view'[j][l] \in {setting[j][l], Unknown}
                      \/ <<j, l>> \in blurred'
                      \/ \E d \in ConvCall : cpc'[d] = "publish" /\ creq'[d].conv = j
                                                                  /\ creq'[d].column = l
    BY <1>1 DEF ViewAgrees, ConvInv, Unknown
  <2>1. CASE <<j, l>> = <<i, k>>
    BY <2>1, <1>1, <1>5 DEF ConvInv, Announces
  <2>2. CASE <<j, l>> # <<i, k>>
    <3>1. view'[j][l] = view[j][l]
      BY <2>2, <1>5
    <3>2. \/ view[j][l] \in {setting[j][l], Unknown}
          \/ <<j, l>> \in blurred
          \/ \E d \in ConvCall : cpc[d] = "publish" /\ creq[d].conv = j /\ creq[d].column = l
      BY DEF ConvInv, ViewAgrees
    <3>3. \A d \in ConvCall : creq[d].conv = j /\ creq[d].column = l => d # c
      BY <2>2
    <3> QED BY <3>1, <3>2, <3>3, <1>4, <1>5
  <2> QED BY <2>1, <2>2
<1> QED BY <1>6, <1>7, <1>8 DEF ConvInv

\* A device reads a conversation.
LEMMA ReadStep ==
  ASSUME ConvInv, NEW i \in ConvId, GetConversation(i)
  PROVE  ConvInv'
<1>1. target[i] # NoConv /\ UNCHANGED <<target, drawn, setting, cpc, creq, cmade>>
  BY DEF GetConversation
<1>2. 0..MaxValue \subseteq 0..Unknown
  BY ConvAssumption DEF Unknown
<1>3. /\ view' \in [ConvId -> [Column -> 0..Unknown]] /\ view'[i] = setting[i]
      /\ \A j \in ConvId \ {i} : view'[j] = view[j]
  BY <1>2 DEF GetConversation, ConvInv, ConvCallInv, ConvTypeOK, Setting
<1>4. /\ blurred' \subseteq blurred
      /\ \A j \in ConvId, l \in Column : <<j, l>> \in blurred => <<j, l>> \in blurred' \/ j = i
      /\ \A d \in ConvCall : cpc[d] = "publish" /\ creq[d].conv = i => blurred' = blurred
  BY DEF GetConversation
<1>5. ConvCallInv'
  <2>1. ConvTypeOK'
    BY <1>1, <1>3, <1>4 DEF ConvInv, ConvCallInv, ConvTypeOK, Unknown
  <2> QED BY <2>1, <1>1, <1>3 DEF ConvInv, ConvCallInv
<1>6. Announces'
  BY <1>1, <1>4 DEF ConvInv, ConvCallInv, ConvTypeOK, Announces, Unknown
<1>7. ViewAgrees'
  BY <1>1, <1>3, <1>4 DEF ConvInv, ViewAgrees, Unknown
<1> QED BY <1>5, <1>6, <1>7 DEF ConvInv

\* What the conversation service and the devices keep is an invariant of ConvSpec.
LEMMA ConvInvariance == ConvSpec => []ConvInv
<1>1. ConvInit => ConvInv
  <2> SUFFICES ASSUME ConvInit PROVE ConvInv
    OBVIOUS
  <2>1. Fresh \in Setting /\ Fresh \in [Column -> 0..Unknown] /\ NoRequest \in ConvReq
    BY ConvAssumption DEF Fresh, Setting, Unknown, NoRequest, ConvReq
  <2>2. ConvCallInv
    BY <2>1, ConvAssumption DEF ConvInit, ConvCallInv, ConvTypeOK
  <2> QED BY <2>2 DEF ConvInit, ConvInv, Announces, ViewAgrees
<1>2. ConvInv /\ [ConvNext]_convVars => ConvInv'
  <2> SUFFICES ASSUME ConvInv, [ConvNext]_convVars PROVE ConvInv'
    OBVIOUS
  <2>1. CASE UNCHANGED convVars
    BY <2>1 DEF convVars, ConvInv, ConvCallInv, ConvTypeOK, Announces, ViewAgrees
  <2>2. ASSUME NEW i \in ConvId, NEW t \in Target, CreateOrUpdateConversation(t, i) PROVE ConvInv'
    BY <2>2, UpsertStep
  <2>3. ASSUME NEW i \in ConvId, DeleteConversation(i) PROVE ConvInv'
    BY <2>3, DeleteStep
  <2>4. ASSUME NEW i \in ConvId, GetConversation(i) PROVE ConvInv'
    BY <2>4, ReadStep
  <2>5. ASSUME NEW i \in ConvId, NEW c \in ConvCall, NEW v \in 0..MaxValue,
               \/ SetPinned(c, i, v) \/ SetMuted(c, i, v)
               \/ SetBurnAfterReading(c, i, v) \/ SetAutoDelete(c, i, v)
        PROVE  ConvInv'
    <3>1. PICK k \in Column : Update(c, i, k, v, v)
      BY <2>5 DEF SetPinned, SetMuted, SetBurnAfterReading, SetAutoDelete, Column
    <3> QED BY <2>5, <3>1, UpdateStep
  <2>6. ASSUME NEW i \in ConvId, NEW c \in ConvCall, ClearUnread(c, i) \/ IncrUnread(c, i)
        PROVE  ConvInv'
    <3>1. "unread_count" \in Column /\ 0 \in 0..MaxValue
      BY ConvAssumption DEF Column
    <3>2. CASE ClearUnread(c, i)
      BY <2>6, <3>1, <3>2, UpdateStep DEF ClearUnread
    <3>3. CASE IncrUnread(c, i)
      <4>1. setting[i]["unread_count"] + 1 \in 0..MaxValue
        BY <2>6, <3>1, <3>3, ConvAssumption DEF IncrUnread, ConvInv, ConvCallInv, ConvTypeOK, Setting
      <4> QED BY <2>6, <3>1, <3>3, <4>1, UpdateStep DEF IncrUnread
    <3> QED BY <2>6, <3>2, <3>3
  <2>7. ASSUME NEW c \in ConvCall, Publish(c) \/ PublishFails(c) PROVE ConvInv'
    BY <2>7, PublishStep
  <2> QED BY <2>1, <2>2, <2>3, <2>4, <2>5, <2>6, <2>7 DEF ConvNext
<1> QED BY <1>1, <1>2, PTL DEF ConvSpec

\* Every variable of ConversationView keeps its type.
THEOREM ConvTypeCorrect == ConvSpec => []ConvTypeOK
<1>1. ConvInv => ConvTypeOK BY DEF ConvInv, ConvCallInv
<1> QED BY <1>1, ConvInvariance, PTL

\* A target has at most one conversation, and what the devices know of it is what
\* the row holds unless a notification is on its way, was lost or was overtaken.
THEOREM ViewsAgree == ConvSpec => []ViewAgrees
<1>1. ConvInv => ViewAgrees
  BY DEF ConvInv
<1> QED BY <1>1, ConvInvariance, PTL

-----------------------------------------------------------------------------
(* Read positions. *)

\* A position a client has named, or the sequence of a message of the conversation.
Justified(n) == n = 0 \/ n \in asked \/ n \in 1..curSeq

\* What a call asks for and what it is about to write are justified, and what it
\* is about to write was not below the settled position when it was computed.
WriterInv ==
    \A c \in ReceiptCall :
        /\ Justified(want[c])
        /\ Justified(effective[c])
        /\ rpc[c] = "upsert" /\ settled # NoRow => settled <= effective[c]

ReceiptInv == ReceiptTypeOK /\ WriterInv /\ PositionJustified /\ SettledKept

USE DEF ReceiptGoto, ReceiptPC, log, Justified, PositionJustified

\* Inv holds in the beginning.
LEMMA ReceiptInitInv == ReceiptInit => ReceiptInv
BY ReceiptAssumption DEF ReceiptInit, ReceiptInv, ReceiptTypeOK, WriterInv, SettledKept

\* A message sent or removed keeps Inv.
LEMMA LogInv ==
    ASSUME ReceiptInv, Send \/ (\E n \in 1..MaxSeq : Remove(n))
    PROVE  ReceiptInv'
<1>1. CASE Send
  BY <1>1, ReceiptAssumption
  DEF Send, ReceiptInv, ReceiptTypeOK, WriterInv, SettledKept
<1>2. CASE \E n \in 1..MaxSeq : Remove(n)
  BY <1>2, ReceiptAssumption
  DEF Remove, ReceiptInv, ReceiptTypeOK, WriterInv, SettledKept
<1> QED BY <1>1, <1>2

\* The steps of a call before it computes its position keep Inv: it asks for what
\* its client has named or for the sequence of a message that was sent.
LEMMA AskInv ==
    ASSUME ReceiptInv, NEW c \in ReceiptCall,
           \/ \E n \in ClientSeq \cup {0} : MarkAsRead(c, n)
           \/ \E S \in SUBSET (1..MaxSeq) : MarkMessagesRead(c, S)
           \/ Filter(c) \/ Compare(c)
    PROVE  ReceiptInv'
<1>1. CASE \E n \in ClientSeq \cup {0} : MarkAsRead(c, n)
  <2>1. PICK n \in ClientSeq \cup {0} : MarkAsRead(c, n)
    BY <1>1
  <2>2. n \in Int /\ (n = 0 \/ n \in asked') /\ asked \subseteq asked' /\ asked' \subseteq ClientSeq
    BY <2>1, ReceiptAssumption DEF MarkAsRead, ReceiptInv, ReceiptTypeOK
  <2>3. ReceiptTypeOK'
    BY <2>1, <2>2, ReceiptAssumption DEF MarkAsRead, ReceiptInv, ReceiptTypeOK
  <2>4. WriterInv'
    BY <2>1, <2>2, ReceiptAssumption DEF MarkAsRead, ReceiptInv, ReceiptTypeOK, WriterInv
  <2> QED
    BY <2>1, <2>2, <2>3, <2>4 DEF MarkAsRead, ReceiptInv, SettledKept
<1>2. CASE \E S \in SUBSET (1..MaxSeq) : MarkMessagesRead(c, S)
  BY <1>2, ReceiptAssumption
  DEF MarkMessagesRead, ReceiptInv, ReceiptTypeOK, WriterInv, SettledKept
<1>3. CASE Filter(c)
  <2>1. PICK n \in (ids[c] \cap normal) \cup {0} : want' = [want EXCEPT ![c] = n]
    BY <1>3 DEF Filter, WantHighest
  <2>2. n \in Int /\ (n = 0 \/ n \in 1..curSeq)
    BY <2>1, ReceiptAssumption DEF ReceiptInv, ReceiptTypeOK
  <2> QED
    BY <1>3, <2>1, <2>2, ReceiptAssumption
    DEF Filter, ReceiptInv, ReceiptTypeOK, WriterInv, SettledKept
<1>4. CASE Compare(c)
  BY <1>4, ReceiptAssumption
  DEF Compare, ReceiptInv, ReceiptTypeOK, WriterInv, SettledKept
<1> QED BY <1>1, <1>2, <1>3, <1>4

\* ReadReceipt keeps Inv: the larger of the two positions is not below the
\* settled one, which it does not move.
LEMMA ReadInv ==
    ASSUME ReceiptInv, NEW c \in ReceiptCall, ReadReceipt(c)
    PROVE  ReceiptInv'
<1>1. settled' = settled
  BY DEF ReadReceipt, Observe, ReceiptInv, ReceiptTypeOK
<1>2. PICK e \in Int : /\ effective' = [effective EXCEPT ![c] = e]
                       /\ Justified(e)
                       /\ lastRead # NoRow => lastRead <= e
  BY ReceiptAssumption DEF ReadReceipt, ReceiptInv, ReceiptTypeOK, WriterInv
<1>3. ReceiptTypeOK'
  BY <1>1, <1>2, ReceiptAssumption DEF ReadReceipt, ReceiptInv, ReceiptTypeOK
<1>4. WriterInv'
  BY <1>1, <1>2, ReceiptAssumption
  DEF ReadReceipt, ReceiptInv, ReceiptTypeOK, WriterInv, SettledKept
<1> QED
  BY <1>1, <1>3, <1>4 DEF ReadReceipt, ReceiptInv, SettledKept

\* Upsert keeps Inv: it writes what WriterInv says of the computed position.
LEMMA UpsertInv ==
    ASSUME ReceiptInv, NEW c \in ReceiptCall, Upsert(c)
    PROVE  ReceiptInv'
<1>1. CASE \A x \in ReceiptCall : rpc'[x] # "upsert"
  <2>1. settled' = lastRead'
    BY <1>1 DEF Upsert, Observe
  <2> QED
    BY <1>1, <2>1, ReceiptAssumption
    DEF Upsert, ReceiptInv, ReceiptTypeOK, WriterInv, SettledKept
<1>2. CASE ~ \A x \in ReceiptCall : rpc'[x] # "upsert"
  <2>1. settled' = settled
    BY <1>2 DEF Upsert, Observe
  <2> QED
    BY <2>1, ReceiptAssumption
    DEF Upsert, ReceiptInv, ReceiptTypeOK, WriterInv, SettledKept
<1> QED BY <1>1, <1>2

\* The end of a call keeps Inv.
LEMMA EndInv ==
    ASSUME ReceiptInv, NEW c \in ReceiptCall, Answer(c) \/ ReceiptFails(c)
    PROVE  ReceiptInv'
<1>1. CASE Answer(c)
  BY <1>1, ReceiptAssumption
  DEF Answer, ReceiptEnds, ReceiptInv, ReceiptTypeOK, WriterInv, SettledKept
<1>2. CASE ReceiptFails(c) /\ \A x \in ReceiptCall : rpc'[x] # "upsert"
  <2>1. settled' = lastRead'
    BY <1>2 DEF ReceiptFails, Observe
  <2> QED
    BY <1>2, <2>1, ReceiptAssumption
    DEF ReceiptFails, ReceiptEnds, ReceiptInv, ReceiptTypeOK, WriterInv, SettledKept
<1>3. CASE ReceiptFails(c) /\ ~ \A x \in ReceiptCall : rpc'[x] # "upsert"
  <2>1. settled' = settled
    BY <1>3 DEF ReceiptFails, Observe
  <2> QED
    BY <1>3, <2>1, ReceiptAssumption
    DEF ReceiptFails, ReceiptEnds, ReceiptInv, ReceiptTypeOK, WriterInv, SettledKept
<1> QED BY <1>1, <1>2, <1>3

\* Every step keeps Inv.
LEMMA ReceiptNextInv == ReceiptInv /\ [ReceiptNext]_receiptVars => ReceiptInv'
<1> SUFFICES ASSUME ReceiptInv, [ReceiptNext]_receiptVars PROVE ReceiptInv'
  OBVIOUS
<1>1. CASE UNCHANGED receiptVars
  BY <1>1 DEF receiptVars, ReceiptInv, ReceiptTypeOK, WriterInv, SettledKept
<1>2. CASE ReceiptNext
  BY <1>2, LogInv, AskInv, ReadInv, UpsertInv, EndInv DEF ReceiptNext
<1> QED BY <1>1, <1>2

\* The inductive invariant holds always.
LEMMA ReceiptInvariance == ReceiptSpec => []ReceiptInv
BY ReceiptInitInv, ReceiptNextInv, PTL DEF ReceiptSpec

\* Every variable keeps its type, whatever numbers the clients send.
THEOREM ReceiptTypeCorrect == ReceiptSpec => []ReceiptTypeOK
<1>1. ReceiptInv => ReceiptTypeOK BY DEF ReceiptInv
<1> QED BY <1>1, ReceiptInvariance, PTL

\* For any number of calls and messages and whatever numbers the clients send, a
\* position that is not the sequence of a message was named by a client: what
\* MarkMessagesRead derives from its ids is the sequence of a message.
THEOREM PositionCorrect == ReceiptSpec => []PositionJustified
<1>1. ReceiptInv => PositionJustified BY DEF ReceiptInv
<1> QED BY <1>1, ReceiptInvariance, PTL

\* However many calls overlap, the unconditional upsert never loses a position
\* that held when no call was between its read and its write.
THEOREM SettledCorrect == ReceiptSpec => []SettledKept
<1>1. ReceiptInv => SettledKept BY DEF ReceiptInv
<1> QED BY <1>1, ReceiptInvariance, PTL

HIDE DEF ReceiptGoto, ReceiptPC, log, Justified, PositionJustified

-----------------------------------------------------------------------------
(* Friendships. *)

\* Where a call of each kind can be.
FriendRoute(k, p) ==
    /\ p \in {"isBlocked", "pending", "settings"} => k = "send"
    /\ p = "isFriend" => k \in {"send", "delete", "block"}
    /\ p = "create" => k \in {"send", "auto"}
    /\ p \in {"getRequest", "updateRequest"} => k \in {"accept", "reject"}
    /\ p \in {"insert1", "insert2"} => k \in {"auto", "accept"}
    /\ p \in {"getBlocked", "blacklist"} => k = "block"
    /\ p \in {"update1", "update2"} => k \in {"delete", "block"}
    /\ p = "commit" => k \in {"send", "auto", "accept", "delete", "block"}
    /\ p \in {"conv1", "conv2"} => k = "auto"

Holds(c, p) == lock[FriendRow(p)] = c

\* A call that has drawn the id of a new request and not committed it.
Creating(c) == friendPc[c] \in {"insert1", "insert2", "commit"} /\ kind[c] \in {"send", "auto"}

\* A call that decides a request works on the pair of its row; one that creates
\* a request is the only one that knows of it.
RequestOK(c) ==
    /\ friendPc[c] # "idle" /\ kind[c] \in {"accept", "reject"} =>
          /\ rq[c] \in Req
          /\ status[rq[c]] # "none"
          /\ who[c] = Rev(pairOf[rq[c]])
    /\ friendPc[c] # "idle" /\ kind[c] \in {"delete", "block"} => rq[c] = NoReq
    /\ Creating(c) =>
          /\ rq[c] \in Req
          /\ status[rq[c]] = "none"
          /\ \A d \in Call : rq[d] = rq[c] => d = c

\* The friendship rows a call holds: none before it writes, the two of its pair
\* or none of them when it commits, and both if it makes a friendship.
LocksOK(c) ==
    /\ \A p \in Pair : Holds(c, p) => /\ friendPc[c] \in {"insert2", "update2", "commit"}
                                      /\ p \in {who[c], Rev(who[c])}
    /\ friendPc[c] \in {"insert2", "update2"} => Holds(c, who[c])
    /\ friendPc[c] = "commit" => (Holds(c, who[c]) <=> Holds(c, Rev(who[c])))
    /\ friendPc[c] = "commit" /\ kind[c] \in {"auto", "accept"} => Holds(c, who[c])

FriendInv ==
    /\ FriendTypeOK
    /\ Symmetric
    /\ AcceptedWereFriends
    /\ \A c \in Call : FriendRoute(kind[c], friendPc[c]) /\ RequestOK(c) /\ LocksOK(c)

\* A pair and its reverse, and the rows they name.
LEMMA RevFacts == \A p \in Pair : Rev(p) \in Pair /\ Rev(Rev(p)) = p /\ Rev(p) # p
  BY DEF Pair, Rev

\* The rows of different pairs differ.
LEMMA FriendRowFacts ==
    /\ \A p \in Pair : FriendRow(p) \in Row /\ BlockRow(p) \in Row
    /\ \A p, q \in Pair : FriendRow(p) = FriendRow(q) => p = q
    /\ \A p, q \in Pair : FriendRow(p) # BlockRow(q)
    /\ \A r \in Req : ReqRow(r) \in Row
    /\ \A p \in Pair, r \in Req : FriendRow(p) # ReqRow(r)
<1>1. \A p \in Pair : FriendRow(p) \in Row /\ BlockRow(p) \in Row
  BY DEF Row
<1>2. \A r \in Req : ReqRow(r) \in Row
  BY DEF Row
<1>3. QED
  BY <1>1, <1>2 DEF FriendRow, BlockRow, ReqRow

CallOK(c) == FriendRoute(kind[c], friendPc[c]) /\ RequestOK(c) /\ LocksOK(c)

\* What a step of call c leaves to the other calls: their variables, the rows
\* they hold, the pair of every request, and the requests they are creating.
Others(c) ==
    \A d \in Call \ {c} :
        /\ friendPc'[d] = friendPc[d] /\ kind'[d] = kind[d] /\ who'[d] = who[d] /\ rq'[d] = rq[d]
        /\ \A p \in Pair : lock'[FriendRow(p)] = d <=> lock[FriendRow(p)] = d
        /\ Creating(d) => status'[rq[d]] = "none" /\ rq'[c] # rq[d]
RequestsKept ==
    \A r \in Req : status[r] # "none" => status'[r] # "none" /\ pairOf'[r] = pairOf[r]

\* A step of one call leaves what is known of the others.
LEMMA OthersKept ==
    ASSUME FriendInv, NEW c \in Call, Others(c), RequestsKept, NEW d \in Call, d # c
    PROVE  CallOK(d)'
<1>1. /\ friendPc'[d] = friendPc[d] /\ kind'[d] = kind[d] /\ who'[d] = who[d] /\ rq'[d] = rq[d]
      /\ \A p \in Pair : lock'[FriendRow(p)] = d <=> lock[FriendRow(p)] = d
      /\ Creating(d) => status'[rq[d]] = "none" /\ rq'[c] # rq[d]
      /\ \A e \in Call : e # c => rq'[e] = rq[e]
  BY DEF Others
<1>2. FriendRoute(kind[d], friendPc[d]) /\ RequestOK(d) /\ LocksOK(d)
  BY DEF FriendInv
<1>3. friendPc[d] # "idle" => who[d] \in Pair /\ Rev(who[d]) \in Pair
  BY RevFacts DEF FriendInv, FriendTypeOK
<1>4. FriendRoute(kind'[d], friendPc'[d])
  BY <1>1, <1>2
<1>5. RequestOK(d)'
  BY <1>1, <1>2 DEF RequestOK, Creating, RequestsKept
<1>6. LocksOK(d)'
  BY <1>1, <1>2, <1>3 DEF LocksOK, Holds
<1>7. QED
  BY <1>4, <1>5, <1>6 DEF CallOK

\* The tables are those of before.
Same == UNCHANGED tables

\* A step that writes no table keeps Symmetric and AcceptedWereFriends.
LEMMA SameTables ==
    ASSUME FriendInv, Same
    PROVE  /\ Symmetric' /\ AcceptedWereFriends' /\ RequestsKept
           /\ \A d \in Call : Creating(d) => status'[rq[d]] = "none"
  BY DEF FriendInv, Same, tables, Symmetric, AcceptedWereFriends, RequestsKept, RequestOK

\* A call that reads and goes on.
LEMMA CheckPasses ==
    ASSUME FriendInv, NEW c \in Call, NEW to \in FriendPC,
           friendPc[c] \notin {"idle", "insert1", "insert2", "update2", "commit"},
           to \notin {"idle", "insert1", "insert2", "update2"},
           to = "commit" => kind[c] = "block",
           FriendRoute(kind[c], to),
           friendPc' = [friendPc EXCEPT ![c] = to], UNCHANGED <<tables, lock, args, made, errors>>
    PROVE  FriendInv'
<1> USE DEF args
<1>1. FriendTypeOK'
  BY DEF FriendInv, FriendTypeOK, tables
<1>2. Symmetric' /\ AcceptedWereFriends' /\ RequestsKept
  BY SameTables DEF Same
<1>3. Others(c)
  BY DEF Others, FriendInv, FriendTypeOK, RequestOK, tables
<1>4. CallOK(c)'
  <2>1. friendPc'[c] = to /\ friendPc[c] # "idle" /\ RequestOK(c) /\ LocksOK(c)
    BY DEF FriendInv, FriendTypeOK
  <2>2. RequestOK(c)'
    BY <2>1 DEF RequestOK, Creating, tables, FriendInv, FriendTypeOK
  <2>3. \A p \in Pair : ~Holds(c, p)'
    BY <2>1 DEF LocksOK, Holds
  <2>4. who'[c] \in Pair /\ Rev(who'[c]) \in Pair
    BY <2>1, RevFacts DEF FriendInv, FriendTypeOK
  <2>5. LocksOK(c)'
    BY <2>1, <2>3, <2>4 DEF LocksOK, Holds
  <2>6. QED
    BY <2>1, <2>2, <2>5 DEF CallOK
<1>5. \A d \in Call : CallOK(d)'
  BY <1>2, <1>3, <1>4, OthersKept
<1>6. QED
  BY <1>1, <1>2, <1>5 DEF FriendInv, CallOK

\* A call that ends and releases its rows, whatever it has written.
Ended(c) ==
    /\ friendPc' = [friendPc EXCEPT ![c] = "idle"]
    /\ kind' = [kind EXCEPT ![c] = "none"]
    /\ who' = [who EXCEPT ![c] = NoPair]
    /\ rq' = [rq EXCEPT ![c] = NoReq]
    /\ Release(c)

\* The rows the others hold after a release.
LEMMA ReleaseFacts ==
    ASSUME FriendInv, NEW c \in Call, Release(c)
    PROVE  /\ lock' \in [Row -> Call \cup {Unlocked}]
           /\ \A p \in Pair : lock'[FriendRow(p)] # c
           /\ \A d \in Call : d # c =>
                 \A p \in Pair : lock'[FriendRow(p)] = d <=> lock[FriendRow(p)] = d
  BY FriendAssumption, FriendRowFacts DEF FriendInv, FriendTypeOK, Release

\* A call that ends releases its rows.
LEMMA EndedStep ==
    ASSUME FriendInv, NEW c \in Call, Ended(c), made' \in 0..MaxCalls, errors' \in 0..MaxErrors,
           friend' \in [Pair -> {"none", "normal", "deleted"}],
           status' \in [Req -> {"none", "pending", "accepted", "rejected"}],
           pairOf' \in [Req -> Pair \cup {NoPair}],
           blocked' \subseteq Pair, conv' \subseteq Pair,
           \A r \in Req : status'[r] # "none" => pairOf'[r] \in Pair,
           Symmetric', AcceptedWereFriends', RequestsKept,
           \A d \in Call \ {c} : Creating(d) => status'[rq[d]] = "none"
    PROVE  FriendInv'
<1> USE FriendAssumption DEF Ended
<1>1. FriendTypeOK'
  <2>1. /\ friendPc' \in [Call -> FriendPC] /\ kind' \in [Call -> Kind]
        /\ who' \in [Call -> Pair \cup {NoPair}] /\ rq' \in [Call -> Req \cup {NoReq}]
    BY DEF FriendInv, FriendTypeOK, FriendPC, Kind
  <2>2. \A d \in Call : friendPc'[d] # "idle" => who'[d] \in Pair
    BY DEF FriendInv, FriendTypeOK
  <2>3. QED
    BY <2>1, <2>2, ReleaseFacts DEF FriendTypeOK
<1>2. Others(c)
  <2>1. \A d \in Call \ {c} : Creating(d) => rq[d] # NoReq
    BY DEF FriendInv, RequestOK
  <2>2. rq'[c] = NoReq
    BY DEF FriendInv, FriendTypeOK
  <2>3. \A d \in Call \ {c} :
          friendPc'[d] = friendPc[d] /\ kind'[d] = kind[d] /\ who'[d] = who[d] /\ rq'[d] = rq[d]
    BY DEF FriendInv, FriendTypeOK
  <2>4. QED
    BY <2>1, <2>2, <2>3, ReleaseFacts DEF Others
<1>3. CallOK(c)'
  <2>1. friendPc'[c] = "idle" /\ kind'[c] = "none"
    BY DEF FriendInv, FriendTypeOK
  <2>2. QED
    BY <2>1, ReleaseFacts DEF CallOK, FriendRoute, RequestOK, Creating, LocksOK, Holds
<1>4. \A d \in Call : CallOK(d)'
  BY <1>2, <1>3, OthersKept
<1>5. QED
  BY <1>1, <1>4 DEF FriendInv, CallOK

\* In particular a call that fails.
LEMMA FailsInv ==
    ASSUME FriendInv, NEW c \in Call, Ended(c), UNCHANGED tables,
           made' = made, errors' \in 0..MaxErrors
    PROVE  FriendInv'
<1>1. /\ Symmetric' /\ AcceptedWereFriends' /\ RequestsKept
      /\ \A d \in Call \ {c} : Creating(d) => status'[rq[d]] = "none"
  BY SameTables DEF Same
<1>2. /\ friend' \in [Pair -> {"none", "normal", "deleted"}]
      /\ status' \in [Req -> {"none", "pending", "accepted", "rejected"}]
      /\ pairOf' \in [Req -> Pair \cup {NoPair}]
      /\ blocked' \subseteq Pair /\ conv' \subseteq Pair
      /\ \A r \in Req : status'[r] # "none" => pairOf'[r] \in Pair
      /\ made' \in 0..MaxCalls
  BY DEF FriendInv, FriendTypeOK, tables
<1>3. QED
  BY <1>1, <1>2, EndedStep

\* A call that starts: a new request is unknown to it, so it is about another.
LEMMA FriendStarts ==
    ASSUME FriendInv, NEW c \in Call, NEW to \in {"isBlocked", "isFriend", "getRequest", "getBlocked"},
           NEW k \in Kind, NEW p \in Pair, NEW r \in Req \cup {NoReq},
           FriendRoute(k, to),
           k \in {"accept", "reject"} => r \in Req /\ status[r] # "none" /\ p = Rev(pairOf[r]),
           k \notin {"accept", "reject"} => r = NoReq,
           Starts(c, to, k, p, r)
    PROVE  FriendInv'
<1> USE FriendAssumption DEF Starts, FriendGoto
<1>1. FriendTypeOK'
  BY DEF FriendInv, FriendTypeOK, tables, FriendPC
<1>2. Symmetric' /\ AcceptedWereFriends' /\ RequestsKept
  BY SameTables DEF Same
<1>3. \A d \in Call : Creating(d) => status'[rq[d]] = "none" /\ r # rq[d]
  BY SameTables DEF Same, FriendInv, RequestOK, tables
<1>4. Others(c)
  BY <1>3 DEF Others, FriendInv, FriendTypeOK
<1>5. CallOK(c)'
  <2>1. friendPc'[c] = to /\ kind'[c] = k /\ who'[c] = p /\ rq'[c] = r /\ friendPc[c] = "idle"
    BY DEF FriendInv, FriendTypeOK
  <2>2. RequestOK(c)'
    BY <2>1 DEF RequestOK, Creating, tables
  <2>3. \A q \in Pair : lock'[FriendRow(q)] # c
    BY <2>1 DEF FriendInv, LocksOK, Holds
  <2>4. LocksOK(c)'
    BY <2>1, <2>3 DEF LocksOK, Holds
  <2>5. QED
    BY <2>1, <2>2, <2>4 DEF CallOK
<1>6. \A d \in Call : CallOK(d)'
  BY <1>2, <1>4, <1>5, OthersKept
<1>7. QED
  BY <1>1, <1>2, <1>6 DEF FriendInv, CallOK

\* The recipient's setting decides what the call will be.
LEMMA GetSettingsInv ==
    ASSUME FriendInv, NEW c \in Call, GetSettings(c)
    PROVE  FriendInv'
<1>1. PICK k \in {"send", "auto"} : kind' = [kind EXCEPT ![c] = k]
  BY DEF GetSettings
<1>2. /\ friendPc[c] = "settings" /\ friendPc' = [friendPc EXCEPT ![c] = "create"]
      /\ UNCHANGED <<tables, lock, who, rq, made, errors>>
  BY DEF GetSettings, FriendGoto
<1>3. FriendTypeOK'
  BY <1>1, <1>2 DEF FriendInv, FriendTypeOK, tables, FriendPC, Kind
<1>4. Symmetric' /\ AcceptedWereFriends' /\ RequestsKept
  BY <1>2, SameTables DEF Same
<1>5. Others(c)
  BY <1>1, <1>2 DEF Others, FriendInv, FriendTypeOK, RequestOK, tables
<1>6. CallOK(c)'
  <2>1. friendPc'[c] = "create" /\ kind'[c] = k /\ who'[c] = who[c] /\ rq'[c] = rq[c]
    BY <1>1, <1>2 DEF FriendInv, FriendTypeOK
  <2>2. \A q \in Pair : lock'[FriendRow(q)] # c
    BY <1>2 DEF FriendInv, LocksOK, Holds
  <2>3. QED
    BY <2>1, <2>2 DEF CallOK, FriendRoute, RequestOK, Creating, LocksOK, Holds
<1>7. \A d \in Call : CallOK(d)'
  BY <1>4, <1>5, <1>6, OthersKept
<1>8. QED
  BY <1>3, <1>4, <1>7 DEF FriendInv, CallOK

\* The id of the new request is nobody else's.
LEMMA CreateRequestInv ==
    ASSUME FriendInv, NEW c \in Call, NEW r \in Req, CreateRequest(c, r)
    PROVE  FriendInv'
<1>1. PICK to \in {"insert1", "commit"} :
        /\ friendPc' = [friendPc EXCEPT ![c] = to]
        /\ to = IF kind[c] = "auto" THEN "insert1" ELSE "commit"
  BY DEF CreateRequest, FriendGoto
<1>2. /\ friendPc[c] = "create" /\ status[r] = "none" /\ \A d \in Call : rq[d] # r
      /\ rq' = [rq EXCEPT ![c] = r]
      /\ UNCHANGED <<tables, lock, kind, who, made, errors>>
  BY DEF CreateRequest, FriendGoto
<1>3. FriendTypeOK'
  BY <1>1, <1>2 DEF FriendInv, FriendTypeOK, tables, FriendPC
<1>4. Symmetric' /\ AcceptedWereFriends' /\ RequestsKept
  BY <1>2, SameTables DEF Same
<1>5. Others(c)
  BY <1>1, <1>2 DEF Others, FriendInv, FriendTypeOK, RequestOK, tables
<1>6. CallOK(c)'
  <2>1. /\ friendPc'[c] = to /\ kind'[c] = kind[c] /\ who'[c] = who[c] /\ rq'[c] = r
        /\ kind[c] \in {"send", "auto"} /\ who[c] \in Pair /\ Rev(who[c]) \in Pair
    BY <1>1, <1>2, RevFacts DEF FriendInv, FriendTypeOK, FriendRoute
  <2>2. \A q \in Pair : lock'[FriendRow(q)] # c
    BY <1>2 DEF FriendInv, LocksOK, Holds
  <2>3. \A d \in Call : rq'[d] = r => d = c
    BY <1>2 DEF FriendInv, FriendTypeOK
  <2>4. RequestOK(c)'
    BY <1>2, <2>1, <2>3 DEF RequestOK, Creating, tables
  <2>5. LocksOK(c)'
    BY <1>1, <2>1, <2>2 DEF LocksOK, Holds
  <2>6. QED
    BY <1>1, <2>1, <2>4, <2>5 DEF CallOK, FriendRoute
<1>7. \A d \in Call : CallOK(d)'
  BY <1>4, <1>5, <1>6, OthersKept
<1>8. QED
  BY <1>3, <1>4, <1>7 DEF FriendInv, CallOK

\* A statement that locks a row: who else holds rows holds them still.
LEMMA LocksFacts ==
    ASSUME FriendInv, NEW c \in Call, NEW x \in Row, Locks(c, x)
    PROVE  /\ lock' \in [Row -> Call \cup {Unlocked}]
           /\ lock'[x] = c
           /\ \A y \in Row : y # x => lock'[y] = lock[y]
           /\ \A d \in Call : d # c =>
                 \A y \in Row : lock'[y] = d <=> lock[y] = d
  BY FriendAssumption DEF FriendInv, FriendTypeOK, Locks

\* The two statements that lock a friendship row, and the ones that lock others.
LEMMA LocksInv ==
    ASSUME FriendInv, NEW c \in Call, NEW x \in Row, NEW to \in FriendPC, to # "idle",
           friendPc[c] # "idle", friendPc' = [friendPc EXCEPT ![c] = to], Locks(c, x),
           CallOK(c)'
    PROVE  FriendInv'
<1> USE DEF args
<1>1. FriendTypeOK'
  BY LocksFacts DEF FriendInv, FriendTypeOK, Locks, tables
<1>2. Symmetric' /\ AcceptedWereFriends' /\ RequestsKept
  BY SameTables DEF Same, Locks
<1>3. Others(c)
  <2>1. \A d \in Call : Creating(d) => status'[rq[d]] = "none" /\ (d # c => rq'[c] # rq[d])
    BY SameTables DEF Same, Locks, FriendInv, RequestOK
  <2>2. \A d \in Call : d # c => friendPc'[d] = friendPc[d]
    BY DEF FriendInv, FriendTypeOK
  <2>3. UNCHANGED <<kind, who, rq>>
    BY DEF Locks
  <2>4. \A p \in Pair : FriendRow(p) \in Row
    BY FriendRowFacts
  <2>5. QED
    BY <2>1, <2>2, <2>3, <2>4, LocksFacts DEF Others
<1>4. \A d \in Call : CallOK(d)'
  BY <1>2, <1>3, OthersKept
<1>5. QED
  BY <1>1, <1>2, <1>4 DEF FriendInv, CallOK

\* The variables of a call that locks row x and goes on to another place, apart
\* from its rows.
LEMMA LocksCall ==
    ASSUME FriendInv, NEW c \in Call, NEW x \in Row, NEW to \in FriendPC,
           friendPc[c] # "idle", to # "idle", friendPc' = [friendPc EXCEPT ![c] = to], Locks(c, x),
           to \in {"insert1", "insert2", "commit"} =>
              friendPc[c] \in {"insert1", "insert2", "commit"} \/ kind[c] \notin {"send", "auto"}
    PROVE  /\ friendPc'[c] = to /\ kind'[c] = kind[c] /\ who'[c] = who[c]
           /\ who[c] \in Pair /\ Rev(who[c]) \in Pair
           /\ RequestOK(c)'
<1>1. /\ friendPc'[c] = to /\ kind' = kind /\ who' = who /\ rq' = rq
      /\ status' = status /\ pairOf' = pairOf
  BY DEF Locks, args, tables, FriendInv, FriendTypeOK
<1>2. who[c] \in Pair /\ Rev(who[c]) \in Pair
  BY RevFacts DEF FriendInv, FriendTypeOK
<1>3. RequestOK(c)'
  BY <1>1 DEF FriendInv, RequestOK, Creating
<1>4. QED
  BY <1>1, <1>2, <1>3

\* CreateBatch and DeleteBidirectional: the row of the pair, then its reverse.
LEMMA FirstRowInv ==
    ASSUME FriendInv, NEW c \in Call, CreateBatch1(c) \/ DeleteBidirectional1(c)
    PROVE  FriendInv'
<1>1. PICK to \in {"insert2", "update2"} :
        /\ friendPc' = [friendPc EXCEPT ![c] = to]
        /\ friendPc[c] = IF to = "insert2" THEN "insert1" ELSE "update1"
  BY DEF CreateBatch1, DeleteBidirectional1, FriendGoto
<1>2. Locks(c, FriendRow(who[c])) /\ who[c] \in Pair /\ FriendRow(who[c]) \in Row
  BY <1>1, FriendRowFacts DEF CreateBatch1, DeleteBidirectional1, FriendInv, FriendTypeOK
<1>3. FriendRoute(kind[c], friendPc[c])
  BY DEF FriendInv
<1>4. /\ friendPc'[c] = to /\ kind'[c] = kind[c] /\ who'[c] = who[c]
      /\ Rev(who[c]) \in Pair /\ RequestOK(c)'
  BY <1>1, <1>2, <1>3, LocksCall DEF FriendPC, FriendRoute
<1>5. \A q \in Pair : lock[FriendRow(q)] # c
  BY <1>1 DEF FriendInv, LocksOK, Holds
<1>6. \A q \in Pair : lock'[FriendRow(q)] = c <=> q = who[c]
  BY <1>2, <1>5, LocksFacts, FriendRowFacts
<1>7. LocksOK(c)'
  BY <1>1, <1>2, <1>4, <1>6 DEF LocksOK, Holds
<1>8. CallOK(c)'
  BY <1>1, <1>3, <1>4, <1>7 DEF CallOK, FriendRoute
<1>9. QED
  BY <1>1, <1>2, <1>8, LocksInv DEF FriendPC

\* The second row of the friendship is locked.
LEMMA SecondRowInv ==
    ASSUME FriendInv, NEW c \in Call, CreateBatch2(c) \/ DeleteBidirectional2(c)
    PROVE  FriendInv'
<1>1. /\ friendPc' = [friendPc EXCEPT ![c] = "commit"] /\ friendPc[c] \in {"insert2", "update2"}
      /\ who[c] \in Pair /\ Rev(who[c]) \in Pair /\ Locks(c, FriendRow(Rev(who[c])))
  BY RevFacts DEF CreateBatch2, DeleteBidirectional2, FriendGoto, FriendInv, FriendTypeOK
<1>2. FriendRow(Rev(who[c])) \in Row /\ FriendRow(who[c]) \in Row
  BY <1>1, FriendRowFacts
<1>3. FriendRoute(kind[c], friendPc[c])
  BY DEF FriendInv
<1>4. /\ friendPc'[c] = "commit" /\ kind'[c] = kind[c] /\ who'[c] = who[c] /\ RequestOK(c)'
  BY <1>1, <1>2, <1>3, LocksCall DEF FriendPC, FriendRoute
<1>5. lock[FriendRow(who[c])] = c
  BY <1>1 DEF FriendInv, LocksOK, Holds
<1>6. \A q \in Pair : lock[FriendRow(q)] = c => q \in {who[c], Rev(who[c])}
  BY DEF FriendInv, LocksOK, Holds
<1>7. /\ lock'[FriendRow(who[c])] = c /\ lock'[FriendRow(Rev(who[c]))] = c
      /\ \A q \in Pair : lock'[FriendRow(q)] = c => q \in {who[c], Rev(who[c])}
  <2>1. \A q \in Pair : FriendRow(q) \in Row
    BY FriendRowFacts
  <2>2. /\ lock'[FriendRow(Rev(who[c]))] = c
        /\ \A y \in Row : y # FriendRow(Rev(who[c])) => lock'[y] = lock[y]
    BY <1>1, <1>2, LocksFacts
  <2>3. \A q \in Pair : q # Rev(who[c]) => lock'[FriendRow(q)] = lock[FriendRow(q)]
    BY <1>1, <2>1, <2>2, FriendRowFacts
  <2>4. QED
    BY <1>1, <1>5, <1>6, <2>2, <2>3
<1>8. LocksOK(c)'
  BY <1>4, <1>7 DEF LocksOK, Holds
<1>9. CallOK(c)'
  BY <1>1, <1>3, <1>4, <1>8 DEF CallOK, FriendRoute
<1>10. QED
  BY <1>1, <1>2, <1>9, LocksInv DEF FriendPC

\* The request row, or the blacklist row: no friendship row is touched.
LEMMA OtherRowInv ==
    ASSUME FriendInv, NEW c \in Call, NEW x \in Row, \A p \in Pair : FriendRow(p) # x,
           NEW to \in {"insert1", "isFriend"}, Locks(c, x),
           friendPc' = [friendPc EXCEPT ![c] = to], friendPc[c] \in {"updateRequest", "blacklist"},
           FriendRoute(kind[c], to), kind[c] \in {"accept", "block"}
    PROVE  FriendInv'
<1>1. /\ friendPc'[c] = to /\ kind'[c] = kind[c] /\ who'[c] = who[c] /\ RequestOK(c)'
  BY LocksCall DEF FriendPC
<1>2. \A q \in Pair : lock'[FriendRow(q)] # c
  BY LocksFacts, FriendRowFacts DEF FriendInv, LocksOK, Holds
<1>3. LocksOK(c)'
  BY <1>1, <1>2 DEF LocksOK, Holds
<1>4. CallOK(c)'
  BY <1>1, <1>3 DEF CallOK
<1>5. QED
  BY <1>4, LocksInv DEF FriendPC

\* COMMIT writes both rows of a pair or none: the friendship stays symmetric, and
\* a request that becomes accepted has its two rows written with it.
LEMMA CommitTables ==
    ASSUME FriendInv, NEW c \in Call, Commit(c)
    PROVE  /\ friend' \in [Pair -> {"none", "normal", "deleted"}]
           /\ status' \in [Req -> {"none", "pending", "accepted", "rejected"}]
           /\ pairOf' \in [Req -> Pair \cup {NoPair}]
           /\ blocked' \subseteq Pair /\ conv' \subseteq Pair
           /\ \A r \in Req : status'[r] # "none" => pairOf'[r] \in Pair
           /\ Symmetric' /\ AcceptedWereFriends' /\ RequestsKept
           /\ \A d \in Call \ {c} : Creating(d) => status'[rq[d]] = "none"
<1> DEFINE k == kind[c]
           new == IF k \in {"delete", "block"} THEN "deleted" ELSE "normal"
<1>1. /\ friendPc[c] = "commit"
      /\ friend' = [p \in Pair |-> IF lock[FriendRow(p)] = c THEN new ELSE friend[p]]
      /\ status' = [r \in Req |-> IF r # rq[c] THEN status[r]
                                  ELSE IF k = "send" THEN "pending" ELSE "accepted"]
      /\ pairOf' = [r \in Req |-> IF r = rq[c] /\ k # "accept" THEN who[c] ELSE pairOf[r]]
      /\ blocked' = IF k = "block" THEN blocked \cup {who[c]} ELSE blocked
      /\ conv' = conv
  BY DEF Commit
<1>2. /\ k \in {"send", "auto", "accept", "delete", "block"}
      /\ who[c] \in Pair /\ Rev(who[c]) \in Pair /\ Rev(Rev(who[c])) = who[c]
      /\ RequestOK(c) /\ LocksOK(c)
  BY <1>1, RevFacts DEF FriendInv, FriendTypeOK, FriendRoute
<1>3. new \in {"normal", "deleted"}
  OBVIOUS
<1>4. /\ friend' \in [Pair -> {"none", "normal", "deleted"}]
      /\ status' \in [Req -> {"none", "pending", "accepted", "rejected"}]
      /\ pairOf' \in [Req -> Pair \cup {NoPair}]
      /\ blocked' \subseteq Pair /\ conv' \subseteq Pair
  <2> HIDE DEF new
  <2>1. QED
    BY <1>1, <1>2, <1>3 DEF FriendInv, FriendTypeOK
<1>5. Symmetric'
  <2> SUFFICES ASSUME NEW p \in Pair PROVE friend'[p] = friend'[Rev(p)]
    BY DEF Symmetric
  <2>1. Rev(p) \in Pair /\ Rev(Rev(p)) = p /\ friend[p] = friend[Rev(p)]
    BY RevFacts DEF FriendInv, Symmetric
  <2>2. lock[FriendRow(p)] = c <=> lock[FriendRow(Rev(p))] = c
    BY <1>1, <1>2, <2>1 DEF LocksOK, Holds
  <2> HIDE DEF new
  <2>3. QED
    BY <1>1, <2>1, <2>2
<1>6. \A r \in Req : r = rq[c] => k \in {"send", "auto", "accept"}
  BY <1>1, <1>2, FriendAssumption DEF RequestOK
<1>7. RequestsKept
  <2> SUFFICES ASSUME NEW r \in Req, status[r] # "none"
               PROVE  status'[r] # "none" /\ pairOf'[r] = pairOf[r]
    BY DEF RequestsKept
  <2>1. r = rq[c] => k = "accept"
    BY <1>1, <1>2, <1>6 DEF RequestOK, Creating
  <2>2. QED
    BY <1>1, <2>1
<1>8. \A r \in Req : status'[r] # "none" => pairOf'[r] \in Pair
  <2> SUFFICES ASSUME NEW r \in Req, status'[r] # "none" PROVE pairOf'[r] \in Pair
    OBVIOUS
  <2>1. CASE status[r] # "none"
    BY <1>7, <2>1 DEF RequestsKept, FriendInv, FriendTypeOK
  <2>2. CASE status[r] = "none"
    <3>1. r = rq[c] /\ k # "accept"
      BY <1>1, <1>2, <2>2 DEF RequestOK
    <3>2. QED
      BY <1>1, <1>2, <3>1
  <2>3. QED
    BY <2>1, <2>2
<1>9. AcceptedWereFriends'
  <2> SUFFICES ASSUME NEW r \in Req, status'[r] = "accepted" PROVE friend'[pairOf'[r]] # "none"
    BY DEF AcceptedWereFriends
  <2>1. \A p \in Pair : friend[p] # "none" => friend'[p] # "none"
    BY <1>1, <1>3
  <2>2. CASE r # rq[c]
    <3>1. status[r] = "accepted" /\ pairOf'[r] = pairOf[r] /\ pairOf[r] \in Pair
      BY <1>1, <2>2 DEF FriendInv, FriendTypeOK
    <3>2. QED
      BY <2>1, <3>1 DEF FriendInv, AcceptedWereFriends
  <2>3. CASE r = rq[c]
    <3>1. k \in {"auto", "accept"}
      BY <1>1, <1>6, <2>3
    <3>2. lock[FriendRow(who[c])] = c /\ lock[FriendRow(Rev(who[c]))] = c
      BY <1>1, <1>2, <3>1 DEF LocksOK, Holds
    <3>3. pairOf'[r] \in {who[c], Rev(who[c])}
      <4>1. CASE k = "auto"
        BY <1>1, <2>3, <4>1
      <4>2. CASE k = "accept"
        <5>1. pairOf'[r] = pairOf[r] /\ who[c] = Rev(pairOf[r]) /\ pairOf[r] \in Pair
          BY <1>1, <1>2, <2>3, <4>2 DEF RequestOK, FriendInv, FriendTypeOK
        <5>2. QED
          BY <5>1, RevFacts
      <4>3. QED
        BY <3>1, <4>1, <4>2
    <3>4. friend'[who[c]] = new /\ friend'[Rev(who[c])] = new
      BY <1>1, <1>2, <3>2
    <3>5. QED
      BY <1>3, <3>3, <3>4
  <2>4. QED
    BY <2>2, <2>3
<1>10. \A d \in Call \ {c} : Creating(d) => status'[rq[d]] = "none"
  BY <1>1 DEF FriendInv, RequestOK
<1>11. QED
  BY <1>4, <1>5, <1>7, <1>8, <1>9, <1>10

\* The commit writes both rows.
LEMMA CommitInv ==
    ASSUME FriendInv, NEW c \in Call, Commit(c)
    PROVE  FriendInv'
<1>1. CASE Returns(c)
  <2>1. Ended(c) /\ made' \in 0..MaxCalls /\ errors' \in 0..MaxErrors
    BY <1>1 DEF Returns, Ended, FriendInv, FriendTypeOK
  <2>2. QED
    BY <2>1, CommitTables, EndedStep
<1>2. CASE /\ kind[c] = "auto" /\ FriendGoto(c, "commit", "conv1") /\ Release(c)
           /\ UNCHANGED <<args, made, errors>>
  <2>1. /\ friendPc' = [friendPc EXCEPT ![c] = "conv1"] /\ UNCHANGED <<kind, who, rq, made, errors>>
        /\ friendPc[c] = "commit"
    BY <1>2 DEF FriendGoto, args
  <2>2. FriendTypeOK'
    BY <1>2, <2>1, CommitTables, ReleaseFacts DEF FriendTypeOK, FriendInv, FriendPC
  <2>3. Others(c)
    <3>1. \A d \in Call \ {c} : Creating(d) => rq[c] # rq[d]
      BY DEF FriendInv, RequestOK
    <3>2. \A d \in Call \ {c} : friendPc'[d] = friendPc[d]
      BY <2>1 DEF FriendInv, FriendTypeOK
    <3>3. QED
      BY <1>2, <2>1, <3>1, <3>2, CommitTables, ReleaseFacts DEF Others
  <2>4. CallOK(c)'
    <3>1. friendPc'[c] = "conv1" /\ kind'[c] = "auto"
      BY <1>2, <2>1 DEF FriendInv, FriendTypeOK
    <3>2. \A p \in Pair : lock'[FriendRow(p)] # c
      BY <1>2, ReleaseFacts
    <3>3. QED
      BY <3>1, <3>2 DEF CallOK, FriendRoute, RequestOK, Creating, LocksOK, Holds
  <2>5. \A d \in Call : CallOK(d)'
    BY <2>3, <2>4, CommitTables, OthersKept
  <2>6. QED
    BY <2>2, <2>5, CommitTables DEF FriendInv, CallOK
<1>3. QED
  BY <1>1, <1>2 DEF Commit

\* A rejection writes the status of a request that has a row.
LEMMA UpdateRequestInv ==
    ASSUME FriendInv, NEW c \in Call, UpdateRequest(c)
    PROVE  FriendInv'
<1>1. CASE kind[c] = "accept" /\ FriendGoto(c, "updateRequest", "insert1") /\ Locks(c, ReqRow(rq[c]))
  <2>1. rq[c] \in Req
    BY <1>1 DEF FriendGoto, FriendInv, RequestOK
  <2>2. ReqRow(rq[c]) \in Row /\ \A p \in Pair : FriendRow(p) # ReqRow(rq[c])
    BY <2>1, FriendRowFacts
  <2>3. QED
    BY <1>1, <2>2, OtherRowInv DEF FriendGoto, FriendRoute
<1>2. CASE /\ kind[c] = "reject" /\ friendPc[c] = "updateRequest"
           /\ status' = [status EXCEPT ![rq[c]] = "rejected"]
           /\ Returns(c) /\ UNCHANGED <<friend, pairOf, blocked, conv>>
  <2>1. Ended(c) /\ made' \in 0..MaxCalls /\ errors' \in 0..MaxErrors
    BY <1>2 DEF Returns, Ended, FriendInv, FriendTypeOK
  <2>2. rq[c] \in Req /\ status[rq[c]] # "none"
    BY <1>2 DEF FriendInv, RequestOK
  <2>3. Symmetric' /\ AcceptedWereFriends' /\ RequestsKept
    BY <1>2, <2>2 DEF FriendInv, FriendTypeOK, Symmetric, AcceptedWereFriends, RequestsKept
  <2>4. \A d \in Call \ {c} : Creating(d) => status'[rq[d]] = "none"
    BY <1>2, <2>2 DEF FriendInv, FriendTypeOK, RequestOK
  <2>5. /\ status' \in [Req -> {"none", "pending", "accepted", "rejected"}]
        /\ \A r \in Req : status'[r] # "none" => pairOf'[r] \in Pair
    BY <1>2, <2>2 DEF FriendInv, FriendTypeOK
  <2>6. QED
    BY <1>2, <2>1, <2>3, <2>4, <2>5, EndedStep DEF FriendInv, FriendTypeOK
<1>3. QED
  BY <1>1, <1>2 DEF UpdateRequest

\* The conversations of the other service.
LEMMA ConversationInv ==
    ASSUME FriendInv, NEW c \in Call, CreateFriendConversation(c)
    PROVE  FriendInv'
<1>1. friendPc[c] \in {"conv1", "conv2"} /\ who[c] \in Pair /\ Rev(who[c]) \in Pair
  BY RevFacts DEF CreateFriendConversation, FriendGoto, FriendInv, FriendTypeOK
<1>2. /\ UNCHANGED <<friend, status, pairOf, blocked>> /\ conv' \subseteq Pair
  BY <1>1 DEF CreateFriendConversation, FriendInv, FriendTypeOK
<1>3. /\ Symmetric' /\ AcceptedWereFriends' /\ RequestsKept
      /\ \A d \in Call : Creating(d) => status'[rq[d]] = "none"
  BY <1>2 DEF FriendInv, Symmetric, AcceptedWereFriends, RequestsKept, RequestOK
<1>4. CASE Returns(c)
  <2>1. Ended(c) /\ made' \in 0..MaxCalls /\ errors' \in 0..MaxErrors
    BY <1>4 DEF Returns, Ended, FriendInv, FriendTypeOK
  <2>2. QED
    BY <1>2, <1>3, <2>1, EndedStep DEF FriendInv, FriendTypeOK
<1>5. CASE FriendGoto(c, "conv1", "conv2") /\ UNCHANGED <<lock, args, made, errors>>
  <2> USE DEF args, FriendGoto
  <2>1. FriendTypeOK'
    BY <1>2, <1>5 DEF FriendInv, FriendTypeOK, FriendPC
  <2>2. Others(c)
    BY <1>3, <1>5 DEF Others, FriendInv, FriendTypeOK, RequestOK
  <2>3. CallOK(c)'
    <3>1. friendPc'[c] = "conv2" /\ kind'[c] = "auto"
      BY <1>5 DEF FriendInv, FriendTypeOK, FriendRoute
    <3>2. \A p \in Pair : lock'[FriendRow(p)] # c
      BY <1>5 DEF FriendInv, LocksOK, Holds
    <3>3. QED
      BY <3>1, <3>2 DEF CallOK, FriendRoute, RequestOK, Creating, LocksOK, Holds
  <2>4. \A d \in Call : CallOK(d)'
    BY <1>3, <2>2, <2>3, OthersKept
  <2>5. QED
    BY <1>3, <2>1, <2>4 DEF FriendInv, CallOK
<1>6. QED
  BY <1>4, <1>5 DEF CreateFriendConversation

\* A check that passes or fails.
LEMMA CheckInv ==
    ASSUME FriendInv, NEW c \in Call, NEW from, NEW ok, NEW to \in FriendPC, FriendCheck(c, from, ok, to),
           from \notin {"idle", "insert1", "insert2", "update2", "commit"},
           to \notin {"idle", "insert1", "insert2", "update2", "commit"},
           FriendRoute(kind[c], to)
    PROVE  FriendInv'
<1>1. CASE friendPc[c] = from /\ FriendGoto(c, from, to) /\ UNCHANGED <<tables, lock, args, made, errors>>
  BY <1>1, CheckPasses DEF FriendGoto
<1>2. CASE Fails(c)
  <2>1. errors' \in 0..MaxErrors
    BY <1>2 DEF Fails, Returns, FriendInv, FriendTypeOK
  <2>2. Ended(c) /\ UNCHANGED tables /\ made' = made
    BY <1>2 DEF Fails, Returns, Ended
  <2>3. QED
    BY <2>1, <2>2, FailsInv
<1>3. QED
  BY <1>1, <1>2 DEF FriendCheck

\* Every step of a call keeps FriendInv.
LEMMA WorkInv ==
    ASSUME FriendInv, NEW c \in Call, Work(c)
    PROVE  FriendInv'
<1>0. FriendRoute(kind[c], friendPc[c])
  BY DEF FriendInv
<1> USE <1>0
<1>1. ASSUME Fails(c) PROVE FriendInv'
  <2>1. errors' \in 0..MaxErrors
    BY <1>1 DEF Fails, Returns, FriendInv, FriendTypeOK
  <2>2. Ended(c) /\ UNCHANGED tables /\ made' = made
    BY <1>1 DEF Fails, Returns, Ended
  <2>3. QED
    BY <2>1, <2>2, FailsInv
<1>2. CASE IsBlocked(c)
  <2>1. FriendRoute(kind[c], "isFriend")
    BY <1>2 DEF IsBlocked, FriendCheck, FriendRoute
  <2>2. QED
    BY <1>2, <2>1, CheckInv DEF IsBlocked, FriendPC
<1>3. CASE IsFriend(c)
  <2>1. CASE kind[c] = "send" /\ FriendCheck(c, "isFriend", friend[who[c]] # "normal", "pending")
    BY <2>1, CheckInv DEF FriendPC, FriendRoute
  <2>2. CASE kind[c] = "delete" /\ FriendCheck(c, "isFriend", friend[who[c]] = "normal", "update1")
    BY <2>2, CheckInv DEF FriendPC, FriendRoute
  <2>3. CASE /\ kind[c] = "block"
             /\ FriendGoto(c, "isFriend", IF friend[who[c]] = "normal" THEN "update1" ELSE "commit")
             /\ UNCHANGED <<tables, lock, args, made, errors>>
    <3>1. PICK to \in {"update1", "commit"} : FriendGoto(c, "isFriend", to)
      BY <2>3
    <3>2. QED
      BY <2>3, <3>1, CheckPasses DEF FriendGoto, FriendPC, FriendRoute
  <2>4. QED
    BY <1>3, <2>1, <2>2, <2>3 DEF IsFriend
<1>4. CASE GetPendingRequest(c)
  <2>1. FriendRoute(kind[c], "settings")
    BY <1>4 DEF GetPendingRequest, FriendCheck, FriendRoute
  <2>2. QED
    BY <1>4, <2>1, CheckInv DEF GetPendingRequest, FriendPC
<1>5. CASE GetSettings(c) \/ (\E r \in Req : CreateRequest(c, r))
  BY <1>5, GetSettingsInv, CreateRequestInv
<1>6. CASE CreateBatch1(c) \/ DeleteBidirectional1(c)
  BY <1>6, FirstRowInv
<1>7. CASE CreateBatch2(c) \/ DeleteBidirectional2(c)
  BY <1>7, SecondRowInv
<1>8. CASE Duplicate(c) \/ Deadlock(c)
  BY <1>1, <1>8 DEF Duplicate, Deadlock
<1>9. CASE GetRequest(c)
  <2>1. FriendRoute(kind[c], "updateRequest")
    BY <1>9 DEF GetRequest, FriendCheck, FriendRoute
  <2>2. QED
    BY <1>9, <2>1, CheckInv DEF GetRequest, FriendPC
<1>10. CASE UpdateRequest(c)
  BY <1>10, UpdateRequestInv
<1>11. CASE GetBlocked(c)
  <2>1. FriendRoute(kind[c], "blacklist")
    BY <1>11 DEF GetBlocked, FriendCheck, FriendRoute
  <2>2. QED
    BY <1>11, <2>1, CheckInv DEF GetBlocked, FriendPC
<1>12. CASE CreateBlacklist(c)
  <2>1. CASE FriendGoto(c, "blacklist", "isFriend") /\ Locks(c, BlockRow(who[c]))
    <3>1. who[c] \in Pair
      BY <2>1 DEF FriendGoto, FriendInv, FriendTypeOK
    <3>2. BlockRow(who[c]) \in Row /\ \A p \in Pair : FriendRow(p) # BlockRow(who[c])
      BY <3>1, FriendRowFacts
    <3>3. QED
      BY <2>1, <3>2, OtherRowInv DEF FriendGoto, FriendRoute
  <2>2. QED
    BY <1>1, <1>12, <2>1 DEF CreateBlacklist
<1>13. CASE Commit(c) \/ CreateFriendConversation(c)
  BY <1>13, CommitInv, ConversationInv
<1>14. QED
  BY <1>2, <1>3, <1>4, <1>5, <1>6, <1>7, <1>8, <1>9, <1>10, <1>11, <1>12, <1>13 DEF Work

\* Every step keeps FriendInv.
LEMMA FriendNextInv == FriendInv /\ [FriendNext]_friendVars => FriendInv'
<1> SUFFICES ASSUME FriendInv, [FriendNext]_friendVars PROVE FriendInv'
  OBVIOUS
<1>1. ASSUME NEW c \in Call, Work(c) PROVE FriendInv'
  BY <1>1, WorkInv
<1>2. ASSUME NEW c \in Call, Error(c) PROVE FriendInv'
  <2>1. errors' \in 0..MaxErrors
    BY <1>2, FriendAssumption DEF Error, FriendInv, FriendTypeOK
  <2>2. Ended(c) /\ UNCHANGED tables /\ made' = made
    BY <1>2 DEF Error, Ended
  <2>3. QED
    BY <2>1, <2>2, FailsInv
<1>3. ASSUME NEW c \in Call, NEW p \in Pair,
             SendFriendRequest(c, p) \/ DeleteFriend(c, p) \/ AddToBlacklist(c, p)
      PROVE  FriendInv'
  BY <1>3, FriendStarts
     DEF SendFriendRequest, DeleteFriend, AddToBlacklist, FriendRoute, Kind
<1>4. ASSUME NEW c \in Call, NEW r \in Req, NEW a \in {"accept", "reject"},
             HandleFriendRequest(c, r, a)
      PROVE  FriendInv'
  <2>1. Rev(pairOf[r]) \in Pair
    BY <1>4, RevFacts DEF HandleFriendRequest, FriendInv, FriendTypeOK
  <2>2. FriendRoute(a, "getRequest") /\ a \in Kind
    BY DEF FriendRoute, Kind
  <2>3. QED
    BY <1>4, <2>1, <2>2, FriendStarts DEF HandleFriendRequest
<1>5. ASSUME NEW p \in Pair, RemoveFromBlacklist(p) PROVE FriendInv'
  BY <1>5 DEF RemoveFromBlacklist, args, FriendInv, FriendTypeOK, Symmetric, AcceptedWereFriends,
              RequestOK, Creating, LocksOK, Holds
<1>6. CASE UNCHANGED friendVars
  BY <1>6 DEF friendVars, FriendInv, FriendTypeOK, Symmetric, AcceptedWereFriends,
              RequestOK, Creating, LocksOK, Holds
<1>7. CASE FriendNext
  <2>1. CASE \E c \in Call : Work(c) \/ Error(c)
    BY <1>1, <1>2, <2>1
  <2>2. CASE \E c \in Call, p \in Pair :
               SendFriendRequest(c, p) \/ DeleteFriend(c, p) \/ AddToBlacklist(c, p)
    BY <1>3, <2>2
  <2>3. CASE \E c \in Call, r \in Req, action \in {"accept", "reject"} :
               HandleFriendRequest(c, r, action)
    BY <1>4, <2>3
  <2>4. CASE \E p \in Pair : RemoveFromBlacklist(p)
    BY <1>5, <2>4
  <2>5. QED
    BY <1>7, <2>1, <2>2, <2>3, <2>4 DEF FriendNext
<1>8. QED
  BY <1>6, <1>7

\* FriendInv holds in the beginning.
LEMMA FriendInitInv == FriendInit => FriendInv
<1> SUFFICES ASSUME FriendInit PROVE FriendInv
  OBVIOUS
<1>1. FriendTypeOK
  BY FriendAssumption DEF FriendInit, FriendTypeOK, FriendPC, Kind
<1>2. Symmetric /\ AcceptedWereFriends
  BY RevFacts DEF FriendInit, Symmetric, AcceptedWereFriends
<1>3. \A c \in Call : FriendRoute(kind[c], friendPc[c]) /\ RequestOK(c)
  BY DEF FriendInit, FriendRoute, RequestOK, Creating
<1>4. \A c \in Call, p \in Pair : lock[FriendRow(p)] # c
  BY FriendAssumption, FriendRowFacts DEF FriendInit
<1>5. \A c \in Call : LocksOK(c)
  BY <1>4 DEF FriendInit, LocksOK, Holds
<1>6. QED
  BY <1>1, <1>2, <1>3, <1>5 DEF FriendInv

\* FriendInv holds always.
LEMMA FriendInvariance == FriendSpec => []FriendInv
  BY FriendInitInv, FriendNextInv, PTL DEF FriendSpec

\* Every variable of Friendship keeps its type; a call at work knows its users.
THEOREM FriendTypeCorrect == FriendSpec => []FriendTypeOK
<1>1. FriendInv => FriendTypeOK
  BY DEF FriendInv
<1>2. QED
  BY <1>1, FriendInvariance, PTL

\* For any number of users and overlapping calls: friendship is symmetric in
\* every committed state, whatever overlaps, deadlocks or fails.
THEOREM SymmetricCorrect == FriendSpec => []Symmetric
<1>1. FriendInv => Symmetric
  BY DEF FriendInv
<1>2. QED
  BY <1>1, FriendInvariance, PTL

\* For any number of users and overlapping calls: a request is accepted together
\* with its friendship or not at all.
THEOREM AcceptedCorrect == FriendSpec => []AcceptedWereFriends
<1>1. FriendInv => AcceptedWereFriends
  BY DEF FriendInv
<1>2. QED
  BY <1>1, FriendInvariance, PTL
=============================================================================
