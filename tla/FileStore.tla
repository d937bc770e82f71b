------------------------------ MODULE FileStore ------------------------------
(***************************************************************************)
(* The files of the file service: the rows of the files table, the objects *)
(* in MinIO the rows stand for, and the calls that keep the two together.  *)
(*                                                                         *)
(* The client uploads and downloads by presigned URL, past the service.    *)
(* CompleteUpload and DeleteFile read the row, talk to MinIO and write the *)
(* row in separate steps, so calls for the same file interleave.           *)
(***************************************************************************)
EXTENDS Integers, FiniteSets

CONSTANTS File,          \* file ids; every GenerateUploadToken draws a new one
          FileUser,      \* users
          NoUser,        \* owner of an id that is not drawn yet
          FileCall,      \* CompleteUpload and DeleteFile calls in flight
          NoFile,        \* no request
          FileSize,      \* file_size of a request, in MB
          MaxFileCalls   \* bound: how many such calls are made

ASSUME FileAssumption ==
    /\ NoUser \notin FileUser
    /\ NoFile \notin File
    /\ MaxFileCalls \in Nat

VARIABLES
    fstatus,   \* files.status; "none": no row
    fowner,    \* files.user_id
    fexpired,  \* files whose expires_at has passed
    object,    \* files whose object is in MinIO
    fpc,       \* where each call is
    ffile,     \* the file it is about
    fmade,     \* calls made so far
    excused,   \* files whose object was removed while the row lives on
    leftover   \* files whose object a deletion did not remove

fileVars == <<fstatus, fowner, fexpired, object, fpc, ffile, fmade, excused, leftover>>
fcalls   == <<fpc, ffile, fmade>>

FilePC == {"idle", "stat", "save", "remove", "delete"}

FileTypeOK ==
    /\ fstatus \in [File -> {"none", "processing", "active", "deleted"}]
    /\ fowner \in [File -> FileUser \cup {NoUser}]
    /\ fexpired \subseteq File
    /\ object \subseteq File
    /\ fpc \in [FileCall -> FilePC]
    /\ ffile \in [FileCall -> File \cup {NoFile}]
    /\ fmade \in 0..MaxFileCalls
    /\ excused \subseteq File
    /\ leftover \subseteq File
    /\ \A c \in FileCall : fpc[c] # "idle" => ffile[c] \in File

FileInit ==
    /\ fstatus = [f \in File |-> "none"]
    /\ fowner = [f \in File |-> NoUser]
    /\ fexpired = {}
    /\ object = {}
    /\ fpc = [c \in FileCall |-> "idle"]
    /\ ffile = [c \in FileCall |-> NoFile]
    /\ fmade = 0
    /\ excused = {}
    /\ leftover = {}

\* Some call for f is between the removal of the object and that of the row.
Deleting(f)   == \E c \in FileCall : fpc[c] = "delete" /\ ffile[c] = f
\* Some call for f has seen the object and is about to save the row.
Completing(f) == \E c \in FileCall : fpc[c] = "save" /\ ffile[c] = f

FileGoto(c, from, to) == fpc[c] = from /\ fpc' = [fpc EXCEPT ![c] = to]

FileEnds(c) ==
    /\ fpc' = [fpc EXCEPT ![c] = "idle"]
    /\ ffile' = [ffile EXCEPT ![c] = NoFile]
    /\ fmade' = fmade

-----------------------------------------------------------------------------
\* GetByFileIDAndUserID: the row, if it is the user's and not deleted.
Visible(f, u) == fowner[f] = u /\ fstatus[f] \notin {"none", "deleted"}

\* What the reading calls answer to user u.
GetFileInfo(u)          == {f \in File : Visible(f, u)}
BatchGetFileInfo(u, S)  == {f \in S : fstatus[f] \notin {"none", "deleted"} /\ fowner[f] = u}
ListUserFiles(u)        == {f \in File : fowner[f] = u /\ fstatus[f] = "active"}
GenerateDownloadURL(u)  == {f \in GetFileInfo(u) : fstatus[f] = "active" /\ f \notin fexpired}

-----------------------------------------------------------------------------
\* The largest file of each type, in MB; other types are not allowed.
MaxSize == [image |-> 10, video |-> 100, audio |-> 20, file |-> 50, log |-> 50]

ValidateFileSize(type, size) == type \in DOMAIN MaxSize /\ size <= MaxSize[type]

\* GenerateUploadToken inserts the row and hands out the URL of the upload.
GenerateUploadToken(u, f, type, size) ==
    /\ ValidateFileSize(type, size)
    /\ fstatus[f] = "none"
    /\ fstatus' = [fstatus EXCEPT ![f] = "processing"]
    /\ fowner' = [fowner EXCEPT ![f] = u]
    /\ UNCHANGED <<fexpired, object, fcalls, excused, leftover>>

\* The client uploads with the URL.  For an hour it works whatever has become
\* of the row, so it can put back an object that a deletion has removed.
PutObject(f) ==
    /\ fstatus[f] # "none"
    /\ object' = object \cup {f}
    /\ excused' = excused \ {f}
    /\ leftover' = IF fstatus[f] = "deleted" \/ Deleting(f)
                   THEN leftover \cup {f} ELSE leftover
    /\ UNCHANGED <<fstatus, fowner, fexpired, fcalls>>

\* expires_at passes.
FileExpires(f) ==
    /\ fstatus[f] # "none"
    /\ fexpired' = fexpired \cup {f}
    /\ UNCHANGED <<fstatus, fowner, object, fcalls, excused, leftover>>

\* CompleteUpload and DeleteFile read the row; without one they refuse.
FileBegins(c, u, f, to) ==
    /\ fmade < MaxFileCalls
    /\ fmade' = fmade + 1
    /\ Visible(f, u)
    /\ FileGoto(c, "idle", to)
    /\ ffile' = [ffile EXCEPT ![c] = f]
    /\ UNCHANGED <<fstatus, fowner, fexpired, object, excused, leftover>>

CompleteUpload(c, u, f) ==
    /\ fstatus[f] = "processing"
    /\ FileBegins(c, u, f, "stat")

\* Mutant: the upload is completed without a look at the object.
StatNothing(c) ==
    /\ FileGoto(c, "stat", "save")
    /\ UNCHANGED <<fstatus, fowner, fexpired, object, ffile, fmade, excused, leftover>>

\* CompleteUpload goes on only if the object is there.
StatObject(c) ==
    /\ FileGoto(c, "stat", "save")
    /\ ffile[c] \in object
    /\ UNCHANGED <<fstatus, fowner, fexpired, object, ffile, fmade, excused, leftover>>

\* It saves the row it has read, as active, whatever the row is by now.
Save(c) ==
    /\ fpc[c] = "save"
    /\ fstatus' = [fstatus EXCEPT ![ffile[c]] = "active"]
    /\ FileEnds(c)
    /\ UNCHANGED <<fowner, fexpired, object, excused, leftover>>

DeleteFile(c, u, f) == FileBegins(c, u, f, "remove")

\* DeleteFile removes the object, under a completion that may have seen it ...
RemoveObject(c) ==
    LET f == ffile[c] IN
    /\ FileGoto(c, "remove", "delete")
    /\ object' = object \ {f}
    /\ excused' = IF Completing(f) THEN excused \cup {f} ELSE excused
    /\ leftover' = leftover \ {f}
    /\ UNCHANGED <<fstatus, fowner, fexpired, ffile, fmade>>

\* ... or fails to, which it only logs ...
RemoveObjectFails(c) ==
    LET f == ffile[c] IN
    /\ FileGoto(c, "remove", "delete")
    /\ leftover' = IF f \in object THEN leftover \cup {f} ELSE leftover
    /\ UNCHANGED <<fstatus, fowner, fexpired, object, ffile, fmade, excused>>

\* ... and then marks the row deleted.
DeleteRow(c) ==
    /\ fpc[c] = "delete"
    /\ fstatus' = [fstatus EXCEPT ![ffile[c]] = "deleted"]
    /\ FileEnds(c)
    /\ UNCHANGED <<fowner, fexpired, object, excused, leftover>>

\* The call fails: the database, or in "stat" the object that is not there.
\* A DeleteFile that fails at the row leaves it without its object.
FileCallFails(c) ==
    /\ fpc[c] # "idle"
    /\ excused' = IF fpc[c] = "delete" /\ ffile[c] \notin object
                  THEN excused \cup {ffile[c]} ELSE excused
    /\ FileEnds(c)
    /\ UNCHANGED <<fstatus, fowner, fexpired, object, leftover>>

FileNext ==
    \/ \E f \in File :
         \/ PutObject(f) \/ FileExpires(f)
         \/ \E u \in FileUser :
              \/ \E type \in DOMAIN MaxSize \cup {"unspecified"}, size \in FileSize :
                    GenerateUploadToken(u, f, type, size)
              \/ \E c \in FileCall : CompleteUpload(c, u, f) \/ DeleteFile(c, u, f)
    \/ \E c \in FileCall :
         \/ StatObject(c) \/ Save(c)
         \/ RemoveObject(c) \/ RemoveObjectFails(c) \/ DeleteRow(c) \/ FileCallFails(c)

FileSpec == FileInit /\ [][FileNext]_fileVars

-----------------------------------------------------------------------------
\* DeleteFile removes the object before the row "so that, if DB deletion fails,
\* we keep the record (and can retry) instead of leaving orphaned objects".
\* A file that is listed or can be downloaded has its object unless a DeleteFile
\* is on its way, has failed at the row, or removed it under a CompleteUpload;
\* and an object has a row its owner can see unless MinIO refused to remove it or
\* the client uploaded again.
RowMatchesObject ==
    /\ \A u \in FileUser : \A f \in ListUserFiles(u) \cup GenerateDownloadURL(u) :
         f \in object \/ f \in excused \/ Deleting(f)
    /\ \A f \in object \ leftover :
         \E u \in FileUser : f \in BatchGetFileInfo(u, object)
=============================================================================
