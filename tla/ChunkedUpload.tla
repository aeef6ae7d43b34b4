--------------------------- MODULE ChunkedUpload ---------------------------
(* The chunked upload: a tab checks whether its document is known, reserves *)
(* quota for a file row, sends chunks into a directory of the server and    *)
(* asks for the merge, which copies the chunks into one temporary file,     *)
(* verifies its hash, stores it as the file's object and queues the file.   *)
(* Requests of several tabs for one document meet on the row, on the chunk  *)
(* directory, on the temporary file and on the object, none of which a      *)
(* merge locks. Rows are removed by the deletion, whose steps CleanupJobs   *)
(* details, and by the maintenance.                                         *)
EXTENDS Integers, FiniteSets, FiniteSetsExt

CONSTANTS
    File,        \* identities of file rows, used one after the other
    Chunked,     \* the files whose chunks are sent (bound); others are reserved
    Content,     \* documents, by hash, scope and conversion profile
    Tab,         \* browser tabs of one user
    Size,        \* bytes of a document
    Quota,       \* MAX_USER_STORAGE_BYTES
    ActiveQuota, \* MAX_USER_ACTIVE_UPLOAD_BYTES
    None

ASSUME ChunkedUploadAssumption ==
    /\ Size \in [Content -> Nat \ {0}]
    /\ Chunked \subseteq File
    /\ Quota \in Nat /\ ActiveQuota \in Nat /\ IsFiniteSet(File)
    /\ None \notin File \cup Content \cup Tab

VARIABLES
    row,      \* files
    original, \* the stored original of a file
    job,      \* files with a queued cleanup job
    dir,      \* uploads/temp/<file>: the chunks
    temp,     \* uploads/temp/<file>_merged, and who opened it last
    writing,  \* files to which a chunk is being written
    merge,    \* the merge requests
    overlap,  \* history: files of which two merges ran at once
    orphan    \* history: files whose object was stored by a merge that did
              \* not record it

chunkedVars == <<row, original, job, dir, temp, writing, merge, overlap, orphan>>
fileRows == <<row, original, job>>
disk == <<dir, temp>>
history == <<overlap, orphan>>

Status == {"unused", "uploading", "failed", "pending", "completed",
           "deleting", "gone"}
Absent == {"unused", "gone"}

ChunkedTypeOK ==
    /\ row \in [File -> [st : Status, content : Content \cup {None},
                         key : BOOLEAN, reserved : Nat, storage : Nat]]
    /\ original \in [File -> {"none", "good", "bad"}]
    /\ job \subseteq File
    /\ dir \in [File -> {"absent", "partial", "torn", "whole"}]
    /\ temp \in [File -> [is : {"absent", "cut", "good", "bad"},
                          last : Tab \cup {None}]]
    /\ writing \subseteq File
    /\ merge \in [Tab -> [at : {"idle", "open", "copy", "check", "store",
                                "publish", "clean", "late", "reject", "fail"},
                          file : File \cup {None}]]
    /\ overlap \subseteq File /\ orphan \subseteq File

NoRow == [st |-> "unused", content |-> None, key |-> FALSE,
          reserved |-> 0, storage |-> 0]
NoTemp == [is |-> "absent", last |-> None]
NoMerge == [at |-> "idle", file |-> None]

ChunkedInit ==
    /\ row = [f \in File |-> NoRow] /\ original = [f \in File |-> "none"]
    /\ job = {}
    /\ dir = [f \in File |-> "absent"] /\ temp = [f \in File |-> NoTemp]
    /\ writing = {} /\ merge = [r \in Tab |-> NoMerge]
    /\ overlap = {} /\ orphan = {}

-----------------------------------------------------------------------------
(* Rows, claims and quota                                                   *)

Reserved(set) == MapThenSumSet(LAMBDA f : row[f].reserved, set)
Stored(set) == MapThenSumSet(LAMBDA f : row[f].storage, set)

(* The rows a document is claimed by: one at most, until the row is gone.   *)
Claimed(c) == {f \in File : row[f].content = c /\ row[f].st \notin Absent}

NeedsBytes(f) == row[f].st = "uploading" /\ ~row[f].key
Resumable(f) == ~row[f].key /\ row[f].st \in {"uploading", "failed"}

\* Mutant: what is stored already does not count.
FitsActiveOnly(bytes) == Reserved(File) + bytes <= ActiveQuota

(* ensureQuotaAvailable                                                     *)
Fits(bytes) ==
    /\ Reserved(File) + bytes <= ActiveQuota
    /\ Stored(File) + Reserved(File) + bytes <= Quota

(* The row that an upload of c goes to, after reserveUploadFile.            *)
Uploading(c) == [st |-> "uploading", content |-> c, key |-> FALSE,
                 reserved |-> Size[c], storage |-> 0]

-----------------------------------------------------------------------------
(* Reservation and chunks                                                   *)

(* checkFile: whether a tab is told that its document is there already. It  *)
(* changes nothing; a row that waits for bytes is resumed.                  *)
SaysExists(c) == \E f \in Claimed(c) : ~NeedsBytes(f)

(* reserveUploadFile, under a lock on the user: an existing row is resumed, *)
(* and gets back the quota it lost when it failed; a new row is inserted    *)
(* with its claim. Without quota, or when the row has its bytes, nothing    *)
(* changes.                                                                 *)
Reserve(c) ==
    /\ \/ \E f \in Claimed(c) :
            LET missing == Size[c] - row[f].reserved IN
            /\ Resumable(f) /\ (missing > 0 => Fits(missing))
            /\ row[f].st = "failed" \/ missing # 0
            /\ row' = [row EXCEPT ![f] = Uploading(c)]
       \/ /\ Claimed(c) = {} /\ Fits(Size[c])
          /\ \E f \in File :
               /\ row[f].st = "unused"
               /\ row' = [row EXCEPT ![f] = Uploading(c)]
    /\ UNCHANGED <<original, job, disk, writing, merge, history>>

(* initUpload, which the tab calls when no row waits for its document.      *)
InitUpload(c) == Reserve(c)

(* uploadChunk checks the row, and writes the chunk some time later.        *)
BeginChunk(f) ==
    /\ f \in Chunked /\ row[f].st = "uploading" /\ f \notin writing
    /\ writing' = writing \cup {f}
    /\ UNCHANGED <<fileRows, disk, merge, history>>

(* A write that dies, or that is still going on, leaves a short chunk.      *)
WriteChunk(f) ==
    /\ f \in writing /\ writing' = writing \ {f}
    /\ \E is \in {"partial", "torn", "whole"} :
         /\ (dir[f] = "absent") = (is = "partial")
         /\ dir' = [dir EXCEPT ![f] = is]
    /\ UNCHANGED <<fileRows, temp, merge, history>>

-----------------------------------------------------------------------------
(* mergeChunks                                                              *)

MergesAt(r, at) == merge[r].at = at
TargetOf(r) == merge[r].file
Next1(r, at) == merge' = [merge EXCEPT ![r].at = at]
MergeEnds(r) == merge' = [merge EXCEPT ![r] = NoMerge]
Merging(f) == {r \in Tab : merge[r].at # "idle" /\ merge[r].file = f}

(* The checks: the row waits for bytes, and every chunk is there. A chunk   *)
(* that is short is not noticed.                                            *)
BeginMerge(r, f) ==
    /\ MergesAt(r, "idle")
    /\ row[f].st = "uploading" /\ dir[f] \in {"torn", "whole"}
    /\ merge' = [merge EXCEPT ![r] = [at |-> "open", file |-> f]]
    /\ overlap' = IF Merging(f) = {} THEN overlap ELSE overlap \cup {f}
    /\ UNCHANGED <<fileRows, disk, writing, orphan>>

(* createWriteStream cuts a temporary file that is there.                   *)
OpenTemp(r) ==
    /\ MergesAt(r, "open")
    /\ temp' = [temp EXCEPT ![TargetOf(r)] = [is |-> "cut", last |-> r]]
    /\ Next1(r, "copy")
    /\ UNCHANGED <<fileRows, dir, writing, history>>

(* The chunks are copied in order. Whoever opened the file last decides     *)
(* what it holds; an earlier writer fills the same places with the same     *)
(* bytes. A file that was removed meanwhile stays removed.                  *)
Copy(r) ==
    LET f == TargetOf(r)
        copied == IF dir[f] = "whole" THEN "good" ELSE "bad"
    IN
    /\ MergesAt(r, "copy")
    /\ IF dir[f] \in {"absent", "partial"}
       THEN MergeEnds(r) /\ UNCHANGED temp
       ELSE /\ Next1(r, "check")
            /\ IF temp[f].is = "absent" THEN UNCHANGED temp
               ELSE \E is \in {copied} \cup (IF temp[f].last = r THEN {} ELSE {temp[f].is}) :
                      temp' = [temp EXCEPT ![f].is = is]
    /\ UNCHANGED <<fileRows, dir, writing, history>>

(* verifyMergedUploadFile                                                   *)
Verify(r) ==
    /\ MergesAt(r, "check")
    /\ CASE temp[TargetOf(r)].is = "absent" -> MergeEnds(r)
         [] temp[TargetOf(r)].is = "good" -> Next1(r, "store")
         [] OTHER -> Next1(r, "reject")
    /\ UNCHANGED <<fileRows, disk, writing, history>>

(* uploadFilePath sends what the temporary file holds now. If it fails the  *)
(* object may still have been stored.                                       *)
Store(r) ==
    LET f == TargetOf(r)
        sent == IF temp[f].is = "good" THEN "good" ELSE "bad"
    IN
    /\ MergesAt(r, "store")
    /\ \/ temp[f].is = "absent" /\ MergeEnds(r) /\ UNCHANGED <<original, orphan>>
       \/ /\ temp[f].is # "absent"
          /\ original' = [original EXCEPT ![f] = sent]
          /\ Next1(r, "publish") /\ UNCHANGED orphan
       \/ /\ temp[f].is # "absent" /\ MergeEnds(r)
          /\ \/ UNCHANGED <<original, orphan>>
             \/ /\ original' = [original EXCEPT ![f] = sent]
                /\ orphan' = IF row[f].key THEN orphan ELSE orphan \cup {f}
    /\ UNCHANGED <<row, job, disk, writing, overlap>>

(* updateFile with the object's key: a row that is deleting or gone is left *)
(* alone, and its cleanup is queued again for the object.                   *)
Record(f, st) ==
    IF row[f].st \in Absent \cup {"deleting"}
    THEN job' = job \cup {f} /\ UNCHANGED row
    ELSE /\ row' = [row EXCEPT ![f].st = st, ![f].key = TRUE, ![f].reserved = 0,
                               ![f].storage = Size[row[f].content]]
         /\ UNCHANGED job

(* The file is queued, or the database does not answer.                     *)
PublishMerge(r) ==
    /\ MergesAt(r, "publish")
    /\ \/ Record(TargetOf(r), "pending") /\ Next1(r, "clean")
       \/ Record(TargetOf(r), "pending") /\ Next1(r, "late")
       \/ UNCHANGED <<row, job>> /\ Next1(r, "late")
    /\ UNCHANGED <<original, disk, writing, history>>

(* The chunks and the temporary file are removed; either removal may fail.  *)
CleanUp(r) ==
    LET f == TargetOf(r) IN
    /\ MergesAt(r, "clean")
    /\ \/ UNCHANGED disk /\ Next1(r, "late")
       \/ dir' = [dir EXCEPT ![f] = "absent"] /\ UNCHANGED temp /\ Next1(r, "late")
       \/ /\ dir' = [dir EXCEPT ![f] = "absent"] /\ temp' = [temp EXCEPT ![f] = NoTemp]
          /\ MergeEnds(r)
    /\ UNCHANGED <<fileRows, writing, history>>

\* Mutant: the late failure gives the file's accounting up.
FailLateUnaccounted(r) ==
    LET f == TargetOf(r) IN
    /\ MergesAt(r, "late") /\ MergeEnds(r)
    /\ row' = [row EXCEPT ![f].st = "failed", ![f].key = TRUE, ![f].reserved = 0,
                          ![f].storage = 0]
    /\ UNCHANGED <<original, job, disk, writing, history>>

(* Something failed after the object was stored: the file is failed, with   *)
(* its object, whatever became of it since it was queued.                   *)
FailLate(r) ==
    LET f == TargetOf(r) IN
    /\ MergesAt(r, "late") /\ MergeEnds(r)
    /\ \/ Record(f, "failed") /\ UNCHANGED orphan
       \/ /\ UNCHANGED <<row, job>>
          /\ orphan' = IF row[f].key \/ f \in job THEN orphan ELSE orphan \cup {f}
    /\ UNCHANGED <<original, disk, writing, overlap>>

(* The hash does not match: the chunks go, and then the file is failed and  *)
(* its bytes are given back, whatever became of it.                         *)
Reject(r) ==
    /\ MergesAt(r, "reject") /\ Next1(r, "fail")
    /\ dir' = [dir EXCEPT ![TargetOf(r)] = "absent"]
    /\ temp' = [temp EXCEPT ![TargetOf(r)] = NoTemp]
    /\ UNCHANGED <<fileRows, writing, history>>

FailMerge(r) ==
    LET f == TargetOf(r) IN
    /\ MergesAt(r, "fail") /\ MergeEnds(r)
    /\ \/ UNCHANGED row
       \/ row' = IF row[f].st \in Absent \cup {"deleting"} THEN row
                 ELSE [row EXCEPT ![f].st = "failed", ![f].reserved = 0, ![f].storage = 0]
    /\ UNCHANGED <<original, job, disk, writing, history>>

(* The server dies during the merge.                                        *)
MergeDies(r) ==
    LET f == TargetOf(r) IN
    /\ ~MergesAt(r, "idle") /\ MergeEnds(r)
    /\ orphan' = IF merge[r].at \in {"publish", "late"} /\ ~row[f].key /\ f \notin job
                 THEN orphan \cup {f} ELSE orphan
    /\ UNCHANGED <<fileRows, disk, writing, overlap>>

Merge(r) ==
    \/ OpenTemp(r) \/ Copy(r) \/ Verify(r) \/ Store(r)
    \/ PublishMerge(r) \/ CleanUp(r) \/ FailLate(r) \/ Reject(r) \/ FailMerge(r)
    \/ MergeDies(r)

-----------------------------------------------------------------------------
(* What else happens to files                                               *)

OnlyRows == UNCHANGED <<disk, writing, merge, history>>

(* The ingestion takes pending files and failed files that have an object;  *)
(* FileIngestion has its steps, this is their outcome.                      *)
Ingest(f) ==
    /\ row[f].key /\ row[f].st \in {"pending", "failed"}
    /\ \E st \in {"completed", "failed"} : row' = [row EXCEPT ![f].st = st]
    /\ UNCHANGED <<original, job>> /\ OnlyRows

(* retryFailedFileForUser                                                   *)
Retry(f) ==
    /\ row[f].st = "failed" /\ row[f].key
    /\ row' = [row EXCEPT ![f].st = "pending"]
    /\ UNCHANGED <<original, job>> /\ OnlyRows

DeleteRow(f) ==
    /\ row[f].st \notin Absent \cup {"deleting"}
    /\ row' = [row EXCEPT ![f].st = "deleting"]
    /\ job' = job \cup {f}
    /\ UNCHANGED original /\ OnlyRows

(* The cleanup job deletes the object, and the row with its claim.          *)
FinishCleanup(f) ==
    /\ f \in job /\ job' = job \ {f}
    /\ original' = [original EXCEPT ![f] = "none"]
    /\ row' = IF row[f].st = "deleting"
              THEN [row EXCEPT ![f] = [NoRow EXCEPT !.st = "gone"]] ELSE row
    /\ OnlyRows

(* deleteAbandonedUploadingFiles: rows that wait for bytes since an hour.   *)
Abandon(f) ==
    /\ NeedsBytes(f)
    /\ row' = [row EXCEPT ![f] = [NoRow EXCEPT !.st = "gone"]]
    /\ UNCHANGED <<original, job>> /\ OnlyRows

(* cleanupUploadTempDirectory: a day after the last change of the entries,  *)
(* so no request that uses them is running any more.                        *)
SweepTemp(f) ==
    /\ Merging(f) = {} /\ f \notin writing
    /\ \/ dir' = [dir EXCEPT ![f] = "absent"] /\ UNCHANGED temp
       \/ temp' = [temp EXCEPT ![f] = NoTemp] /\ UNCHANGED dir
    /\ UNCHANGED <<fileRows, writing, merge, history>>

(* The requests of uploadWithLegacyChunks. Every tab makes them in order,   *)
(* from the start or from where checkFile says another has got to; together *)
(* tabs make them in any order, and again.                                  *)
UploadWithChunks ==
    \/ \E c \in Content : InitUpload(c)
    \/ \E f \in File : BeginChunk(f) \/ WriteChunk(f)
    \/ \E r \in Tab, f \in File : BeginMerge(r, f)

ChunkedNext ==
    \/ UploadWithChunks
    \/ \E r \in Tab : Merge(r)
    \/ \E f \in File : \/ Ingest(f) \/ Retry(f) \/ DeleteRow(f) \/ FinishCleanup(f)
                       \/ Abandon(f) \/ SweepTemp(f)

ChunkedSpec == ChunkedInit /\ [][ChunkedNext]_chunkedVars

-----------------------------------------------------------------------------
(* A file that has a key, and is not being deleted, has the verified bytes  *)
(* as its object and is charged for them, even when its merge failed after  *)
(* it was queued. The one exception is a file of which two merges ran at    *)
(* once: they write one temporary file, and either may store what the other *)
(* has just cut, or fail the row the other has published. Conversely an     *)
(* object is known to a row or a cleanup job, or a merge is about to make   *)
(* it known; only what a dying merge, a failed store or a failed database   *)
(* leaves behind is not, and no sweep looks for it. And what checkFile says *)
(* to be there is stored or being deleted, but for a failed file, whose     *)
(* bytes may be nowhere.                                                    *)
StoredAsVerified ==
    /\ ChunkedTypeOK
    /\ \A f \in File \ overlap :
         row[f].key /\ row[f].st # "deleting" =>
             /\ original[f] = "good"
             /\ row[f].reserved = 0 /\ row[f].storage = Size[row[f].content]
    /\ \A f \in File \ orphan :
         original[f] # "none" => \/ row[f].key \/ f \in job
                                 \/ \E r \in Merging(f) : merge[r].at \in {"publish", "late"}
    /\ \A c \in Content : SaysExists(c) =>
         \E f \in Claimed(c) : row[f].key \/ row[f].st \in {"deleting", "failed"}

(* What a user has stored and reserved stays below the quotas although a    *)
(* merge sets both without looking at them again; two merges of one file at *)
(* once may break it, too: one gives the bytes back, the other stores them. *)
QuotaHolds ==
    overlap = {} => /\ Reserved(File) <= ActiveQuota
                    /\ Stored(File) + Reserved(File) <= Quota
=============================================================================
