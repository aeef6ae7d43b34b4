---------------------------- MODULE CleanupJobs ----------------------------
(* Durable deletion: the artifact_cleanup_jobs table and the workers that   *)
(* execute its rows, together with the requests that feed it - deleting a   *)
(* file, a project space or the account, replacing an avatar - and the      *)
(* uploads that may still be storing an object when the deletion arrives.   *)
(*                                                                          *)
(* A lease is the boolean "lease_expires_at > now()"; its holder stands for *)
(* the lease token, which is drawn afresh by each claim and which a worker  *)
(* forgets when it stops. Back-off delays are arbitrary: a job whose delay  *)
(* runs is one that nobody claims yet. A file has one stored object (its    *)
(* original) and one set of index entries; the objects and entries of its   *)
(* conversion generations are the subject of FileIngestion.                 *)
EXTENDS Naturals, FiniteSets

CONSTANTS
    File,           \* files.id
    Space,          \* project_spaces.id, the non-default ones
    Avatar,         \* object keys of avatar uploads, one per upload
    Account,        \* the resource id of the account's own cleanup job
    Worker,         \* cleanup workers, over all server processes
    SpaceOf,        \* files.project_space_id: [File -> Space \cup {NoOne}]
    MaxAttempts,    \* artifact_cleanup_jobs.max_attempts
    FirstAvatar,    \* the avatar the account has at the start, or NoOne
    NoOne

ASSUME CleanupAssumption ==
    /\ SpaceOf \in [File -> Space \cup {NoOne}]
    /\ MaxAttempts \in Nat \ {0}
    /\ FirstAvatar \in Avatar \cup {NoOne}
    /\ NoOne \notin File \cup Space \cup Avatar \cup Worker \cup {Account}
    /\ Account \notin File \cup Space \cup Avatar
    /\ File \cap Space = {} /\ File \cap Avatar = {} /\ Space \cap Avatar = {}

Resource == File \cup Space \cup Avatar \cup {Account}
Parent == Space \cup {Account}
Object == File \cup Avatar

VARIABLES
    account,    \* users.deletion_status, or "gone"
    space,      \* project_spaces.status, or "gone"
    row,        \* files.status as far as deletion tells it apart, or "gone"
    keyed,      \* files.object_key is not null
    transfer,   \* the request that is storing an object, per object
    object,     \* the objects of the store
    index,      \* files with entries in the retrieval indexes
    avatar,     \* users.avatar_object_key
    job,        \* artifact_cleanup_jobs by resource_key
    work,       \* what each worker executes: its copy of the claimed row
    checking,   \* files that the pipeline found live and may still write to the indexes
    \* History, which no step reads.
    strayed,    \* files with entries written after their deletion had begun
    reopened    \* children opened again since their parent's finalizer looked

vars == <<account, space, row, keyed, transfer, object, index, avatar, job, work,
          checking, strayed, reopened>>
tables == <<account, space, row, keyed, avatar>>
indexes == <<index, checking, strayed>>

Status == {"queued", "processing", "waiting", "failed", "completed"}
Steps == {"rag_deleted", "multipart_aborted", "storage_deleted", "avatar_deleted"}

JobRow == [status : Status, steps : SUBSET Steps, attempts : 0 .. MaxAttempts,
           parent : Parent \cup {NoOne}, keys : SUBSET Object,
           holder : Worker \cup {NoOne}, lease : BOOLEAN]

Claim == [job : Resource, steps : SUBSET Steps, keys : SUBSET Object,
          at : {"run", "note", "final", "commit"}]

ASSUME NoOneAssumption == NoOne \notin JobRow \cup Claim

TypeOK ==
    /\ account \in {"active", "pending", "gone"}
    /\ space \in [Space -> {"active", "deleting", "gone"}]
    /\ row \in [File -> {"none", "uploading", "stored", "deleting", "gone"}]
    /\ keyed \in [File -> BOOLEAN]
    /\ transfer \in [Object -> {"idle", "storing", "put", "done", "died"}]
    /\ object \in SUBSET Object
    /\ index \in SUBSET File
    /\ avatar \in Avatar \cup {NoOne}
    /\ job \in [Resource -> JobRow \cup {NoOne}]
    /\ work \in [Worker -> Claim \cup {NoOne}]
    /\ checking \in SUBSET File
    /\ strayed \in SUBSET File
    /\ reopened \in SUBSET File

Init ==
    /\ account = "active"
    /\ space = [s \in Space |-> "active"]
    /\ row = [f \in File |-> "none"]
    /\ keyed = [f \in File |-> FALSE]
    /\ transfer = [o \in Object |-> IF o = FirstAvatar THEN "done" ELSE "idle"]
    /\ object = {FirstAvatar} \ {NoOne}
    /\ index = {}
    /\ avatar = FirstAvatar
    /\ job = [r \in Resource |-> NoOne]
    /\ work = [w \in Worker |-> NoOne]
    /\ checking = {} /\ strayed = {} /\ reopened = {}

-----------------------------------------------------------------------------
(* The job table.                                                           *)

NewJob(parent, keys) ==
    [status |-> "queued", steps |-> {}, attempts |-> 0, parent |-> parent,
     keys |-> keys, holder |-> NoOne, lease |-> FALSE]

(* insertCleanupJobWithClient for a new row, or on conflict: the first      *)
(* parent stays, the payload fields of the new request replace the old      *)
(* ones, and neither status nor steps nor attempts start again.             *)
Inserted(j, parent, keys) ==
    IF j = NoOne THEN NewJob(parent, keys)
    ELSE [j EXCEPT !.parent = IF @ = NoOne THEN parent ELSE @, !.keys = keys]

\* Mutant: the storage step that had been done is not opened again.
RequeuedAsDone(j, key) ==
    IF j = NoOne THEN NewJob(NoOne, {key})
    ELSE [j EXCEPT !.status = "queued", !.keys = @ \cup {key},
                   !.attempts = IF @ >= MaxAttempts THEN 0 ELSE @,
                   !.holder = NoOne, !.lease = FALSE]

(* requeueFileCleanupForStoredObject and enqueueAvatarCleanupWithClient:    *)
(* the job starts again with its storage step open and no lease.            *)
Requeued(j, key) ==
    IF j = NoOne THEN NewJob(NoOne, {key})
    ELSE [j EXCEPT !.status = "queued",
                   !.steps = @ \ {"storage_deleted"},
                   !.keys = @ \cup {key},
                   !.attempts = IF @ >= MaxAttempts THEN 0 ELSE @,
                   !.holder = NoOne,
                   !.lease = FALSE]

Exhausted(r) ==
    job[r] # NoOne /\ job[r].status = "failed" /\ job[r].attempts >= MaxAttempts

Completed(r) == job[r] # NoOne /\ job[r].status = "completed"

Children(p) == {r \in Resource : job[r] # NoOne /\ job[r].parent = p}

(* claimNextCleanupJob; a failed job below its limit has a retry time.      *)
Claimable(r) ==
    /\ job[r] # NoOne
    /\ \/ job[r].status \in {"queued", "waiting"}
       \/ job[r].status = "failed" /\ job[r].attempts < MaxAttempts
       \/ /\ job[r].status = "processing"
          /\ job[r].attempts < MaxAttempts
          /\ ~job[r].lease

(* The condition of every write of a worker: its token, a processing row    *)
(* and a lease that has not expired.                                        *)
Holds(w) ==
    LET j == job[work[w].job] IN
    j.holder = w /\ j.status = "processing" /\ j.lease

(* The transaction that ends a parent has looked at its children and has    *)
(* not committed. Until then it locks the job of the parent and the row of  *)
(* the space or the user.                                                   *)
Ending(p) == \E w \in Worker : work[w] # NoOne /\ work[w].job = p /\ work[w].at = "commit"

Released(j, status) ==
    [j EXCEPT !.status = status, !.holder = NoOne, !.lease = FALSE]

-----------------------------------------------------------------------------
(* Uploads.                                                                 *)

RowExists(f) == row[f] \notin {"none", "gone"}

\* Mutant: the reservation does not look at the account again.
ReserveInPendingAccount(f) ==
    /\ row[f] = "none"
    /\ row' = [row EXCEPT ![f] = "uploading"]
    /\ transfer' = [transfer EXCEPT ![f] = "storing"]
    /\ UNCHANGED <<account, space, keyed, object, avatar, job, work, indexes, reopened>>

(* reserveUploadFile locks the user, then the space, and wants both active. *)
ReserveUpload(f) ==
    /\ row[f] = "none"
    /\ account = "active"
    /\ SpaceOf[f] # NoOne => space[SpaceOf[f]] = "active"
    /\ row' = [row EXCEPT ![f] = "uploading"]
    /\ transfer' = [transfer EXCEPT ![f] = "storing"]
    /\ UNCHANGED <<account, space, keyed, object, avatar, job, work, indexes, reopened>>

(* mergeChunks puts the object before it tells the table.                   *)
StoreObject(o) ==
    /\ transfer[o] = "storing"
    /\ transfer' = [transfer EXCEPT ![o] = "put"]
    /\ object' = object \cup {o}
    /\ UNCHANGED <<tables, job, work, indexes, reopened>>

(* updateFile with an object key: a row that is gone or being deleted gets  *)
(* a cleanup job for the object instead.                                    *)
RecordObject(f) ==
    /\ transfer[f] = "put"
    /\ transfer' = [transfer EXCEPT ![f] = "done"]
    /\ IF RowExists(f) /\ row[f] # "deleting"
       THEN /\ row' = [row EXCEPT ![f] = "stored"]
            /\ keyed' = [keyed EXCEPT ![f] = TRUE]
            /\ UNCHANGED <<job, reopened>>
       ELSE /\ job' = [job EXCEPT ![f] = Requeued(@, f)]
            /\ reopened' = IF job[f] # NoOne /\ Ending(job[f].parent)
                           THEN reopened \cup {f} ELSE reopened
            /\ UNCHANGED <<row, keyed>>
    /\ UNCHANGED <<account, space, object, avatar, work, indexes>>

(* The server stops, or both writes of mergeChunks fail.                    *)
TransferDies(o) ==
    /\ transfer[o] \in {"storing", "put"}
    /\ transfer' = [transfer EXCEPT ![o] = "died"]
    /\ UNCHANGED <<tables, object, job, work, indexes, reopened>>

(* The client repeats the merge of a file that is still uploading.          *)
RetryTransfer(f) ==
    /\ row[f] = "uploading"
    /\ transfer[f] = "died"
    /\ transfer' = [transfer EXCEPT ![f] = "storing"]
    /\ UNCHANGED <<tables, object, job, work, indexes, reopened>>

(* deleteAbandonedUploadingFiles, once the row is old enough.               *)
AbandonUpload(f) ==
    /\ row[f] = "uploading" /\ ~keyed[f]
    /\ row' = [row EXCEPT ![f] = "gone"]
    /\ UNCHANGED <<account, space, keyed, transfer, object, avatar, job, work, indexes, reopened>>

(* The pipeline checks its lease before each batch: the file is live.       *)
CheckLease(f) ==
    /\ row[f] = "stored"
    /\ checking' = checking \cup {f}
    /\ UNCHANGED <<tables, transfer, object, index, job, work, strayed, reopened>>

(* The batch reaches one of the three stores, which know nothing of leases; *)
(* it may be the last write under that check.                               *)
IndexFile(f) ==
    /\ f \in checking
    /\ index' = index \cup {f}
    /\ checking' \in {checking, checking \ {f}}
    /\ strayed' = IF row[f] = "stored" THEN strayed ELSE strayed \cup {f}
    /\ UNCHANGED <<tables, transfer, object, job, work, reopened>>

BeginAvatar(a) ==
    /\ transfer[a] = "idle"
    /\ transfer' = [transfer EXCEPT ![a] = "storing"]
    /\ UNCHANGED <<tables, object, job, work, indexes, reopened>>

(* replaceUserAvatar commits: the previous avatar gets a cleanup job, and   *)
(* uploadAvatar tries to remove its object at once.                         *)
ReplaceAvatar(a) ==
    /\ transfer[a] = "put"
    /\ account = "active"
    /\ transfer' = [transfer EXCEPT ![a] = "done"]
    /\ avatar' = a
    /\ IF avatar = NoOne
       THEN UNCHANGED <<job, object>>
       ELSE /\ job' = [job EXCEPT ![avatar] = Requeued(@, avatar)]
            /\ object' \in {object, object \ {avatar}}
    /\ UNCHANGED <<account, space, row, keyed, work, indexes, reopened>>

(* replaceUserAvatar throws, or finds no active user: uploadAvatar removes  *)
(* the object it stored, or leaves that to a cleanup job.                   *)
RejectAvatar(a) ==
    /\ transfer[a] = "put"
    /\ transfer' = [transfer EXCEPT ![a] = "done"]
    /\ \/ /\ object' = object \ {a}
          /\ UNCHANGED job
       \/ /\ job' = [job EXCEPT ![a] = Requeued(@, a)]
          /\ UNCHANGED object
    /\ UNCHANGED <<tables, work, indexes, reopened>>

-----------------------------------------------------------------------------
(* Deletion requests, each one transaction.                                 *)

(* prepareFileCleanupWithClient for a set of files: the payload is a fresh  *)
(* snapshot of the keys that the rows name.                                 *)
PrepareFiles(files, parent, jobs) ==
    /\ row' = [f \in File |-> IF f \in files THEN "deleting" ELSE row[f]]
    /\ job' = [r \in Resource |->
                 IF r \in files
                 THEN Inserted(jobs[r], parent, IF keyed[r] THEN {r} ELSE {})
                 ELSE jobs[r]]

(* enqueueFileCleanup; without a row it only reports the existing job.      *)
DeleteFile(f) ==
    /\ account = "active"
    /\ RowExists(f)
    /\ PrepareFiles({f}, NoOne, job)
    /\ UNCHANGED <<account, space, keyed, transfer, object, avatar, work, indexes, reopened>>

(* enqueueProjectSpaceCleanup                                               *)
DeleteSpace(s) ==
    /\ account = "active"
    /\ space[s] # "gone"
    /\ ~Ending(s)
    /\ space' = [space EXCEPT ![s] = "deleting"]
    /\ PrepareFiles({f \in File : RowExists(f) /\ SpaceOf[f] = s}, s,
                    [job EXCEPT ![s] = Inserted(@, NoOne, {})])
    /\ UNCHANGED <<account, keyed, transfer, object, avatar, work, indexes, reopened>>

(* enqueueAccountCleanup; it snapshots the avatar as well.                  *)
DeleteAccount ==
    /\ account # "gone"
    /\ ~Ending(Account)
    /\ account' = "pending"
    /\ PrepareFiles({f \in File : RowExists(f)}, Account,
                    [job EXCEPT ![Account] = Inserted(@, NoOne, {avatar} \ {NoOne})])
    /\ UNCHANGED <<space, keyed, transfer, object, avatar, work, indexes, reopened>>

-----------------------------------------------------------------------------
(* Workers.                                                                 *)

(* claimCleanupJobById; a job that only waited keeps its attempt count.     *)
ClaimJob(w, r) ==
    /\ work[w] = NoOne
    /\ Claimable(r)
    /\ ~Ending(r)
    /\ job' = [job EXCEPT ![r] =
                 [job[r] EXCEPT !.status = "processing",
                                !.attempts = IF job[r].status = "waiting"
                                             THEN @ ELSE @ + 1,
                                !.holder = w,
                                !.lease = TRUE]]
    /\ work' = [work EXCEPT ![w] = [job |-> r, steps |-> job[r].steps,
                                    keys |-> job[r].keys, at |-> "run"]]
    /\ UNCHANGED <<tables, transfer, object, indexes, reopened>>

(* The external steps of executeArtifactCleanupJob, in its order.           *)
StepOrder(r) ==
    CASE r \in File -> <<"rag_deleted", "multipart_aborted", "storage_deleted">>
      [] r \in Avatar -> <<"storage_deleted">>
      [] r = Account -> <<"avatar_deleted">>
      [] OTHER -> <<>>

StepsLeft(c) == {n \in DOMAIN StepOrder(c.job) : StepOrder(c.job)[n] \notin c.steps}

NextStep(c) ==
    StepOrder(c.job)[CHOOSE n \in StepsLeft(c) : \A m \in StepsLeft(c) : n <= m]

(* A parent reads the summary of its children before anything else.         *)
ChildrenSettled(r) ==
    r \in Parent => \A c \in Children(r) : Completed(c)

(* One external call: the RAG service drops the file's entries, the parts   *)
(* of a multipart upload go (they are no objects yet, see MultipartUpload), *)
(* or the object store drops the keys that the claim carried.               *)
PerformStep(w) ==
    /\ work[w] # NoOne /\ work[w].at = "run"
    /\ ChildrenSettled(work[w].job)
    /\ StepsLeft(work[w]) # {}
    /\ LET step == NextStep(work[w]) IN
       /\ index' = IF step = "rag_deleted" THEN index \ {work[w].job} ELSE index
       /\ strayed' = IF step = "rag_deleted" THEN strayed \ {work[w].job} ELSE strayed
       /\ object' = IF step \in {"storage_deleted", "avatar_deleted"}
                    THEN object \ work[w].keys ELSE object
    /\ work' = [work EXCEPT ![w].at = "note"]
    /\ UNCHANGED <<tables, transfer, job, checking, reopened>>

(* updateCleanupJobStep; without the lease the worker is superseded.        *)
NoteStep(w) ==
    /\ work[w] # NoOne /\ work[w].at = "note"
    /\ IF Holds(w)
       THEN /\ job' = [job EXCEPT ![work[w].job].steps = @ \cup {NextStep(work[w])}]
            /\ work' = [work EXCEPT ![w] =
                 [work[w] EXCEPT !.steps = @ \cup {NextStep(work[w])},
                                 !.at = IF Cardinality(StepsLeft(work[w])) = 1
                                        THEN "final" ELSE "run"]]
       ELSE /\ work' = [work EXCEPT ![w] = NoOne]
            /\ UNCHANGED job
    /\ UNCHANGED <<tables, transfer, object, indexes, reopened>>

(* No external step is left (for a parent: the children have completed).    *)
SkipSteps(w) ==
    /\ work[w] # NoOne /\ work[w].at = "run"
    /\ ChildrenSettled(work[w].job)
    /\ StepsLeft(work[w]) = {}
    /\ work' = [work EXCEPT ![w].at = "final"]
    /\ UNCHANGED <<tables, transfer, object, job, indexes, reopened>>

(* markCleanupJobWaiting                                                    *)
AwaitChildren(w) ==
    /\ work[w] # NoOne /\ work[w].at = "run"
    /\ ~ChildrenSettled(work[w].job)
    /\ \A c \in Children(work[w].job) : ~Exhausted(c)
    /\ work' = [work EXCEPT ![w] = NoOne]
    /\ IF Holds(w)
       THEN job' = [job EXCEPT ![work[w].job] = Released(@, "waiting")]
       ELSE UNCHANGED job
    /\ UNCHANGED <<tables, transfer, object, indexes, reopened>>

(* A call throws (or a child is exhausted): markCleanupJobFailed.           *)
FailAttempt(w) ==
    /\ work[w] # NoOne
    /\ work' = [work EXCEPT ![w] = NoOne]
    /\ IF Holds(w)
       THEN job' = [job EXCEPT ![work[w].job] = Released(@, "failed")]
       ELSE UNCHANGED job
    /\ UNCHANGED <<tables, transfer, object, indexes, reopened>>

\* Mutant: the finalizer relies on the summary read earlier.
TrustSummary(r) == TRUE

RequireCompletedChildren(r) == \A c \in Children(r) : Completed(c)

(* finalizeProjectSpaceCleanup and finalizeAccountCleanup look at the       *)
(* children a second time, under the lease. It is a statement of its own,   *)
(* and it locks none of them.                                               *)
LookAtChildren(w) ==
    LET r == work[w].job IN
    /\ work[w] # NoOne /\ work[w].at = "final" /\ r \in Parent
    /\ Holds(w)
    /\ RequireCompletedChildren(r)
    /\ work' = [work EXCEPT ![w].at = "commit"]
    /\ reopened' = reopened \ Children(r)
    /\ UNCHANGED <<tables, transfer, object, job, indexes>>

(* Later statements of that transaction, or the one of finalizeFileCleanup  *)
(* and finalizeAvatarCleanup, whose locks cover all they read: the row goes *)
(* (with what refers to it) and the job completes. The account's statement  *)
(* waits for the row of a space that is ending.                             *)
Finalize(w) ==
    LET r == work[w].job IN
    /\ work[w] # NoOne
    /\ \/ work[w].at = "final" /\ r \notin Parent /\ Holds(w)
       \/ work[w].at = "commit" /\ (r = Account => \A s \in Space : ~Ending(s))
    /\ row' = [f \in File |-> IF RowExists(f) /\ r \in {f, Account}
                              THEN "gone" ELSE row[f]]
    /\ space' = [s \in Space |-> IF r \in {s, Account} THEN "gone" ELSE space[s]]
    /\ account' = IF r = Account THEN "gone" ELSE account
    /\ avatar' = IF r = Account THEN NoOne ELSE avatar
    /\ job' = [job EXCEPT ![r] = Released(@, "completed")]
    /\ work' = [work EXCEPT ![w] = NoOne]
    /\ reopened' = reopened \ Children(r)
    /\ UNCHANGED <<keyed, transfer, object, indexes>>

(* The process of the worker stops.                                         *)
WorkerDies(w) ==
    /\ work[w] # NoOne
    /\ work' = [work EXCEPT ![w] = NoOne]
    /\ UNCHANGED <<tables, transfer, object, job, indexes, reopened>>

(* A lease runs out, the heartbeat of its worker notwithstanding: a missed  *)
(* renewal does not stop the worker.                                        *)
LeaseExpires(r) ==
    /\ job[r] # NoOne /\ job[r].lease
    /\ job' = [job EXCEPT ![r].lease = FALSE]
    /\ UNCHANGED <<tables, transfer, object, work, indexes, reopened>>

\* Mutant: a job on its last attempt is expected to be claimed once more.
FailOverspent(r) ==
    /\ job[r] # NoOne
    /\ job[r].status = "processing"
    /\ job[r].attempts > MaxAttempts
    /\ ~job[r].lease
    /\ ~Ending(r)
    /\ job' = [job EXCEPT ![r] = Released(@, "failed")]
    /\ UNCHANGED <<tables, transfer, object, work, indexes, reopened>>

(* failExhaustedCleanupJobs                                                 *)
FailExhausted(r) ==
    /\ job[r] # NoOne
    /\ job[r].status = "processing"
    /\ job[r].attempts >= MaxAttempts
    /\ ~job[r].lease
    /\ ~Ending(r)
    /\ job' = [job EXCEPT ![r] = Released(@, "failed")]
    /\ UNCHANGED <<tables, transfer, object, work, indexes, reopened>>

-----------------------------------------------------------------------------
Next ==
    \/ \E f \in File :
          \/ ReserveUpload(f) \/ RecordObject(f) \/ RetryTransfer(f)
          \/ AbandonUpload(f)
          \/ CheckLease(f) \/ IndexFile(f) \/ DeleteFile(f)
    \/ \E a \in Avatar : BeginAvatar(a) \/ ReplaceAvatar(a) \/ RejectAvatar(a)
    \/ \E o \in Object : StoreObject(o) \/ TransferDies(o)
    \/ \E s \in Space : DeleteSpace(s)
    \/ DeleteAccount
    \/ \E w \in Worker :
          \/ \E r \in Resource : ClaimJob(w, r)
          \/ PerformStep(w) \/ NoteStep(w) \/ SkipSteps(w) \/ AwaitChildren(w)
          \/ FailAttempt(w) \/ LookAtChildren(w) \/ Finalize(w) \/ WorkerDies(w)
    \/ \E r \in Resource : LeaseExpires(r) \/ FailExhausted(r)

Spec == Init /\ [][Next]_vars

(* The dispatcher puts every claimable job on the queue every five seconds  *)
(* and the queue hands its jobs out in order, so no job is passed over for  *)
(* ever although the workers may be busy each time (strong fairness). A     *)
(* worker finishes or fails the step it is in, unless its process stops;    *)
(* then nobody renews the lease. Every dispatch fails the exhausted jobs.   *)
Advance(w) ==
    \/ PerformStep(w) \/ NoteStep(w) \/ SkipSteps(w) \/ AwaitChildren(w)
    \/ FailAttempt(w) \/ LookAtChildren(w) \/ Finalize(w)

LeaseAbandoned(r) ==
    /\ \A w \in Worker : work[w] # NoOne => work[w].job # r
    /\ LeaseExpires(r)

Fairness ==
    /\ \A r \in Resource : SF_vars(\E w \in Worker : ClaimJob(w, r))
    /\ WF_vars(\E r \in Resource : LeaseAbandoned(r))
    /\ WF_vars(\E r \in Resource : FailExhausted(r))
    /\ \A w \in Worker : WF_vars(Advance(w))

FairSpec == Spec /\ Fairness

-----------------------------------------------------------------------------
(* Properties.                                                              *)

(* The object of an upload that has not reached the tables; one that died   *)
(* there stays unknown until the client repeats it.                         *)
InFlight(o) == transfer[o] \in {"storing", "put", "died"}

OpenIn(r, o, step) ==
    /\ job[r] # NoOne /\ ~Completed(r)
    /\ o \in job[r].keys /\ step \notin job[r].steps

Live(f) ==
    /\ row[f] = "stored" /\ account = "active"
    /\ SpaceOf[f] # NoOne => space[SpaceOf[f]] = "active"

(* Something durable still knows the object: a row that names it and whose  *)
(* owner is not being deleted, or a cleanup job that will delete it.        *)
Tracked(o) ==
    \/ o \in File /\ Live(o)
    \/ account = "active" /\ avatar = o
    \/ OpenIn(o, o, "storage_deleted")
    \/ o \in Avatar /\ OpenIn(Account, o, "avatar_deleted")

Lost(o) == o \in object /\ ~InFlight(o) /\ ~Tracked(o)

(* A deletion request for a file that is being deleted already and whose    *)
(* row never learnt its object key: its snapshot replaces the key that      *)
(* updateFile had put into the payload of the job.                          *)
ForgetfulDeletion(o) ==
    /\ o \in File /\ row[o] = "deleting" /\ ~keyed[o]
    /\ DeleteFile(o) \/ DeleteAccount \/ \E s \in Space : DeleteSpace(s)

(* That request is the only step of the whole system that loses an object.  *)
ObjectsLostOnlyByRepeatedDeletion ==
    [][\A o \in Object : ~Lost(o) /\ Lost(o)' => ForgetfulDeletion(o)]_vars

(* Index entries belong to a live file, or to a file whose cleanup job has  *)
(* the RAG step still to do; no job completes over entries that remain.     *)
(* The exception is what a batch wrote whose check of the lease the         *)
(* deletion overtook, unless the RAG step was performed after it.           *)
IndexIsTracked ==
    /\ TypeOK
    /\ \A f \in index :
        \/ Live(f)
        \/ job[f] # NoOne /\ ~Completed(f) /\ "rag_deleted" \notin job[f].steps
        \/ f \in strayed

(* A project space or the account goes only when each job that was created  *)
(* under its deletion has completed; one that has not was opened again, by  *)
(* an upload that came late, between the finalizer's look at the children   *)
(* and its commit, never before that look.                                  *)
ParentsGoLast ==
    [][\A p \in Parent : ~Completed(p) /\ Completed(p)'
          => \A c \in Children(p) : Completed(c) \/ c \in reopened]_vars

(* Every accepted deletion is carried out or ends as a job that has used up *)
(* its attempts, which the operators see: again and again there is a time   *)
(* at which no job waits for a worker, a child or a lease.                  *)
DeletionsSettle ==
    []<>(\A r \in Resource : job[r] # NoOne => Completed(r) \/ Exhausted(r))

=============================================================================
