----------------------------- MODULE CleanupProofs -----------------------------
(* What the durable deletions promise, for every number of files, spaces,      *)
(* avatars, workers and attempts: no index entry and - but for one request -   *)
(* no stored object is forgotten, and owners go after what they own. The idea: *)
(* a worker records a step only while it holds the lease of a job that nobody  *)
(* has opened again since its claim.                                           *)
EXTENDS CleanupJobs, FiniteSetTheorems, TLAPS

\* The steps of a job.
StepsOf(r) == {StepOrder(r)[n] : n \in DOMAIN StepOrder(r)}

\* A job that waits for its claim has an attempt left.
AttemptsLeft == \A r \in Resource :
    job[r] # NoOne /\ job[r].status = "queued" => job[r].attempts < MaxAttempts

\* A file has a job when it is being deleted, never while its upload goes on or
\* while it is stored; then its owners are not being deleted either.
RowsMatchJobs == \A f \in File :
    /\ job[f] # NoOne => row[f] \in {"deleting", "gone"}
    /\ row[f] = "deleting" => job[f] # NoOne
    /\ row[f] = "none" => transfer[f] = "idle"
    /\ row[f] = "stored" => keyed[f]
    /\ row[f] \in {"uploading", "stored"} =>
         account = "active" /\ (SpaceOf[f] # NoOne => space[SpaceOf[f]] = "active")

OwnersMatchJobs ==
    /\ \A s \in Space : job[s] # NoOne => space[s] # "active"
    /\ job[Account] # NoOne => account # "active"

\* A job deletes the objects of its own resource.
KeysMatchJobs ==
    /\ \A o \in Object : job[o] # NoOne => job[o].keys \subseteq {o}
    /\ \A f \in File : job[f] # NoOne /\ keyed[f] => f \in job[f].keys
    /\ job[Account] # NoOne /\ ~Completed(Account) => job[Account].keys = {avatar} \ {NoOne}

\* An avatar that is shown, or has a job, has been uploaded.
AvatarsAreDone == \A a \in Avatar : a = avatar \/ job[a] # NoOne => transfer[a] = "done"

\* The entries that were written while their file was live.
Entries == index \ strayed

\* Those of a file that is not stored any more have a job that will remove them.
EntriesHaveJobs == \A f \in Entries :
    \/ row[f] = "stored"
    \/ row[f] # "none" /\ job[f] # NoOne /\ ~Completed(f) /\ "rag_deleted" \notin job[f].steps

\* A worker may write to its job: by its lease, or by the lock of its transaction.
Owns(w) ==
    LET j == job[work[w].job] IN
    j.holder = w /\ j.status = "processing" /\ (j.lease \/ work[w].at = "commit")

\* What a worker has done and is about to record. While it may write to the job,
\* its copy of the row is no older than the row.
WorkIsDone(w) ==
    LET c == work[w] IN
    /\ job[c.job] # NoOne
    /\ c.job \in Object => c.keys \subseteq {c.job}
    /\ c.at = "note" => StepsLeft(c) # {}
    /\ c.at \in {"final", "commit"} => StepsOf(c.job) \subseteq c.steps
    /\ \/ "rag_deleted" \in c.steps
       \/ c.at = "note" /\ NextStep(c) = "rag_deleted"
       => c.job \notin Entries
    /\ Owns(w) =>
         /\ c.steps \subseteq job[c.job].steps /\ job[c.job].keys \subseteq c.keys
         /\ c.job = Account => c.keys \subseteq {avatar}
         /\ c.at = "note" /\ NextStep(c) \in {"storage_deleted", "avatar_deleted"} =>
              \A o \in c.keys : o \notin object \/ InFlight(o)

WorkersAreDone == \A w \in Worker : work[w] # NoOne => WorkIsDone(w)

\* Deletions of spaces and the account create jobs for files only.
ChildrenAreFiles == \A r \in Resource \ File : job[r] # NoOne => job[r].parent = NoOne

\* A finalizer that has looked at the children holds the job of the parent, and a
\* child that is not completed has been opened again since.
EndingHolds(w) ==
    LET r == work[w].job IN
    /\ r \in Parent /\ job[r].holder = w /\ job[r].status = "processing"
    /\ \A c \in Children(r) : Completed(c) \/ c \in reopened

EndingsHold == \A w \in Worker : work[w] # NoOne /\ work[w].at = "commit" => EndingHolds(w)

IInv ==
    /\ TypeOK /\ AttemptsLeft /\ RowsMatchJobs /\ OwnersMatchJobs /\ KeysMatchJobs
    /\ AvatarsAreDone /\ EntriesHaveJobs /\ WorkersAreDone /\ ChildrenAreFiles /\ EndingsHold
-----------------------------------------------------------------------------
(* The rows of the job table. *)

\* Resources of different kinds differ.
LEMMA Kinds ==
    /\ File \subseteq Resource /\ Space \subseteq Resource /\ Object \subseteq Resource
    /\ Account \in Resource /\ Account \notin Object /\ NoOne \notin Resource
    /\ NoOne \notin Worker /\ File \cap Space = {} /\ Object \cap Space = {}
    /\ File \subseteq Object /\ Avatar \subseteq Object /\ File \cap Avatar = {}
    /\ Account \notin Space
BY CleanupAssumption DEF Resource, Object

\* A new row, and a row that is inserted again.
LEMMA InsertedRows ==
    ASSUME NEW j \in JobRow \cup {NoOne}, NEW parent \in Parent \cup {NoOne},
           NEW keys \in SUBSET Object
    PROVE  /\ Inserted(j, parent, keys) \in JobRow
           /\ Inserted(j, parent, keys).keys = keys
           /\ Inserted(j, parent, keys).parent \in {parent, IF j = NoOne THEN parent ELSE j.parent}
           /\ j # NoOne => /\ Inserted(j, parent, keys).status = j.status
                           /\ Inserted(j, parent, keys).steps = j.steps
                           /\ Inserted(j, parent, keys).attempts = j.attempts
                           /\ Inserted(j, parent, keys).holder = j.holder
                           /\ Inserted(j, parent, keys).lease = j.lease
           /\ j = NoOne => /\ Inserted(j, parent, keys).status = "queued"
                           /\ Inserted(j, parent, keys).steps = {}
                           /\ Inserted(j, parent, keys).attempts = 0
                           /\ Inserted(j, parent, keys).holder = NoOne
<1>1. CASE j = NoOne
  <2>1. 0 \in 0 .. MaxAttempts
    BY CleanupAssumption
  <2>2. NewJob(parent, keys) \in JobRow
    BY <2>1 DEF NewJob, JobRow, Status
  <2> QED BY <1>1, <2>2 DEF Inserted, NewJob
<1>2. CASE j # NoOne
  <2>1. j \in JobRow
    BY <1>2
  <2>2. PICK p \in Parent \cup {NoOne} :
          /\ p \in {parent, j.parent}
          /\ Inserted(j, parent, keys) = [j EXCEPT !.parent = p, !.keys = keys]
    BY <1>2, <2>1 DEF Inserted, JobRow
  <2> QED BY <1>2, <2>1, <2>2 DEF JobRow
<1> QED BY <1>1, <1>2

\* A row that is opened again.
LEMMA RequeuedRows ==
    ASSUME NEW j \in JobRow \cup {NoOne}, NEW o \in Object
    PROVE  /\ Requeued(j, o) \in JobRow
           /\ Requeued(j, o).status = "queued" /\ Requeued(j, o).attempts < MaxAttempts
           /\ Requeued(j, o).keys = (IF j = NoOne THEN {} ELSE j.keys) \cup {o}
           /\ Requeued(j, o).steps = (IF j = NoOne THEN {} ELSE j.steps) \ {"storage_deleted"}
           /\ Requeued(j, o).holder = NoOne
           /\ Requeued(j, o).parent = IF j = NoOne THEN NoOne ELSE j.parent
<1>1. CASE j = NoOne
  <2>1. 0 \in 0 .. MaxAttempts /\ 0 < MaxAttempts
    BY CleanupAssumption
  <2>2. NewJob(NoOne, {o}) \in JobRow
    BY <2>1 DEF NewJob, JobRow, Status
  <2> QED BY <1>1, <2>1, <2>2 DEF Requeued, NewJob
<1>2. CASE j # NoOne
  <2>1. j \in JobRow /\ j.attempts \in 0 .. MaxAttempts
    BY <1>2 DEF JobRow
  <2>2. PICK n \in 0 .. MaxAttempts : n = IF j.attempts >= MaxAttempts THEN 0 ELSE j.attempts
    BY <2>1, CleanupAssumption
  <2>3. n < MaxAttempts
    BY <2>1, <2>2, CleanupAssumption
  <2>4. PICK steps \in SUBSET Steps : steps = j.steps \ {"storage_deleted"}
    BY <2>1 DEF JobRow
  <2>5. PICK keys \in SUBSET Object : keys = j.keys \cup {o}
    BY <2>1 DEF JobRow
  <2>6. Requeued(j, o) = [j EXCEPT !.status = "queued", !.steps = steps, !.keys = keys,
                                   !.attempts = n, !.holder = NoOne, !.lease = FALSE]
    BY <1>2, <2>1, <2>2, <2>4, <2>5 DEF Requeued, JobRow
  <2>7. [j EXCEPT !.status = "queued", !.steps = steps, !.keys = keys,
                  !.attempts = n, !.holder = NoOne, !.lease = FALSE] \in JobRow
    BY <2>1, <2>2, <2>4, <2>5, Zenon DEF JobRow, Status
  <2> QED BY <1>2, <2>1, <2>3, <2>4, <2>5, <2>6, <2>7 DEF JobRow
<1> QED BY <1>1, <1>2

\* A request that comes again replaces the keys.
LEMMA RepeatedRows ==
    ASSUME NEW j \in JobRow, NEW parent, NEW keys
    PROVE  Inserted(j, parent, keys).keys = keys
BY DEF Inserted, NewJob, JobRow

\* A row that is given back.
LEMMA ReleasedRows ==
    ASSUME NEW j \in JobRow, NEW status \in {"failed", "waiting", "completed"}
    PROVE  /\ Released(j, status) \in JobRow
           /\ Released(j, status).status = status /\ Released(j, status).holder = NoOne
           /\ Released(j, status).keys = j.keys /\ Released(j, status).steps = j.steps
           /\ Released(j, status).parent = j.parent
<1>1. Released(j, status) \in JobRow
  BY Zenon DEF Released, JobRow, Status
<1>2. /\ Released(j, status).status = status /\ Released(j, status).holder = NoOne
      /\ Released(j, status).keys = j.keys /\ Released(j, status).steps = j.steps
      /\ Released(j, status).parent = j.parent
  BY DEF Released, JobRow
<1> QED BY <1>1, <1>2

\* What a worker and the lease make of a row.
LEMMA WorkedRows ==
    ASSUME NEW j \in JobRow
    PROVE  /\ \A step \in Steps : [j EXCEPT !.steps = @ \cup {step}] \in JobRow
           /\ [j EXCEPT !.lease = FALSE] \in JobRow
           /\ \A w \in Worker, n \in 0 .. MaxAttempts :
                [j EXCEPT !.status = "processing", !.attempts = n, !.holder = w, !.lease = TRUE]
                  \in JobRow
<1>1. \A step \in Steps : [j EXCEPT !.steps = @ \cup {step}] \in JobRow
  BY DEF JobRow
<1>2. [j EXCEPT !.lease = FALSE] \in JobRow
  BY Zenon DEF JobRow
<1>3. ASSUME NEW w \in Worker, NEW n \in 0 .. MaxAttempts
      PROVE  [j EXCEPT !.status = "processing", !.attempts = n, !.holder = w, !.lease = TRUE]
                \in JobRow
  BY Zenon DEF JobRow, Status
<1> QED BY <1>1, <1>2, <1>3

\* The step that is performed next is one of the job's.
LEMMA NextIsStep ==
    ASSUME NEW c \in Claim, StepsLeft(c) # {}
    PROVE  NextStep(c) \in StepsOf(c.job) /\ NextStep(c) \in Steps /\ NextStep(c) \notin c.steps
<1>1. StepsLeft(c) \subseteq 1 .. 3 /\ StepsOf(c.job) \subseteq Steps
  BY DEF StepsLeft, StepOrder, StepsOf, Steps
<1>2. \E n \in StepsLeft(c) : \A m \in StepsLeft(c) : n <= m
  <2>1. ASSUME NEW n \in StepsLeft(c), n = 1 PROVE \A m \in StepsLeft(c) : n <= m
    BY <1>1, <2>1
  <2>2. ASSUME NEW n \in StepsLeft(c), n = 2, 1 \notin StepsLeft(c)
        PROVE  \A m \in StepsLeft(c) : n <= m
    BY <1>1, <2>2
  <2>3. ASSUME NEW n \in StepsLeft(c), n = 3, 1 \notin StepsLeft(c), 2 \notin StepsLeft(c)
        PROVE  \A m \in StepsLeft(c) : n <= m
    BY <1>1, <2>3
  <2> QED BY <1>1, <2>1, <2>2, <2>3
<1>3. PICK n \in StepsLeft(c) : NextStep(c) = StepOrder(c.job)[n]
  BY <1>2 DEF NextStep
<1> QED BY <1>1, <1>3 DEF StepsLeft, StepsOf

\* When one step is left, or none, the others have been done.
LEMMA LastStep ==
    ASSUME NEW c \in Claim
    PROVE  /\ StepsLeft(c) = {} => StepsOf(c.job) \subseteq c.steps
           /\ Cardinality(StepsLeft(c)) = 1 => StepsOf(c.job) \subseteq c.steps \cup {NextStep(c)}
<1>1. StepsLeft(c) = {} => StepsOf(c.job) \subseteq c.steps
  BY DEF StepsLeft, StepsOf
<1>2. ASSUME Cardinality(StepsLeft(c)) = 1
      PROVE  StepsOf(c.job) \subseteq c.steps \cup {NextStep(c)}
  <2>1. StepsLeft(c) \subseteq 1 .. 3
    BY DEF StepsLeft, StepOrder
  <2>2. IsFiniteSet(StepsLeft(c))
    <3>1. 1 \in Int /\ 3 \in Int
      OBVIOUS
    <3>2. IsFiniteSet(1 .. 3)
      BY <3>1, FS_Interval, Zenon
    <3> QED BY <2>1, <3>2, FS_Subset, Zenon
  <2>3. PICK n : StepsLeft(c) = {n}
    BY <1>2, <2>2, FS_Singleton
  <2>4. n \in 1 .. 3
    BY <2>1, <2>3
  <2>5. NextStep(c) = StepOrder(c.job)[n]
    BY <2>3, <2>4 DEF NextStep
  <2> QED BY <2>3, <2>5 DEF StepsLeft, StepsOf
<1> QED BY <1>1, <1>2

\* The steps of the files, the avatars and the account.
LEMMA StepsOfKinds ==
    /\ \A f \in File : {"rag_deleted", "storage_deleted"} \subseteq StepsOf(f)
                       /\ "avatar_deleted" \notin StepsOf(f)
    /\ \A a \in Avatar : StepsOf(a) = {"storage_deleted"}
    /\ StepsOf(Account) = {"avatar_deleted"}
    /\ \A s \in Space : StepsOf(s) = {}
<1>1. ASSUME NEW f \in File
      PROVE  {"rag_deleted", "storage_deleted"} \subseteq StepsOf(f) /\ "avatar_deleted" \notin StepsOf(f)
  <2>1. StepOrder(f) = <<"rag_deleted", "multipart_aborted", "storage_deleted">>
    BY Kinds DEF StepOrder
  <2>2. StepsOf(f) = {StepOrder(f)[1], StepOrder(f)[2], StepOrder(f)[3]}
    BY <2>1 DEF StepsOf
  <2> QED BY <2>1, <2>2
<1>2. ASSUME NEW a \in Avatar PROVE StepsOf(a) = {"storage_deleted"}
  <2>1. StepOrder(a) = <<"storage_deleted">>
    BY Kinds DEF StepOrder
  <2> QED BY <2>1 DEF StepsOf
<1>3. StepsOf(Account) = {"avatar_deleted"}
  <2>1. StepOrder(Account) = <<"avatar_deleted">>
    BY Kinds DEF StepOrder, Object
  <2> QED BY <2>1 DEF StepsOf
<1>4. ASSUME NEW s \in Space PROVE StepsOf(s) = {}
  <2>1. StepOrder(s) = <<>>
    BY Kinds DEF StepOrder, Object
  <2> QED BY <2>1 DEF StepsOf
<1> QED BY <1>1, <1>2, <1>3, <1>4
-----------------------------------------------------------------------------
(* What a step makes of one job. *)

\* A request inserts the job of a file, a space or the account.
Requested(f) == DeleteFile(f) \/ DeleteAccount \/ \E s \in Space : DeleteSpace(s)

InsertsFile(f) ==
    /\ Requested(f)
    /\ f \in File /\ RowExists(f) /\ row'[f] = "deleting" /\ keyed' = keyed
    /\ \E parent \in Parent \cup {NoOne} :
         /\ job'[f] = Inserted(job[f], parent, IF keyed[f] THEN {f} ELSE {})
         /\ ~Ending(parent)
    /\ transfer' = transfer

InsertsSpace(s) ==
    s \in Space /\ space'[s] = "deleting" /\ job'[s] = Inserted(job[s], NoOne, {})

InsertsAccount(r) ==
    /\ r = Account /\ account # "gone" /\ account' = "pending" /\ avatar' = avatar
    /\ job'[r] = Inserted(job[r], NoOne, {avatar} \ {NoOne})

\* An upload that came late, or an avatar that is no longer shown, opens it again.
Reopens(o) ==
    /\ o \in Object /\ job'[o] = Requeued(job[o], o) /\ transfer'[o] = "done"
    /\ o \in File =>
         /\ row[o] \in {"deleting", "gone"} /\ row' = row /\ keyed' = keyed
         /\ job[o] # NoOne /\ Ending(job[o].parent) => o \in reopened'

\* A worker notes a step.
Notes(w, r) ==
    /\ NoteStep(w)
    /\ work[w] # NoOne /\ work[w].job = r /\ work[w].at = "note" /\ Holds(w)
    /\ job'[r] = [job[r] EXCEPT !.steps = @ \cup {NextStep(work[w])}]

\* A job is given back, or its lease is lost.
GivesUp(r) ==
    /\ job[r] # NoOne
    /\ \/ /\ job[r].status = "processing"
          /\ \E status \in {"failed", "waiting"} : job'[r] = Released(job[r], status)
          /\ \/ ~Ending(r)
             \/ \E w \in Worker : Holds(w) /\ work[w].job = r /\ work'[w] = NoOne
       \/ job'[r] = [job[r] EXCEPT !.lease = FALSE]

\* A worker completes a job.
Completes(w, r) ==
    /\ Finalize(w) /\ work[w].job = r
    /\ job'[r] = Released(job[r], "completed")

JobChanges(r) ==
    \/ InsertsFile(r) \/ InsertsSpace(r) \/ InsertsAccount(r) \/ Reopens(r)
    \/ \E w \in Worker : ClaimJob(w, r) \/ Notes(w, r) \/ Completes(w, r)
    \/ GivesUp(r)

\* These are all the changes of a job.
LEMMA JobStep ==
    ASSUME IInv, [Next]_vars, NEW r \in Resource, job'[r] # job[r]
    PROVE  JobChanges(r)
<1> USE Kinds DEF IInv, TypeOK, tables
<1>1. ASSUME NEW f \in File, RecordObject(f) PROVE JobChanges(r)
  <2>1. r = f /\ Reopens(r)
    BY <1>1 DEF RecordObject, Reopens, RowExists, RowsMatchJobs
  <2> QED BY <2>1 DEF JobChanges
<1>0. ~Ending(NoOne)
  BY DEF Ending, Claim
<1>2. ASSUME NEW f \in File, DeleteFile(f) PROVE JobChanges(r)
  <2>1. r = f /\ (Requested(r) => InsertsFile(r))
    BY <1>0, <1>2 DEF DeleteFile, PrepareFiles, InsertsFile
  <2>2. InsertsFile(r)
    BY <1>2, <2>1 DEF Requested
  <2> QED BY <2>2 DEF JobChanges
<1>3. ASSUME NEW s \in Space, DeleteSpace(s) PROVE JobChanges(r)
  <2>1. CASE r = s
    <3>1. InsertsSpace(r)
      BY <1>3, <2>1 DEF DeleteSpace, PrepareFiles, InsertsSpace
    <3> QED BY <3>1 DEF JobChanges
  <2>2. CASE r # s
    <3>1. r \in File /\ RowExists(r) /\ SpaceOf[r] = s
      BY <1>3, <2>2 DEF DeleteSpace, PrepareFiles
    <3>2. Requested(r)
      BY <1>3 DEF Requested
    <3>3. InsertsFile(r)
      BY <1>3, <2>2, <3>1, <3>2 DEF DeleteSpace, PrepareFiles, InsertsFile, Parent
    <3> QED BY <3>3 DEF JobChanges
  <2> QED BY <2>1, <2>2
<1>4. CASE DeleteAccount
  <2>1. CASE r = Account
    <3>1. InsertsAccount(r)
      BY <1>4, <2>1 DEF DeleteAccount, PrepareFiles, InsertsAccount, Object
    <3> QED BY <3>1 DEF JobChanges
  <2>2. CASE r # Account
    <3>1. r \in File /\ RowExists(r)
      BY <1>4, <2>2 DEF DeleteAccount, PrepareFiles
    <3>2. Requested(r)
      BY <1>4 DEF Requested
    <3>3. InsertsFile(r)
      BY <1>4, <2>2, <3>1, <3>2 DEF DeleteAccount, PrepareFiles, InsertsFile, Parent
    <3> QED BY <3>3 DEF JobChanges
  <2> QED BY <2>1, <2>2
<1>5. ASSUME NEW a \in Avatar, ReplaceAvatar(a) PROVE JobChanges(r)
  <2>1. r = avatar /\ avatar \in Avatar /\ avatar # a => Reopens(r)
    BY <1>5 DEF ReplaceAvatar, Reopens, AvatarsAreDone
  <2>2. r = avatar /\ avatar \in Avatar /\ avatar # a
    BY <1>5 DEF ReplaceAvatar, AvatarsAreDone
  <2> QED BY <2>1, <2>2 DEF JobChanges
<1>6. ASSUME NEW a \in Avatar, RejectAvatar(a) PROVE JobChanges(r)
  <2>1. r = a /\ Reopens(r)
    BY <1>6 DEF RejectAvatar, Reopens
  <2> QED BY <2>1 DEF JobChanges
<1>7. ASSUME NEW w \in Worker, NEW x \in Resource, ClaimJob(w, x) PROVE JobChanges(r)
  <2>1. r = x
    BY <1>7 DEF ClaimJob
  <2> QED BY <1>7, <2>1 DEF JobChanges
<1>8. ASSUME NEW w \in Worker, NoteStep(w) PROVE JobChanges(r)
  <2> DEFINE x == work[w].job
  <2>1. Holds(w) /\ job' = [job EXCEPT ![x].steps = @ \cup {NextStep(work[w])}]
    BY <1>8 DEF NoteStep
  <2>2. work[w] # NoOne /\ work[w].at = "note" /\ x \in Resource
    BY <1>8 DEF NoteStep, Claim
  <2>3. r = x
    BY <2>1, <2>2
  <2>4. job'[r] = [job[r] EXCEPT !.steps = @ \cup {NextStep(work[w])}]
    BY <2>1, <2>2, <2>3
  <2>5. Notes(w, r)
    BY <1>8, <2>1, <2>2, <2>3, <2>4 DEF Notes
  <2> QED BY <2>5 DEF JobChanges
<1>9. ASSUME NEW w \in Worker, AwaitChildren(w) \/ FailAttempt(w) PROVE JobChanges(r)
  <2>1. work[w] \in Claim /\ r = work[w].job
    BY <1>9 DEF AwaitChildren, FailAttempt, Claim
  <2>2. job[r] # NoOne
    BY <1>9, <2>1 DEF AwaitChildren, FailAttempt, WorkersAreDone, WorkIsDone
  <2>3. GivesUp(r)
    BY <1>9, <2>1, <2>2 DEF AwaitChildren, FailAttempt, GivesUp, Holds
  <2> QED BY <2>3 DEF JobChanges
<1>10. ASSUME NEW w \in Worker, Finalize(w) PROVE JobChanges(r)
  <2>1. Completes(w, r)
    BY <1>10 DEF Finalize, Completes, Claim
  <2> QED BY <2>1 DEF JobChanges
<1>11. ASSUME NEW x \in Resource, LeaseExpires(x) \/ FailExhausted(x) PROVE JobChanges(r)
  <2>1. CASE LeaseExpires(x)
    <3>1. r = x /\ job[r] # NoOne
      BY <2>1 DEF LeaseExpires
    <3>2. job'[r] = [job[r] EXCEPT !.lease = FALSE]
      BY <2>1, <3>1 DEF LeaseExpires
    <3> QED BY <3>1, <3>2 DEF JobChanges, GivesUp
  <2>2. CASE FailExhausted(x)
    <3>1. /\ r = x /\ job[r] # NoOne /\ job[r].status = "processing"
          /\ job'[r] = Released(job[r], "failed") /\ ~Ending(r)
      BY <2>2 DEF FailExhausted
    <3> QED BY <3>1 DEF JobChanges, GivesUp
  <2> QED BY <1>11, <2>1, <2>2
<1>12. job' = job => JobChanges(r)
  OBVIOUS
<1>13. ASSUME NEW f \in File,
              ReserveUpload(f) \/ RetryTransfer(f) \/ AbandonUpload(f)
              \/ CheckLease(f) \/ IndexFile(f)
       PROVE  JobChanges(r)
  BY <1>12, <1>13 DEF ReserveUpload, RetryTransfer, AbandonUpload, CheckLease, IndexFile
<1>14. ASSUME NEW o \in Object, StoreObject(o) \/ TransferDies(o) PROVE JobChanges(r)
  BY <1>12, <1>14 DEF StoreObject, TransferDies
<1>15. ASSUME NEW a \in Avatar, BeginAvatar(a) PROVE JobChanges(r)
  BY <1>12, <1>15 DEF BeginAvatar
<1>16. ASSUME NEW w \in Worker,
              PerformStep(w) \/ SkipSteps(w) \/ WorkerDies(w) \/ LookAtChildren(w)
       PROVE  JobChanges(r)
  BY <1>12, <1>16 DEF PerformStep, SkipSteps, WorkerDies, LookAtChildren
<1>17. CASE UNCHANGED vars
  BY <1>12, <1>17 DEF vars
<1> QED BY <1>1, <1>2, <1>3, <1>4, <1>5, <1>6, <1>7, <1>8, <1>9, <1>10, <1>11, <1>13, <1>14,
           <1>15, <1>16, <1>17 DEF Next

\* A changed job is a row again, and one that is queued has an attempt left.
LEMMA RowsStep ==
    ASSUME IInv, [Next]_vars, NEW r \in Resource
    PROVE  /\ job'[r] \in JobRow \cup {NoOne} /\ (job[r] # NoOne => job'[r] # NoOne)
           /\ job'[r] # job[r] => job'[r] \in JobRow
           /\ job'[r] # NoOne /\ job'[r].status = "queued" => job'[r].attempts < MaxAttempts
<1> USE DEF IInv, TypeOK
<1>1. job[r] \in JobRow \cup {NoOne} /\ NoOne \notin JobRow
  BY NoOneAssumption
<1>2. job[r] # NoOne /\ job[r].status = "queued" => job[r].attempts < MaxAttempts
  BY DEF AttemptsLeft
<1>3. CASE job'[r] = job[r]
  BY <1>1, <1>2, <1>3
<1>4. CASE InsertsFile(r) \/ InsertsSpace(r) \/ InsertsAccount(r)
  <2>1. PICK parent \in Parent \cup {NoOne}, keys \in SUBSET Object :
          job'[r] = Inserted(job[r], parent, keys)
    BY <1>4, Kinds DEF InsertsFile, InsertsSpace, InsertsAccount, Object
  <2>2. 0 < MaxAttempts
    BY CleanupAssumption
  <2> QED BY <1>1, <1>2, <2>1, <2>2, InsertedRows
<1>5. CASE Reopens(r)
  BY <1>1, <1>5, RequeuedRows DEF Reopens
<1>6. ASSUME NEW w \in Worker, ClaimJob(w, r)
      PROVE  job'[r] \in JobRow /\ job'[r].status = "processing"
  <2>1. job[r] \in JobRow /\ job[r].attempts \in 0 .. MaxAttempts
    BY <1>6 DEF ClaimJob, Claimable, JobRow
  <2>2. PICK n \in 0 .. MaxAttempts :
          n = IF job[r].status = "waiting" THEN job[r].attempts ELSE job[r].attempts + 1
    BY <1>2, <1>6, <2>1, CleanupAssumption DEF ClaimJob, Claimable
  <2>3. job'[r] = [job[r] EXCEPT !.status = "processing", !.attempts = n,
                                 !.holder = w, !.lease = TRUE]
    <3>1. job'[r] = [job[r] EXCEPT !.status = "processing",
                                   !.attempts = IF job[r].status = "waiting"
                                                THEN @ ELSE @ + 1,
                                   !.holder = w, !.lease = TRUE]
      <4>1. ASSUME NEW x, job' = [job EXCEPT ![r] = x] PROVE job'[r] = x
        BY <4>1
      <4> QED BY <1>6, <4>1, Zenon DEF ClaimJob
    <3>2. job'[r] = [job[r] EXCEPT !.status = "processing",
                                   !.attempts = IF job[r].status = "waiting"
                                                THEN job[r].attempts ELSE job[r].attempts + 1,
                                   !.holder = w, !.lease = TRUE]
      BY <2>1, <3>1, Zenon DEF JobRow
    <3> QED BY <2>2, <3>2, Zenon
  <2>4. job'[r] \in JobRow
    <3>1. [job[r] EXCEPT !.status = "processing", !.attempts = n, !.holder = w, !.lease = TRUE]
             \in JobRow
      BY <2>1, WorkedRows
    <3> QED BY <2>3, <3>1
  <2> QED BY <2>1, <2>3, <2>4 DEF JobRow
<1>7. ASSUME NEW w \in Worker, Notes(w, r)
      PROVE  job'[r] \in JobRow /\ job'[r].status = job[r].status /\ job[r] # NoOne
             /\ job'[r].attempts = job[r].attempts
  <2>1. work[w] \in Claim /\ job[r] \in JobRow /\ StepsLeft(work[w]) # {}
    BY <1>7 DEF Notes, WorkersAreDone, WorkIsDone
  <2>2. NextStep(work[w]) \in Steps
    BY <2>1, NextIsStep
  <2>3. job'[r] \in JobRow
    <3>1. [job[r] EXCEPT !.steps = @ \cup {NextStep(work[w])}] \in JobRow
      BY <2>1, <2>2, WorkedRows
    <3> QED BY <1>7, <3>1 DEF Notes
  <2> QED BY <1>7, <2>1, <2>3, <1>1 DEF Notes, JobRow
<1>8. ASSUME NEW w \in Worker, Completes(w, r)
      PROVE  job'[r] \in JobRow /\ job'[r].status # "queued"
  <2>1. job[r] \in JobRow
    BY <1>8 DEF Completes, Finalize, WorkersAreDone, WorkIsDone
  <2> QED BY <1>8, <2>1, ReleasedRows DEF Completes
<1>9. CASE GivesUp(r)
  <2>1. job[r] \in JobRow
    BY <1>9 DEF GivesUp
  <2>2. CASE job'[r] = [job[r] EXCEPT !.lease = FALSE]
    <3>1. [job[r] EXCEPT !.lease = FALSE] \in JobRow
      BY <2>1, WorkedRows
    <3>2. job'[r].status = job[r].status /\ job'[r].attempts = job[r].attempts
      BY <2>1, <2>2 DEF JobRow
    <3> QED BY <1>1, <1>2, <2>1, <2>2, <3>1, <3>2
  <2>3. CASE \E status \in {"failed", "waiting"} : job'[r] = Released(job[r], status)
    <3>1. PICK status \in {"failed", "waiting"} : job'[r] = Released(job[r], status)
      BY <2>3
    <3>2. Released(job[r], status) \in JobRow /\ Released(job[r], status).status = status
      BY <2>1, ReleasedRows
    <3> QED BY <1>1, <3>1, <3>2
  <2> QED BY <1>9, <2>2, <2>3 DEF GivesUp
<1> QED BY <1>1, <1>2, <1>3, <1>4, <1>5, <1>6, <1>7, <1>8, <1>9, JobStep DEF JobChanges

\* What a step makes of one worker.
LEMMA WorkStep ==
    ASSUME IInv, [Next]_vars, NEW w \in Worker, work'[w] # work[w]
    PROVE  \/ work'[w] = NoOne
           \/ \E r \in Resource : ClaimJob(w, r)
           \/ PerformStep(w) \/ SkipSteps(w) \/ LookAtChildren(w) \/ (NoteStep(w) /\ Holds(w))
<1> USE DEF IInv, TypeOK
<1>1. ASSUME NEW x \in Worker, NEW r \in Resource, ClaimJob(x, r) PROVE x = w
  BY <1>1 DEF ClaimJob
<1>2. ASSUME NEW x \in Worker, PerformStep(x) \/ SkipSteps(x) \/ LookAtChildren(x) PROVE x = w
  BY <1>2 DEF PerformStep, SkipSteps, LookAtChildren
<1>3. ASSUME NEW x \in Worker, NoteStep(x) PROVE x = w /\ (Holds(x) \/ work'[w] = NoOne)
  BY <1>3 DEF NoteStep
<1>4. ASSUME NEW x \in Worker,
             AwaitChildren(x) \/ FailAttempt(x) \/ Finalize(x) \/ WorkerDies(x)
      PROVE  work'[w] = NoOne
  BY <1>4 DEF AwaitChildren, FailAttempt, Finalize, WorkerDies
<1>5. work' = work => FALSE
  OBVIOUS
<1>6. ASSUME NEW f \in File,
             \/ ReserveUpload(f) \/ RecordObject(f) \/ RetryTransfer(f)
             \/ AbandonUpload(f) \/ CheckLease(f) \/ IndexFile(f) \/ DeleteFile(f)
      PROVE  FALSE
  BY <1>5, <1>6 DEF ReserveUpload, RecordObject, RetryTransfer, AbandonUpload, CheckLease,
                    IndexFile, DeleteFile
<1>7. ASSUME NEW o, StoreObject(o) \/ TransferDies(o) \/ BeginAvatar(o) \/ ReplaceAvatar(o)
                    \/ RejectAvatar(o) \/ DeleteSpace(o) \/ LeaseExpires(o) \/ FailExhausted(o)
      PROVE  FALSE
  BY <1>5, <1>7 DEF StoreObject, TransferDies, BeginAvatar, ReplaceAvatar, RejectAvatar, DeleteSpace,
                    LeaseExpires, FailExhausted
<1>8. ASSUME DeleteAccount \/ UNCHANGED vars PROVE FALSE
  BY <1>5, <1>8 DEF DeleteAccount, vars
<1> QED BY <1>1, <1>2, <1>3, <1>4, <1>6, <1>7, <1>8 DEF Next

\* A worker has a claim, or none.
LEMMA ClaimsStep ==
    ASSUME IInv, [Next]_vars, NEW w \in Worker
    PROVE  work'[w] \in Claim \cup {NoOne}
<1> USE DEF IInv, TypeOK
<1>1. ASSUME NEW r \in Resource, ClaimJob(w, r) PROVE work'[w] \in Claim
  <2>1. job[r] \in JobRow
    BY <1>1 DEF ClaimJob, Claimable
  <2>2. [job |-> r, steps |-> job[r].steps, keys |-> job[r].keys, at |-> "run"] \in Claim
    BY <2>1 DEF Claim, JobRow
  <2> QED BY <1>1, <2>2 DEF ClaimJob
<1>2. ASSUME PerformStep(w) \/ SkipSteps(w) \/ LookAtChildren(w) PROVE work'[w] \in Claim
  <2>1. \A at \in {"note", "final", "commit"} : work[w] # NoOne => [work[w] EXCEPT !.at = at] \in Claim
    BY DEF Claim
  <2> QED BY <1>2, <2>1 DEF PerformStep, SkipSteps, LookAtChildren
<1>3. ASSUME NoteStep(w), Holds(w) PROVE work'[w] \in Claim
  <2>1. work[w] \in Claim /\ StepsLeft(work[w]) # {}
    BY <1>3 DEF NoteStep, WorkersAreDone, WorkIsDone
  <2>2. NextStep(work[w]) \in Steps
    BY <2>1, NextIsStep
  <2>3. PICK at \in {"final", "run"} :
          at = IF Cardinality(StepsLeft(work[w])) = 1 THEN "final" ELSE "run"
    OBVIOUS
  <2>4. [work[w] EXCEPT !.steps = @ \cup {NextStep(work[w])}, !.at = at] \in Claim
    BY <2>1, <2>2 DEF Claim
  <2> QED BY <1>3, <2>3, <2>4 DEF NoteStep
<1> QED BY <1>1, <1>2, <1>3, WorkStep

\* Every variable keeps its type.
LEMMA TypeStep == IInv /\ [Next]_vars => TypeOK'
<1> SUFFICES ASSUME IInv, [Next]_vars PROVE TypeOK'
  OBVIOUS
<1> DEFINE others == /\ account' \in {"active", "pending", "gone"}
                     /\ space' \in [Space -> {"active", "deleting", "gone"}]
                     /\ row' \in [File -> {"none", "uploading", "stored", "deleting", "gone"}]
                     /\ keyed' \in [File -> BOOLEAN]
                     /\ transfer' \in [Object -> {"idle", "storing", "put", "done", "died"}]
                     /\ object' \in SUBSET Object
                     /\ index' \in SUBSET File
                     /\ avatar' \in Avatar \cup {NoOne}
                     /\ checking' \in SUBSET File
                     /\ strayed' \in SUBSET File
                     /\ reopened' \in SUBSET File
           tables2 == /\ job' = [r \in Resource |-> job'[r]]
                      /\ work' = [w \in Worker |-> work'[w]]
<1> USE Kinds DEF IInv, TypeOK, tables, indexes
<1>1. ASSUME NEW f \in File, RecordObject(f) \/ DeleteFile(f) PROVE others /\ tables2
  <2>1. CASE RecordObject(f)
    <3>1. others /\ work' = work
      <4>1. /\ UNCHANGED <<account, space, object, avatar, work, index, checking, strayed>>
            /\ transfer' = [transfer EXCEPT ![f] = "done"]
        BY <2>1 DEF RecordObject
      <4>2. row' \in {row, [row EXCEPT ![f] = "stored"]}
        BY <2>1 DEF RecordObject
      <4>3. keyed' \in {keyed, [keyed EXCEPT ![f] = TRUE]}
        BY <2>1 DEF RecordObject
      <4>4. reopened' \in {reopened, reopened \cup {f}}
        BY <2>1 DEF RecordObject
      <4>5. transfer' \in [Object -> {"idle", "storing", "put", "done", "died"}]
        BY <4>1
      <4>6. row' \in [File -> {"none", "uploading", "stored", "deleting", "gone"}]
        BY <4>2
      <4>7. keyed' \in [File -> BOOLEAN]
        BY <4>3
      <4> QED BY <4>1, <4>4, <4>5, <4>6, <4>7
    <3>2. \/ job' = job
          \/ job' = [job EXCEPT ![f] = Requeued(@, f)]
      BY <2>1 DEF RecordObject
    <3>3. tables2
      BY <3>1, <3>2
    <3> QED BY <3>1, <3>3
  <2>2. CASE DeleteFile(f)
    BY <2>2 DEF DeleteFile, PrepareFiles
  <2> QED BY <1>1, <2>1, <2>2
<1>2. ASSUME NEW s \in Space, DeleteSpace(s) PROVE others /\ tables2
  BY <1>2 DEF DeleteSpace, PrepareFiles
<1>3. ASSUME DeleteAccount PROVE others /\ tables2
  <2>1. row' = [f \in File |-> IF RowExists(f) THEN "deleting" ELSE row[f]]
    BY <1>3 DEF DeleteAccount, PrepareFiles
  <2>2. others
    BY <1>3, <2>1 DEF DeleteAccount
  <2>3. tables2
    BY <1>3 DEF DeleteAccount, PrepareFiles
  <2> QED BY <2>2, <2>3
<1>4. ASSUME NEW a \in Avatar, BeginAvatar(a) \/ ReplaceAvatar(a) \/ RejectAvatar(a)
      PROVE  others /\ tables2
  BY <1>4 DEF BeginAvatar, ReplaceAvatar, RejectAvatar
<1>5. ASSUME NEW w \in Worker, NEW r \in Resource, ClaimJob(w, r) PROVE others /\ tables2
  BY <1>5 DEF ClaimJob
<1>6. ASSUME NEW w \in Worker, NoteStep(w) PROVE others /\ tables2
  <2>1. others /\ work' = [x \in Worker |-> work'[x]]
    BY <1>6 DEF NoteStep
  <2>2. job' = [r \in Resource |-> job'[r]]
    BY <1>6 DEF NoteStep
  <2> QED BY <2>1, <2>2
<1>7. ASSUME NEW w \in Worker, AwaitChildren(w) \/ FailAttempt(w) \/ WorkerDies(w)
      PROVE  others /\ tables2
  BY <1>7 DEF AwaitChildren, FailAttempt, WorkerDies
<1>8. ASSUME NEW w \in Worker, PerformStep(w) \/ SkipSteps(w) \/ LookAtChildren(w)
      PROVE  others /\ tables2
  BY <1>8 DEF PerformStep, SkipSteps, LookAtChildren
<1>9. ASSUME NEW w \in Worker, Finalize(w) PROVE others /\ tables2
  BY <1>9 DEF Finalize
<1>10. ASSUME NEW r \in Resource, LeaseExpires(r) \/ FailExhausted(r) PROVE others /\ tables2
  BY <1>10 DEF LeaseExpires, FailExhausted
<1>11. ASSUME NEW f \in File,
              \/ ReserveUpload(f) \/ RetryTransfer(f) \/ AbandonUpload(f)
              \/ CheckLease(f) \/ IndexFile(f)
       PROVE  others /\ tables2
  BY <1>11 DEF ReserveUpload, RetryTransfer, AbandonUpload, CheckLease, IndexFile
<1>12. ASSUME NEW o \in Object, StoreObject(o) \/ TransferDies(o) PROVE others /\ tables2
  BY <1>12 DEF StoreObject, TransferDies
<1>13. CASE UNCHANGED vars
  BY <1>13 DEF vars
<1>14. others /\ tables2
  BY <1>1, <1>2, <1>3, <1>4, <1>5, <1>6, <1>7, <1>8, <1>9, <1>10, <1>11, <1>12, <1>13 DEF Next
<1> HIDE DEF others
<1>15. \A r \in Resource : job'[r] \in JobRow \cup {NoOne}
  BY RowsStep
<1>16. \A w \in Worker : work'[w] \in Claim \cup {NoOne}
  BY ClaimsStep
<1> QED BY <1>14, <1>15, <1>16 DEF others
-----------------------------------------------------------------------------
(* Rows, owners and their jobs. *)

\* The job that a deletion inserts for a file is a row.
LEMMA InsertedFiles ==
    ASSUME TypeOK, NEW f \in File, NEW parent \in Parent \cup {NoOne}
    PROVE  Inserted(job[f], parent, IF keyed[f] THEN {f} ELSE {}) # NoOne
<1>1. PICK keys \in SUBSET Object : keys = IF keyed[f] THEN {f} ELSE {}
  BY Kinds
<1>2. job[f] \in JobRow \cup {NoOne}
  BY Kinds DEF TypeOK
<1>3. Inserted(job[f], parent, keys) \in JobRow
  BY <1>2, InsertedRows
<1> QED BY <1>1, <1>3, NoOneAssumption

\* A change of a job leaves a new job, a job of a file only where one was or
\* where the file is being deleted.
LEMMA JobsGrow ==
    ASSUME IInv, [Next]_vars, NEW r \in Resource
    PROVE  /\ job[r] # NoOne => job'[r] # NoOne
           /\ r \in File /\ job'[r] # NoOne /\ job[r] = NoOne => InsertsFile(r) \/ Reopens(r)
           /\ r \in Space /\ job'[r] # NoOne /\ job[r] = NoOne => InsertsSpace(r)
           /\ r = Account /\ job'[r] # NoOne /\ job[r] = NoOne => InsertsAccount(r)
<1>1. job'[r] # NoOne /\ job[r] = NoOne
      => InsertsFile(r) \/ InsertsSpace(r) \/ InsertsAccount(r) \/ Reopens(r)
  <2>1. \A w \in Worker : ClaimJob(w, r) => job[r] # NoOne
    BY DEF ClaimJob, Claimable
  <2>2. \A w \in Worker : Notes(w, r) \/ Completes(w, r) => job[r] # NoOne
    BY DEF Notes, Completes, Finalize, IInv, WorkersAreDone, WorkIsDone
  <2> QED BY <2>1, <2>2, JobStep DEF JobChanges, GivesUp
<1> QED BY <1>1, RowsStep, Kinds DEF InsertsFile, InsertsSpace, InsertsAccount, Reopens

\* What a step makes of the row of one file.
LEMMA FileStep ==
    ASSUME IInv, [Next]_vars, NEW f \in File
    PROVE  /\ row[f] = "none" => row'[f] \in {"none", "uploading"}
           /\ row[f] = "stored" => row'[f] \in {"stored", "deleting"}
           /\ row[f] = "deleting" => row'[f] \in {"deleting", "gone"}
           /\ row[f] = "gone" => row'[f] = "gone"
           /\ row'[f] = "none" => row[f] = "none" /\ transfer'[f] = "idle"
           /\ row'[f] = "deleting" /\ row[f] # "deleting" => job'[f] # NoOne
           /\ row'[f] = "stored" => keyed'[f]
           /\ row'[f] \in {"uploading", "stored"} =>
                /\ row[f] \in {"none", "uploading", "stored"}
                /\ account' = "active" /\ (SpaceOf[f] # NoOne => space'[SpaceOf[f]] = "active")
<1> DEFINE goal == /\ row[f] = "none" => row'[f] \in {"none", "uploading"}
                   /\ row[f] = "stored" => row'[f] \in {"stored", "deleting"}
                   /\ row[f] = "deleting" => row'[f] \in {"deleting", "gone"}
                   /\ row[f] = "gone" => row'[f] = "gone"
                   /\ row'[f] = "none" => row[f] = "none" /\ transfer'[f] = "idle"
                   /\ row'[f] = "deleting" /\ row[f] # "deleting" => job'[f] # NoOne
                   /\ row'[f] = "stored" => keyed'[f]
                   /\ row'[f] \in {"uploading", "stored"} =>
                        /\ row[f] \in {"none", "uploading", "stored"}
                        /\ account' = "active"
                        /\ (SpaceOf[f] # NoOne => space'[SpaceOf[f]] = "active")
<1> USE Kinds DEF IInv, TypeOK, tables, RowsMatchJobs, RowExists
<1>1. SpaceOf[f] \in Space \cup {NoOne}
  BY CleanupAssumption
<1>2. ASSUME NEW x \in File,
             \/ ReserveUpload(x) \/ RecordObject(x) \/ RetryTransfer(x)
             \/ AbandonUpload(x) \/ CheckLease(x) \/ IndexFile(x)
      PROVE  goal
  <2>1. CASE ReserveUpload(x)
    BY <2>1 DEF ReserveUpload
  <2>2. CASE RecordObject(x)
    BY <2>2 DEF RecordObject
  <2>3. CASE RetryTransfer(x) \/ AbandonUpload(x) \/ CheckLease(x) \/ IndexFile(x)
    BY <2>3 DEF RetryTransfer, AbandonUpload, CheckLease, IndexFile
  <2> QED BY <1>2, <2>1, <2>2, <2>3
<1>3. ASSUME NEW x \in File, DeleteFile(x) PROVE goal
  <2>1. row' = [y \in File |-> IF y = x THEN "deleting" ELSE row[y]]
    BY <1>3 DEF DeleteFile, PrepareFiles
  <2>2. row'[f] = "deleting" /\ row[f] # "deleting" => job'[f] # NoOne
    <3>1. job'[x] = Inserted(job[x], NoOne, IF keyed[x] THEN {x} ELSE {})
      BY <1>3 DEF DeleteFile, PrepareFiles
    <3>2. Inserted(job[x], NoOne, IF keyed[x] THEN {x} ELSE {}) # NoOne
      BY InsertedFiles
    <3> QED BY <2>1, <3>1, <3>2
  <2> QED BY <1>3, <2>1, <2>2 DEF DeleteFile
<1>4. ASSUME NEW s \in Space, DeleteSpace(s) PROVE goal
  <2>1. row' = [y \in File |-> IF RowExists(y) /\ SpaceOf[y] = s THEN "deleting" ELSE row[y]]
    BY <1>4 DEF DeleteSpace, PrepareFiles
  <2>2. row'[f] = "deleting" /\ row[f] # "deleting" => job'[f] # NoOne
    <3> SUFFICES ASSUME row'[f] = "deleting" /\ row[f] # "deleting" PROVE job'[f] # NoOne
      OBVIOUS
    <3>1. job'[f] = Inserted(job[f], s, IF keyed[f] THEN {f} ELSE {})
      BY <1>4, <2>1 DEF DeleteSpace, PrepareFiles
    <3>2. Inserted(job[f], s, IF keyed[f] THEN {f} ELSE {}) # NoOne
      BY InsertedFiles DEF Parent
    <3> QED BY <3>1, <3>2
  <2>3. SpaceOf[f] # s => space'[SpaceOf[f]] = space[SpaceOf[f]] \/ SpaceOf[f] = NoOne
    BY <1>1, <1>4 DEF DeleteSpace
  <2> QED BY <1>1, <1>4, <2>1, <2>2, <2>3 DEF DeleteSpace
<1>5. ASSUME DeleteAccount PROVE goal
  <2>1. row' = [y \in File |-> IF RowExists(y) THEN "deleting" ELSE row[y]]
    BY <1>5 DEF DeleteAccount, PrepareFiles
  <2>2. row'[f] = "deleting" /\ row[f] # "deleting" => job'[f] # NoOne
    <3> SUFFICES ASSUME row'[f] = "deleting" /\ row[f] # "deleting" PROVE job'[f] # NoOne
      OBVIOUS
    <3>1. job'[f] = Inserted(job[f], Account, IF keyed[f] THEN {f} ELSE {})
      BY <1>5, <2>1 DEF DeleteAccount, PrepareFiles
    <3>2. Inserted(job[f], Account, IF keyed[f] THEN {f} ELSE {}) # NoOne
      BY InsertedFiles DEF Parent
    <3> QED BY <3>1, <3>2
  <2> QED BY <1>5, <2>1, <2>2 DEF DeleteAccount
<1>6. ASSUME NEW w \in Worker, Finalize(w) PROVE goal
  <2>1. work[w].job \in Resource /\ job[work[w].job] # NoOne
    BY <1>6 DEF Finalize, WorkersAreDone, WorkIsDone, Claim
  <2>2. /\ work[w].job = Account => account # "active"
        /\ work[w].job \in Space => space[work[w].job] # "active"
        /\ work[w].job = f => row[f] \in {"deleting", "gone"}
    BY <2>1 DEF OwnersMatchJobs
  <2>3. row'[f] = IF RowExists(f) /\ work[w].job \in {f, Account} THEN "gone" ELSE row[f]
    BY <1>6 DEF Finalize
  <2>4. /\ account' = IF work[w].job = Account THEN "gone" ELSE account
        /\ \A s \in Space : space'[s] = IF work[w].job \in {s, Account} THEN "gone" ELSE space[s]
        /\ keyed' = keyed /\ transfer' = transfer
    BY <1>6 DEF Finalize
  <2> QED BY <1>1, <2>2, <2>3, <2>4
<1>7. ASSUME NEW a \in Avatar, BeginAvatar(a) \/ ReplaceAvatar(a) \/ RejectAvatar(a) PROVE goal
  BY <1>7 DEF BeginAvatar, ReplaceAvatar, RejectAvatar
<1>8. ASSUME NEW o \in Object, StoreObject(o) \/ TransferDies(o) PROVE goal
  BY <1>8 DEF StoreObject, TransferDies
<1>9. ASSUME NEW w \in Worker,
             \/ \E r \in Resource : ClaimJob(w, r)
             \/ PerformStep(w) \/ NoteStep(w) \/ SkipSteps(w) \/ AwaitChildren(w)
             \/ FailAttempt(w) \/ LookAtChildren(w) \/ WorkerDies(w)
      PROVE  goal
  <2>1. UNCHANGED <<account, space, row, keyed, transfer>>
    BY <1>9 DEF ClaimJob, PerformStep, NoteStep, SkipSteps, AwaitChildren, FailAttempt, LookAtChildren,
                WorkerDies
  <2> QED BY <2>1
<1>10. ASSUME NEW r \in Resource, LeaseExpires(r) \/ FailExhausted(r) PROVE goal
  BY <1>10 DEF LeaseExpires, FailExhausted
<1>11. ASSUME UNCHANGED vars PROVE goal
  BY <1>11 DEF vars
<1> QED BY <1>2, <1>3, <1>4, <1>5, <1>6, <1>7, <1>8, <1>9, <1>10, <1>11 DEF Next

\* So the rows and the jobs of the files go on to agree.
LEMMA FilesStep == IInv /\ [Next]_vars => RowsMatchJobs'
<1> SUFFICES ASSUME IInv, [Next]_vars, NEW f \in File
             PROVE  /\ job'[f] # NoOne => row'[f] \in {"deleting", "gone"}
                    /\ row'[f] = "deleting" => job'[f] # NoOne
                    /\ row'[f] = "none" => transfer'[f] = "idle"
                    /\ row'[f] = "stored" => keyed'[f]
                    /\ row'[f] \in {"uploading", "stored"} =>
                         /\ account' = "active"
                         /\ SpaceOf[f] # NoOne => space'[SpaceOf[f]] = "active"
  BY DEF RowsMatchJobs
<1>1. /\ job[f] # NoOne => row[f] \in {"deleting", "gone"}
      /\ row[f] = "deleting" => job[f] # NoOne
  BY DEF IInv, RowsMatchJobs
<1>2. InsertsFile(f) \/ Reopens(f) => row'[f] \in {"deleting", "gone"}
  BY DEF InsertsFile, Reopens
<1>3. job[f] # NoOne => job'[f] # NoOne
  BY Kinds, JobsGrow
<1>4. job'[f] # NoOne /\ job[f] = NoOne => InsertsFile(f) \/ Reopens(f)
  BY Kinds, JobsGrow
<1> QED BY <1>1, <1>2, <1>3, <1>4, FileStep

\* What a step makes of the other variables.
LEMMA OwnerStep ==
    ASSUME IInv, [Next]_vars
    PROVE  /\ account # "active" => account' # "active"
           /\ \A s \in Space : space[s] # "active" => space'[s] # "active"
           /\ \A f \in File : keyed'[f] => keyed[f] \/ row'[f] = "stored"
           /\ \A f \in Entries' : f \in Entries \/ (row[f] = "stored" /\ row' = row)
           /\ avatar' # avatar => \/ \E a \in Avatar : ReplaceAvatar(a)
                                 \/ \E w \in Worker : Finalize(w) /\ work[w].job = Account
           /\ account' # account => \/ account # "gone" /\ InsertsAccount(Account)
                                   \/ \E w \in Worker : Finalize(w) /\ work[w].job = Account
<1> DEFINE goal == /\ account # "active" => account' # "active"
                   /\ \A s \in Space : space[s] # "active" => space'[s] # "active"
                   /\ \A f \in File : keyed'[f] => keyed[f] \/ row'[f] = "stored"
                   /\ \A f \in Entries' : f \in Entries \/ (row[f] = "stored" /\ row' = row)
                   /\ avatar' # avatar =>
                        \/ \E a \in Avatar : ReplaceAvatar(a)
                        \/ \E w \in Worker : Finalize(w) /\ work[w].job = Account
                   /\ account' # account =>
                        \/ account # "gone" /\ InsertsAccount(Account)
                        \/ \E w \in Worker : Finalize(w) /\ work[w].job = Account
<1> USE DEF IInv, TypeOK, tables, indexes, Entries
<1>1. ASSUME NEW x \in File,
             \/ ReserveUpload(x) \/ RetryTransfer(x) \/ AbandonUpload(x) \/ DeleteFile(x)
      PROVE  goal
  BY <1>1 DEF ReserveUpload, RetryTransfer, AbandonUpload, DeleteFile
<1>2. ASSUME NEW x \in File, RecordObject(x) \/ CheckLease(x) \/ IndexFile(x) PROVE goal
  BY <1>2 DEF RecordObject, CheckLease, IndexFile
<1>3. ASSUME DeleteAccount \/ \E s \in Space : DeleteSpace(s) PROVE goal
  <2>1. CASE DeleteAccount
    <3>1. InsertsAccount(Account)
      BY <2>1, Kinds DEF DeleteAccount, PrepareFiles, InsertsAccount
    <3> QED BY <2>1, <3>1 DEF DeleteAccount
  <2>2. CASE \E s \in Space : DeleteSpace(s)
    BY <2>2 DEF DeleteSpace
  <2> QED BY <1>3, <2>1, <2>2
<1>4. ASSUME NEW a \in Avatar, BeginAvatar(a) \/ ReplaceAvatar(a) \/ RejectAvatar(a) PROVE goal
  BY <1>4 DEF BeginAvatar, ReplaceAvatar, RejectAvatar
<1>5. ASSUME NEW o \in Object, StoreObject(o) \/ TransferDies(o) PROVE goal
  BY <1>5 DEF StoreObject, TransferDies
<1>6. ASSUME NEW w \in Worker, Finalize(w) PROVE goal
  BY <1>6 DEF Finalize
<1>7. ASSUME NEW w \in Worker,
             \/ \E r \in Resource : ClaimJob(w, r)
             \/ PerformStep(w) \/ NoteStep(w) \/ SkipSteps(w) \/ AwaitChildren(w)
             \/ FailAttempt(w) \/ LookAtChildren(w) \/ WorkerDies(w)
      PROVE  goal
  <2>1. UNCHANGED <<account, space, row, keyed, avatar>> /\ Entries' \subseteq Entries
    BY <1>7 DEF ClaimJob, PerformStep, NoteStep, SkipSteps, AwaitChildren, FailAttempt, LookAtChildren,
                WorkerDies
  <2> QED BY <2>1
<1>8. ASSUME NEW r \in Resource, LeaseExpires(r) \/ FailExhausted(r) PROVE goal
  BY <1>8 DEF LeaseExpires, FailExhausted
<1>9. ASSUME UNCHANGED vars PROVE goal
  BY <1>9 DEF vars
<1> QED BY <1>1, <1>2, <1>3, <1>4, <1>5, <1>6, <1>7, <1>8, <1>9 DEF Next

\* What a step makes of the transfer of one object, and of the object.
LEMMA ObjectStep ==
    ASSUME IInv, [Next]_vars, NEW o \in Object
    PROVE  /\ transfer[o] = "done" => transfer'[o] = "done"
           /\ o \in object' /\ ~InFlight(o)' =>
                \/ o \in object /\ ~InFlight(o)
                \/ o \in File /\ RecordObject(o)
                \/ o \in Avatar /\ (ReplaceAvatar(o) \/ RejectAvatar(o))
<1> DEFINE goal == /\ transfer[o] = "done" => transfer'[o] = "done"
                   /\ o \in object' /\ ~InFlight(o)' =>
                        \/ o \in object /\ ~InFlight(o)
                        \/ o \in File /\ RecordObject(o)
                        \/ o \in Avatar /\ (ReplaceAvatar(o) \/ RejectAvatar(o))
<1> USE Kinds DEF IInv, TypeOK, tables, InFlight
<1>1. ASSUME NEW x \in File,
             \/ ReserveUpload(x) \/ RetryTransfer(x) \/ AbandonUpload(x)
             \/ CheckLease(x) \/ IndexFile(x) \/ DeleteFile(x)
      PROVE  goal
  BY <1>1 DEF ReserveUpload, RetryTransfer, AbandonUpload, CheckLease, IndexFile, DeleteFile,
              RowsMatchJobs
<1>2. ASSUME NEW x \in File, RecordObject(x) PROVE goal
  <2>1. transfer' = [transfer EXCEPT ![x] = "done"] /\ object' = object /\ transfer[x] = "put"
    BY <1>2 DEF RecordObject
  <2> QED BY <1>2, <2>1
<1>3. ASSUME DeleteAccount \/ \E s \in Space : DeleteSpace(s) PROVE goal
  BY <1>3 DEF DeleteAccount, DeleteSpace
<1>4. ASSUME NEW a \in Avatar, BeginAvatar(a) \/ ReplaceAvatar(a) \/ RejectAvatar(a) PROVE goal
  <2>1. CASE BeginAvatar(a)
    BY <2>1 DEF BeginAvatar
  <2>2. CASE ReplaceAvatar(a) \/ RejectAvatar(a)
    <3>1. transfer' = [transfer EXCEPT ![a] = "done"] /\ object' \subseteq object /\ transfer[a] = "put"
      BY <2>2 DEF ReplaceAvatar, RejectAvatar
    <3> QED BY <2>2, <3>1
  <2> QED BY <1>4, <2>1, <2>2
<1>5. ASSUME NEW x \in Object, StoreObject(x) \/ TransferDies(x) PROVE goal
  BY <1>5 DEF StoreObject, TransferDies
<1>6. ASSUME NEW w \in Worker,
             \/ \E r \in Resource : ClaimJob(w, r)
             \/ PerformStep(w) \/ NoteStep(w) \/ SkipSteps(w) \/ AwaitChildren(w)
             \/ FailAttempt(w) \/ LookAtChildren(w) \/ WorkerDies(w) \/ Finalize(w)
      PROVE  goal
  <2>1. transfer' = transfer /\ object' \subseteq object
    BY <1>6 DEF ClaimJob, PerformStep, NoteStep, SkipSteps, AwaitChildren, FailAttempt, LookAtChildren,
                WorkerDies, Finalize
  <2> QED BY <2>1
<1>7. ASSUME NEW r \in Resource, LeaseExpires(r) \/ FailExhausted(r) PROVE goal
  BY <1>7 DEF LeaseExpires, FailExhausted
<1>8. ASSUME UNCHANGED vars PROVE goal
  BY <1>8 DEF vars
<1> QED BY <1>1, <1>2, <1>3, <1>4, <1>5, <1>6, <1>7, <1>8 DEF Next

\* What a change of a job leaves of the row.
LEMMA FieldsStep ==
    ASSUME IInv, [Next]_vars, NEW r \in Resource, job[r] # NoOne
    PROVE  /\ InsertsFile(r) \/ InsertsSpace(r) \/ InsertsAccount(r) =>
                /\ job'[r].status = job[r].status /\ job'[r].steps = job[r].steps
                /\ job'[r].holder = job[r].holder /\ job'[r].lease = job[r].lease
           /\ Reopens(r) =>
                /\ job'[r].status = "queued" /\ job'[r].holder = NoOne
                /\ job'[r].steps = job[r].steps \ {"storage_deleted"}
                /\ job'[r].keys = job[r].keys \cup {r} /\ job'[r].parent = job[r].parent
           /\ \A w \in Worker : ClaimJob(w, r) =>
                /\ job'[r].status = "processing" /\ job'[r].holder = w
                /\ job'[r].steps = job[r].steps /\ job'[r].keys = job[r].keys
                /\ job'[r].parent = job[r].parent
           /\ \A w \in Worker : Notes(w, r) =>
                /\ job'[r].status = job[r].status /\ job'[r].holder = w
                /\ job'[r].steps = job[r].steps \cup {NextStep(work[w])}
                /\ job'[r].keys = job[r].keys
                /\ job'[r].parent = job[r].parent
           /\ \A w \in Worker : Completes(w, r) =>
                /\ job'[r].status = "completed" /\ job'[r].holder = NoOne
                /\ job'[r].steps = job[r].steps /\ job'[r].keys = job[r].keys
                /\ job'[r].parent = job[r].parent
           /\ GivesUp(r) =>
                /\ job'[r].status \in {job[r].status, "failed", "waiting"}
                /\ job[r].status # "processing" => job'[r].status = job[r].status
                /\ \/ job'[r].holder = NoOne
                   \/ /\ job'[r].lease = FALSE /\ job'[r].holder = job[r].holder
                      /\ job'[r].status = job[r].status
                /\ job'[r].steps = job[r].steps /\ job'[r].keys = job[r].keys
                /\ job'[r].parent = job[r].parent
<1> USE DEF IInv, TypeOK
<1>1. job[r] \in JobRow
  OBVIOUS
<1>2. ASSUME InsertsFile(r) \/ InsertsSpace(r) \/ InsertsAccount(r)
      PROVE  /\ job'[r].status = job[r].status /\ job'[r].steps = job[r].steps
             /\ job'[r].holder = job[r].holder /\ job'[r].lease = job[r].lease
  <2>1. PICK parent \in Parent \cup {NoOne}, keys \in SUBSET Object :
          job'[r] = Inserted(job[r], parent, keys)
    BY <1>2, Kinds DEF InsertsFile, InsertsSpace, InsertsAccount, Object
  <2>2. /\ Inserted(job[r], parent, keys).status = job[r].status
        /\ Inserted(job[r], parent, keys).steps = job[r].steps
        /\ Inserted(job[r], parent, keys).holder = job[r].holder
        /\ Inserted(job[r], parent, keys).lease = job[r].lease
    BY InsertedRows
  <2> QED BY <2>1, <2>2
<1>3. ASSUME Reopens(r)
      PROVE  /\ job'[r].status = "queued" /\ job'[r].holder = NoOne
             /\ job'[r].steps = job[r].steps \ {"storage_deleted"}
             /\ job'[r].keys = job[r].keys \cup {r} /\ job'[r].parent = job[r].parent
  BY <1>1, <1>3, RequeuedRows DEF Reopens
<1>4. ASSUME NEW w \in Worker, ClaimJob(w, r)
      PROVE  /\ job'[r].status = "processing" /\ job'[r].holder = w
             /\ job'[r].steps = job[r].steps /\ job'[r].keys = job[r].keys
             /\ job'[r].parent = job[r].parent
  <2>1. ASSUME NEW x, job' = [job EXCEPT ![r] = x] PROVE job'[r] = x
    BY <2>1
  <2>2. job'[r] = [job[r] EXCEPT !.status = "processing",
                                 !.attempts = IF job[r].status = "waiting"
                                              THEN @ ELSE @ + 1,
                                 !.holder = w, !.lease = TRUE]
    BY <1>4, <2>1, Zenon DEF ClaimJob
  <2> QED BY <1>1, <2>2 DEF JobRow
<1>5. ASSUME NEW w \in Worker, Notes(w, r)
      PROVE  /\ job'[r].status = job[r].status /\ job'[r].holder = w
             /\ job'[r].steps = job[r].steps \cup {NextStep(work[w])}
             /\ job'[r].keys = job[r].keys
             /\ job'[r].parent = job[r].parent
  BY <1>1, <1>5 DEF Notes, Holds, JobRow
<1>6. ASSUME NEW w \in Worker, Completes(w, r)
      PROVE  /\ job'[r].status = "completed" /\ job'[r].holder = NoOne
             /\ job'[r].steps = job[r].steps /\ job'[r].keys = job[r].keys
             /\ job'[r].parent = job[r].parent
  BY <1>1, <1>6, ReleasedRows DEF Completes
<1>7. ASSUME GivesUp(r)
      PROVE  /\ job'[r].status \in {job[r].status, "failed", "waiting"}
             /\ job[r].status # "processing" => job'[r].status = job[r].status
             /\ \/ job'[r].holder = NoOne
                \/ /\ job'[r].lease = FALSE /\ job'[r].holder = job[r].holder
                   /\ job'[r].status = job[r].status
             /\ job'[r].steps = job[r].steps /\ job'[r].keys = job[r].keys
             /\ job'[r].parent = job[r].parent
  <2>1. CASE job'[r] = [job[r] EXCEPT !.lease = FALSE]
    BY <1>1, <2>1 DEF JobRow
  <2>2. CASE /\ job[r].status = "processing"
             /\ \E status \in {"failed", "waiting"} : job'[r] = Released(job[r], status)
    <3>1. PICK status \in {"failed", "waiting"} : job'[r] = Released(job[r], status)
      BY <2>2
    <3> QED BY <1>1, <2>2, <3>1, ReleasedRows
  <2> QED BY <1>7, <2>1, <2>2 DEF GivesUp
<1> QED BY <1>2, <1>3, <1>4, <1>5, <1>6, <1>7

\* The owners go on to agree with their jobs.
LEMMA OwnersStep == IInv /\ [Next]_vars => OwnersMatchJobs'
<1> SUFFICES ASSUME IInv, [Next]_vars PROVE OwnersMatchJobs'
  OBVIOUS
<1>1. ASSUME NEW s \in Space, job'[s] # NoOne PROVE space'[s] # "active"
  <2>1. CASE job[s] # NoOne
    BY <2>1, OwnerStep DEF IInv, OwnersMatchJobs
  <2>2. CASE job[s] = NoOne
    <3>1. InsertsSpace(s)
      BY <1>1, <2>2, Kinds, JobsGrow
    <3> QED BY <3>1 DEF InsertsSpace
  <2> QED BY <2>1, <2>2
<1>2. ASSUME job'[Account] # NoOne PROVE account' # "active"
  <2>1. CASE job[Account] # NoOne
    BY <2>1, OwnerStep DEF IInv, OwnersMatchJobs
  <2>2. CASE job[Account] = NoOne
    <3>1. InsertsAccount(Account)
      BY <1>2, <2>2, Kinds, JobsGrow
    <3> QED BY <3>1 DEF InsertsAccount
  <2> QED BY <2>1, <2>2
<1> QED BY <1>1, <1>2 DEF OwnersMatchJobs

\* A job opens again for its own object only.
LEMMA ObjectKeysStep ==
    ASSUME IInv, [Next]_vars, NEW o \in Object, job'[o] # NoOne
    PROVE  job'[o].keys \subseteq {o}
<1>1. o \in Resource /\ (job[o] # NoOne => job[o].keys \subseteq {o}) /\ o # Account /\ o \notin Space
  BY Kinds DEF IInv, KeysMatchJobs
<1>2. CASE job'[o] = job[o]
  BY <1>1, <1>2
<1>3. CASE InsertsFile(o)
  <2>1. PICK parent \in Parent \cup {NoOne} :
          job'[o] = Inserted(job[o], parent, IF keyed[o] THEN {o} ELSE {})
    BY <1>3 DEF InsertsFile
  <2>2. PICK keys \in SUBSET Object : keys = (IF keyed[o] THEN {o} ELSE {})
    OBVIOUS
  <2>3. job[o] \in JobRow \cup {NoOne}
    BY <1>1 DEF IInv, TypeOK
  <2>4. Inserted(job[o], parent, keys).keys = keys
    BY <2>3, InsertedRows
  <2> QED BY <2>1, <2>2, <2>4
<1>4. CASE Reopens(o)
  <2>1. job[o] \in JobRow \cup {NoOne}
    BY <1>1 DEF IInv, TypeOK
  <2>2. Requeued(job[o], o).keys = (IF job[o] = NoOne THEN {} ELSE job[o].keys) \cup {o}
    BY <2>1, RequeuedRows
  <2> QED BY <1>1, <1>4, <2>2 DEF Reopens
<1>5. CASE ~ (InsertsFile(o) \/ Reopens(o)) /\ job'[o] # job[o]
  <2>1. ~ InsertsSpace(o) /\ ~ InsertsAccount(o)
    BY <1>1 DEF InsertsSpace, InsertsAccount
  <2>2. GivesUp(o) \/ \E w \in Worker : ClaimJob(w, o) \/ Notes(w, o) \/ Completes(w, o)
    BY <1>1, <1>5, <2>1, JobStep DEF JobChanges
  <2>3. job[o] # NoOne
    BY <1>1, <2>2 DEF GivesUp, ClaimJob, Claimable, Notes, Completes, Finalize,
                      IInv, WorkersAreDone, WorkIsDone
  <2>4. job'[o].keys = job[o].keys
    BY <1>1, <2>2, <2>3, FieldsStep
  <2> QED BY <1>1, <2>3, <2>4
<1> QED BY <1>2, <1>3, <1>4, <1>5

\* A deletion of a file whose row names its object keeps the object in the job.
LEMMA FileKeysStep ==
    ASSUME IInv, [Next]_vars, NEW f \in File, job'[f] # NoOne, keyed'[f]
    PROVE  f \in job'[f].keys
<1>1. f \in Resource /\ f \in Object /\ job[f] \in JobRow \cup {NoOne}
  BY Kinds DEF IInv, TypeOK
<1>2. keyed[f]
  <2>1. row'[f] # "stored"
    BY FilesStep DEF RowsMatchJobs
  <2> QED BY <2>1, OwnerStep
<1>3. CASE InsertsFile(f)
  <2>1. PICK parent \in Parent \cup {NoOne} :
          job'[f] = Inserted(job[f], parent, IF keyed[f] THEN {f} ELSE {})
    BY <1>3 DEF InsertsFile
  <2>2. Inserted(job[f], parent, {f}).keys = {f}
    BY <1>1, InsertedRows
  <2> QED BY <1>2, <2>1, <2>2
<1>4. CASE Reopens(f)
  <2>1. f \in Requeued(job[f], f).keys
    BY <1>1, RequeuedRows
  <2> QED BY <1>4, <2>1 DEF Reopens
<1>5. CASE ~ InsertsFile(f) /\ ~ Reopens(f)
  <2>1. job[f] # NoOne
    BY <1>1, <1>5, JobsGrow
  <2>2. f \in job[f].keys
    BY <1>2, <2>1 DEF IInv, KeysMatchJobs
  <2>3. ~ InsertsSpace(f) /\ ~ InsertsAccount(f)
    BY Kinds DEF InsertsSpace, InsertsAccount
  <2>4. job'[f].keys = job[f].keys
    BY <1>1, <1>5, <2>1, <2>3, FieldsStep, JobStep DEF JobChanges
  <2> QED BY <2>2, <2>4
<1> QED BY <1>3, <1>4, <1>5

\* The job of the account knows the avatar until it completes.
LEMMA AccountKeysStep ==
    ASSUME IInv, [Next]_vars, job'[Account] # NoOne, ~Completed(Account)'
    PROVE  job'[Account].keys = {avatar'} \ {NoOne}
<1>1. Account \in Resource /\ job[Account] \in JobRow \cup {NoOne} /\ Account \notin File
      /\ Account \notin Space /\ Account \notin Object
  BY Kinds DEF IInv, TypeOK
<1>2. CASE InsertsAccount(Account)
  <2>1. PICK keys \in SUBSET Object : keys = {avatar} \ {NoOne}
    BY Kinds DEF IInv, TypeOK
  <2>2. Inserted(job[Account], NoOne, keys).keys = keys
    BY <1>1, InsertedRows
  <2> QED BY <1>2, <2>1, <2>2 DEF InsertsAccount
<1>3. CASE ~ InsertsAccount(Account)
  <2>1. job[Account] # NoOne
    BY <1>1, <1>3, JobsGrow
  <2>2. ~ InsertsFile(Account) /\ ~ InsertsSpace(Account) /\ ~ Reopens(Account)
    BY <1>1 DEF InsertsFile, InsertsSpace, Reopens
  <2>3. job'[Account].keys = job[Account].keys
    BY <1>1, <1>3, <2>1, <2>2, FieldsStep, JobStep DEF JobChanges
  <2>4. ASSUME NEW w \in Worker, Finalize(w), work[w].job = Account PROVE FALSE
    <3>1. job'[Account] = Released(job[Account], "completed")
      BY <1>1, <2>4 DEF Finalize, IInv, TypeOK
    <3>2. job'[Account].status = "completed"
      BY <1>1, <2>1, <3>1, ReleasedRows
    <3> QED BY <3>2 DEF Completed
  <2>5. ~ Completed(Account)
    <3> SUFFICES ASSUME Completed(Account) PROVE FALSE
      OBVIOUS
    <3>1. \A w \in Worker : ~ ClaimJob(w, Account) /\ ~ Notes(w, Account)
      BY DEF Completed, ClaimJob, Claimable, Notes, Holds
    <3>2. \A w \in Worker : ~ Completes(w, Account)
      BY <2>4 DEF Completes
    <3>3. job'[Account] # job[Account]
      BY DEF Completed
    <3>4. GivesUp(Account)
      BY <1>1, <1>3, <2>2, <3>1, <3>2, <3>3, JobStep DEF JobChanges
    <3> QED BY <1>1, <2>1, <3>4, FieldsStep DEF Completed
  <2>6. job[Account].keys = {avatar} \ {NoOne}
    BY <2>1, <2>5 DEF IInv, KeysMatchJobs
  <2>7. \A a \in Avatar : ~ ReplaceAvatar(a)
    BY <2>1 DEF ReplaceAvatar, IInv, OwnersMatchJobs
  <2>8. avatar' = avatar
    BY <2>4, <2>7, OwnerStep
  <2> QED BY <2>3, <2>6, <2>8
<1> QED BY <1>2, <1>3

\* The keys of the jobs stay those of their resources.
LEMMA KeysStep == IInv /\ [Next]_vars => KeysMatchJobs'
<1> SUFFICES ASSUME IInv, [Next]_vars PROVE KeysMatchJobs'
  OBVIOUS
<1>1. \A o \in Object : job'[o] # NoOne => job'[o].keys \subseteq {o}
  BY ObjectKeysStep
<1>2. \A f \in File : job'[f] # NoOne /\ keyed'[f] => f \in job'[f].keys
  BY FileKeysStep
<1>3. job'[Account] # NoOne /\ ~Completed(Account)' => job'[Account].keys = {avatar'} \ {NoOne}
  BY AccountKeysStep
<1> QED BY <1>1, <1>2, <1>3 DEF KeysMatchJobs, Completed

\* The avatars that are shown or have a job stay uploaded.
LEMMA AvatarsStep == IInv /\ [Next]_vars => AvatarsAreDone'
<1> SUFFICES ASSUME IInv, [Next]_vars, NEW a \in Avatar, a = avatar' \/ job'[a] # NoOne
             PROVE  transfer'[a] = "done"
  BY DEF AvatarsAreDone
<1>1. a \in Object /\ a \in Resource /\ a \notin File /\ a \notin Space /\ a # Account /\ a # NoOne
  BY Kinds
<1>2. CASE a = avatar \/ job[a] # NoOne
  BY <1>1, <1>2, ObjectStep DEF IInv, AvatarsAreDone
<1>3. CASE a = avatar' /\ avatar' # avatar
  <2>1. ASSUME NEW x \in Avatar, ReplaceAvatar(x) PROVE transfer'[a] = "done"
    BY <1>1, <1>3, <2>1 DEF ReplaceAvatar, IInv, TypeOK
  <2>2. ASSUME NEW w \in Worker, Finalize(w), work[w].job = Account PROVE FALSE
    BY <1>1, <1>3, <2>2 DEF Finalize
  <2> QED BY <1>3, <2>1, <2>2, OwnerStep
<1>4. CASE job'[a] # NoOne /\ job[a] = NoOne
  <2>1. ~ InsertsFile(a) /\ ~ InsertsSpace(a) /\ ~ InsertsAccount(a)
    BY <1>1 DEF InsertsFile, InsertsSpace, InsertsAccount
  <2>2. \A w \in Worker : ~ ClaimJob(w, a) /\ ~ Notes(w, a) /\ ~ Completes(w, a)
    BY <1>4 DEF ClaimJob, Claimable, Notes, Completes, Finalize, IInv, WorkersAreDone, WorkIsDone
  <2>3. ~ GivesUp(a)
    BY <1>4 DEF GivesUp
  <2>4. Reopens(a)
    BY <1>1, <1>4, <2>1, <2>2, <2>3, JobStep DEF JobChanges
  <2> QED BY <2>4 DEF Reopens
<1> QED BY <1>2, <1>3, <1>4

\* Entries of a file that is deleted keep their job until they are removed.
LEMMA EntriesStep == IInv /\ [Next]_vars => EntriesHaveJobs'
<1> SUFFICES ASSUME IInv, [Next]_vars, NEW f \in Entries', row'[f] # "stored"
             PROVE  /\ row'[f] # "none" /\ job'[f] # NoOne /\ ~Completed(f)'
                    /\ "rag_deleted" \notin job'[f].steps
  BY DEF EntriesHaveJobs, Completed
<1>1. f \in File /\ f \in Resource /\ f \notin Space /\ f # Account /\ job[f] \in JobRow \cup {NoOne}
  BY TypeStep, Kinds DEF IInv, TypeOK, Entries
<1>2. f \in Entries
  BY OwnerStep
<1>3. CASE row[f] = "stored"
  <2>1. row'[f] = "deleting" /\ job[f] = NoOne
    BY <1>1, <1>3, FileStep DEF IInv, RowsMatchJobs
  <2>2. job'[f] # NoOne
    BY <1>1, <2>1, FilesStep DEF RowsMatchJobs
  <2>3. InsertsFile(f)
    BY <1>1, <1>3, <2>1, <2>2, JobsGrow DEF Reopens, Object
  <2>4. PICK parent \in Parent \cup {NoOne}, keys \in SUBSET Object :
          job'[f] = Inserted(job[f], parent, keys)
    BY <2>3, Kinds DEF InsertsFile
  <2>5. Inserted(job[f], parent, keys).status = "queued" /\ Inserted(job[f], parent, keys).steps = {}
    BY <1>1, <2>1, InsertedRows
  <2> QED BY <2>1, <2>2, <2>4, <2>5 DEF Completed
<1>4. CASE row[f] # "stored"
  <2>1. row[f] # "none" /\ job[f] # NoOne /\ ~Completed(f) /\ "rag_deleted" \notin job[f].steps
    BY <1>2, <1>4 DEF IInv, EntriesHaveJobs
  <2>2. row'[f] # "none" /\ job'[f] # NoOne
    BY <1>1, <2>1, FileStep, JobsGrow
  <2>3. ASSUME NEW w \in Worker, Notes(w, f) PROVE NextStep(work[w]) # "rag_deleted"
    BY <1>2, <2>3 DEF Notes, IInv, WorkersAreDone, WorkIsDone
  <2>4. ASSUME NEW w \in Worker, Completes(w, f) PROVE FALSE
    <3>1. WorkIsDone(w) /\ work[w].at \in {"final", "commit"} /\ work[w].job = f
      BY <2>4 DEF Completes, Finalize, IInv, WorkersAreDone
    <3>2. "rag_deleted" \in work[w].steps
      BY <1>1, <3>1, StepsOfKinds DEF WorkIsDone
    <3> QED BY <1>2, <3>1, <3>2 DEF WorkIsDone
  <2>5. CASE job'[f] = job[f]
    BY <2>1, <2>2, <2>5 DEF Completed
  <2>6. CASE job'[f] # job[f]
    <3>1. JobChanges(f)
      BY <1>1, <2>6, JobStep
    <3>2. job'[f].status # "completed" /\ "rag_deleted" \notin job'[f].steps
      <4>1. CASE InsertsFile(f) \/ InsertsSpace(f) \/ InsertsAccount(f)
        BY <1>1, <2>1, <4>1, FieldsStep DEF Completed
      <4>2. CASE Reopens(f)
        BY <1>1, <2>1, <4>2, FieldsStep
      <4>3. ASSUME NEW w \in Worker, ClaimJob(w, f)
            PROVE  job'[f].status # "completed" /\ "rag_deleted" \notin job'[f].steps
        BY <1>1, <2>1, <4>3, FieldsStep
      <4>4. ASSUME NEW w \in Worker, Notes(w, f)
            PROVE  job'[f].status # "completed" /\ "rag_deleted" \notin job'[f].steps
        <5>1. /\ job'[f].status = job[f].status
              /\ job'[f].steps = job[f].steps \cup {NextStep(work[w])}
          BY <1>1, <2>1, <4>4, FieldsStep
        <5>2. NextStep(work[w]) # "rag_deleted"
          BY <2>3, <4>4
        <5> QED BY <2>1, <5>1, <5>2 DEF Completed
      <4>5. CASE GivesUp(f)
        BY <1>1, <2>1, <4>5, FieldsStep DEF Completed
      <4> QED BY <2>4, <3>1, <4>1, <4>2, <4>3, <4>4, <4>5 DEF JobChanges
    <3> QED BY <2>2, <3>2 DEF Completed
  <2> QED BY <2>5, <2>6
<1> QED BY <1>3, <1>4
-----------------------------------------------------------------------------
(* The workers. *)

\* A request that inserts a job again names no object that the job did not know.
LEMMA InsertedKeys ==
    ASSUME IInv, [Next]_vars, NEW r \in Resource, job[r] # NoOne, job[r].status # "completed",
           InsertsFile(r) \/ InsertsSpace(r) \/ InsertsAccount(r)
    PROVE  job'[r].keys \subseteq job[r].keys
<1>1. job[r] \in JobRow \cup {NoOne}
  BY DEF IInv, TypeOK
<1>2. CASE InsertsFile(r)
  <2>1. PICK parent \in Parent \cup {NoOne} :
          job'[r] = Inserted(job[r], parent, IF keyed[r] THEN {r} ELSE {})
    BY <1>2 DEF InsertsFile
  <2>2. PICK keys \in SUBSET Object : keys = IF keyed[r] THEN {r} ELSE {}
    BY <1>2, Kinds DEF InsertsFile
  <2>3. Inserted(job[r], parent, keys).keys = keys
    BY <1>1, InsertedRows
  <2>4. keyed[r] => r \in job[r].keys
    BY <1>2 DEF InsertsFile, IInv, KeysMatchJobs
  <2> QED BY <2>1, <2>2, <2>3, <2>4
<1>3. CASE InsertsSpace(r)
  <2>1. PICK keys \in SUBSET Object : keys = {}
    OBVIOUS
  <2>2. Inserted(job[r], NoOne, keys).keys = keys
    BY <1>1, InsertedRows
  <2> QED BY <1>3, <2>1, <2>2 DEF InsertsSpace
<1>4. CASE InsertsAccount(r)
  <2>1. {avatar} \ {NoOne} \in SUBSET Object
    BY Kinds DEF IInv, TypeOK
  <2>2. Inserted(job[r], NoOne, {avatar} \ {NoOne}).keys = {avatar} \ {NoOne}
    BY <1>1, <2>1, InsertedRows
  <2>3. job[r].keys = {avatar} \ {NoOne}
    BY <1>4 DEF InsertsAccount, IInv, KeysMatchJobs, Completed
  <2> QED BY <1>4, <2>2, <2>3 DEF InsertsAccount
<1> QED BY <1>2, <1>3, <1>4

\* A worker that keeps its claim keeps what the claim says, and holds the job
\* only if it held it before.
LEMMA WaitingStep ==
    ASSUME IInv, [Next]_vars, NEW w \in Worker, work[w] # NoOne, work'[w] = work[w]
    PROVE  WorkIsDone(w)'
<1> DEFINE c == work[w]
           r == work[w].job
<1>1. /\ c \in Claim /\ r \in Resource /\ job[r] \in JobRow \cup {NoOne} /\ job[r] # NoOne
      /\ WorkIsDone(w) /\ job'[r] # NoOne
  BY JobsGrow DEF IInv, TypeOK, WorkersAreDone, WorkIsDone, Claim
<1>2. r \notin Entries => r \notin Entries'
  <2> SUFFICES ASSUME r \notin Entries, r \in Entries' PROVE FALSE
    OBVIOUS
  <2>1. row[r] = "stored" /\ r \in File
    BY OwnerStep, TypeStep DEF TypeOK, Entries
  <2> QED BY <1>1, <2>1 DEF IInv, RowsMatchJobs
<1>3. ASSUME Owns(w)'
      PROVE  /\ Owns(w) /\ c.steps \subseteq job'[r].steps /\ job'[r].keys \subseteq c.keys
             /\ ~Reopens(r) /\ ~ \E x \in Worker : Finalize(x) /\ work[x].job = r
  <2>1. /\ job'[r].holder = w /\ job'[r].status = "processing"
        /\ job'[r].lease \/ c.at = "commit"
    BY <1>3 DEF Owns
  <2>2. ~Reopens(r)
    <3>1. ASSUME Reopens(r) PROVE FALSE
      <4>1. job'[r].status = "queued"
        BY <1>1, <3>1, FieldsStep
      <4> QED BY <2>1, <4>1
    <3> QED BY <3>1
  <2>3. ASSUME NEW x \in Worker, Finalize(x), work[x].job = r PROVE FALSE
    <3>1. job'[r] = Released(job[r], "completed")
      BY <1>1, <2>3 DEF Finalize, IInv, TypeOK
    <3>2. job[r] \in JobRow
      BY <1>1
    <3>3. Released(job[r], "completed").status = "completed"
      BY <3>2, ReleasedRows
    <3> QED BY <2>1, <3>1, <3>3
  <2>4. \A x \in Worker : ~Completes(x, r)
    BY <2>3 DEF Completes
  <2>5. ASSUME NEW x \in Worker, ClaimJob(x, r) PROVE FALSE
    <3>1. job'[r].holder = x
      BY <1>1, <2>5, FieldsStep
    <3>2. work[x] = NoOne
      BY <2>5 DEF ClaimJob
    <3> QED BY <2>1, <3>1, <3>2
  <2>6. ASSUME NEW x \in Worker, Notes(x, r) PROVE FALSE
    <3>1. job'[r].holder = x
      BY <1>1, <2>6, FieldsStep
    <3>2. x = w
      BY <2>1, <3>1
    <3>3. NoteStep(w) /\ Holds(w) /\ c.at = "note"
      BY <2>6, <3>2 DEF Notes
    <3>4. work'[w].at # "note"
      <4>1. PICK at \in {"final", "run"} :
              at = IF Cardinality(StepsLeft(c)) = 1 THEN "final" ELSE "run"
        OBVIOUS
      <4>2. work'[w] = [c EXCEPT !.steps = @ \cup {NextStep(c)}, !.at = at]
        BY <3>3, <4>1 DEF NoteStep, IInv, TypeOK
      <4> QED BY <1>1, <4>1, <4>2 DEF Claim
    <3> QED BY <3>3, <3>4
  <2>7. ASSUME GivesUp(r)
        PROVE  Owns(w) /\ job'[r].steps = job[r].steps /\ job'[r].keys = job[r].keys
    <3>1. /\ job'[r].steps = job[r].steps /\ job'[r].keys = job[r].keys
          /\ \/ job'[r].holder = NoOne
             \/ /\ job'[r].lease = FALSE /\ job'[r].holder = job[r].holder
                /\ job'[r].status = job[r].status
      BY <1>1, <2>7, FieldsStep
    <3> QED BY <2>1, <3>1, Kinds DEF Owns
  <2>8. CASE job'[r] = job[r] \/ GivesUp(r)
    <3>1. /\ Owns(w) /\ job'[r].steps = job[r].steps /\ job'[r].keys = job[r].keys
      BY <2>1, <2>7, <2>8 DEF Owns
    <3> QED BY <1>1, <2>2, <2>3, <3>1 DEF WorkIsDone
  <2>9. CASE InsertsFile(r) \/ InsertsSpace(r) \/ InsertsAccount(r)
    <3>1. /\ job'[r].status = job[r].status /\ job'[r].steps = job[r].steps
          /\ job'[r].holder = job[r].holder /\ job'[r].lease = job[r].lease
      BY <1>1, <2>9, FieldsStep
    <3>2. Owns(w)
      BY <2>1, <3>1 DEF Owns
    <3>3. job[r].keys \subseteq c.keys /\ c.steps \subseteq job[r].steps
      BY <1>1, <3>2 DEF WorkIsDone
    <3>4. job'[r].keys \subseteq c.keys
      BY <1>1, <2>9, <3>2, <3>3, InsertedKeys DEF Owns
    <3> QED BY <2>2, <2>3, <3>1, <3>2, <3>3, <3>4
  <2> QED BY <1>1, <2>2, <2>4, <2>5, <2>6, <2>8, <2>9, JobStep DEF JobChanges
<1>4. ASSUME Owns(w)', r = Account PROVE c.keys \subseteq {avatar'}
  <2>1. c.keys \subseteq {avatar}
    BY <1>1, <1>3, <1>4 DEF WorkIsDone
  <2>2. \A a \in Avatar : ~ReplaceAvatar(a)
    BY <1>1, <1>4 DEF ReplaceAvatar, IInv, OwnersMatchJobs
  <2>3. avatar' = avatar
    BY <1>3, <1>4, <2>2, OwnerStep
  <2> QED BY <2>1, <2>3
<1>5. ASSUME Owns(w)', c.at = "note", NextStep(c) \in {"storage_deleted", "avatar_deleted"},
             NEW o \in c.keys
      PROVE  o \notin object' \/ InFlight(o)'
  <2>1. o \in Object /\ (o \notin object \/ InFlight(o))
    BY <1>1, <1>3, <1>5 DEF WorkIsDone, Claim
  <2>2. r \in Object \/ r = Account
    <3>1. StepsLeft(c) # {}
      BY <1>1, <1>5 DEF WorkIsDone
    <3>2. NextStep(c) \in StepsOf(r)
      BY <1>1, <3>1, NextIsStep
    <3> QED BY <1>1, <3>2, StepsOfKinds DEF Resource, Object
  <2>3. r \in Object => o = r
    BY <1>1, <1>5 DEF WorkIsDone
  <2>4. r = Account => o = avatar /\ o \in Avatar
    <3> SUFFICES ASSUME r = Account PROVE o = avatar /\ o \in Avatar
      OBVIOUS
    <3>1. o = avatar
      BY <1>1, <1>3, <1>5 DEF WorkIsDone
    <3> QED BY <2>1, <3>1, Kinds DEF IInv, TypeOK
  <2>5. ~ (o \in File /\ RecordObject(o))
    <3> SUFFICES ASSUME o \in File, RecordObject(o) PROVE FALSE
      OBVIOUS
    <3>1. o = r
      BY <2>2, <2>3, <2>4, Kinds
    <3>2. row[o] \in {"deleting", "gone"}
      BY <1>1, <3>1 DEF IInv, RowsMatchJobs
    <3>3. Reopens(r)
      BY <1>1, <3>1, <3>2, Kinds DEF RecordObject, Reopens, RowExists, IInv, TypeOK
    <3> QED BY <1>3, <1>5, <3>3
  <2>6. ~ (o \in Avatar /\ (ReplaceAvatar(o) \/ RejectAvatar(o)))
    <3> SUFFICES ASSUME o \in Avatar, ReplaceAvatar(o) \/ RejectAvatar(o) PROVE FALSE
      OBVIOUS
    <3>1. transfer[o] = "put"
      BY DEF ReplaceAvatar, RejectAvatar
    <3>2. o = avatar \/ job[o] # NoOne
      BY <1>1, <2>2, <2>3, <2>4
    <3> QED BY <3>1, <3>2 DEF IInv, AvatarsAreDone
  <2> QED BY <2>1, <2>5, <2>6, ObjectStep
<1> QED BY <1>1, <1>2, <1>3, <1>4, <1>5 DEF WorkIsDone, InFlight, Owns

\* A claim copies the row.
LEMMA ClaimedStep ==
    ASSUME IInv, [Next]_vars, NEW w \in Worker, NEW r \in Resource, ClaimJob(w, r)
    PROVE  WorkIsDone(w)'
<1> DEFINE c == [job |-> r, steps |-> job[r].steps, keys |-> job[r].keys, at |-> "run"]
<1>1. /\ job[r] \in JobRow /\ job[r] # NoOne /\ ~Completed(r)
      /\ work' = [work EXCEPT ![w] = c] /\ Entries' = Entries /\ avatar' = avatar
  BY DEF ClaimJob, Claimable, Completed, IInv, TypeOK, tables, indexes, Entries
<1>2. work'[w] = c
  BY <1>1 DEF IInv, TypeOK
<1>3. /\ c.job = r /\ c.at = "run"
      /\ c.steps = job[r].steps /\ c.keys = job[r].keys
  OBVIOUS
<1> HIDE DEF c
<1>4. /\ job'[r] # NoOne /\ job'[r].steps = job[r].steps /\ job'[r].keys = job[r].keys
  BY <1>1, JobsGrow, FieldsStep
<1>5. r \in Object => job[r].keys \subseteq {r}
  BY <1>1 DEF IInv, KeysMatchJobs
<1>6. r = Account => job[r].keys \subseteq {avatar}
  BY <1>1 DEF IInv, KeysMatchJobs
<1>7. "rag_deleted" \in job[r].steps => r \notin Entries
  <2> SUFFICES ASSUME "rag_deleted" \in job[r].steps, r \in Entries PROVE FALSE
    OBVIOUS
  <2>1. r \in File /\ row[r] = "stored"
    BY DEF IInv, TypeOK, EntriesHaveJobs, Entries
  <2> QED BY <1>1, <2>1 DEF IInv, RowsMatchJobs
<1> QED BY <1>1, <1>2, <1>3, <1>4, <1>5, <1>6, <1>7 DEF WorkIsDone

\* A worker that performs a step has done it when it comes to note it; one that
\* skips the steps has none left.
LEMMA PerformedStep ==
    ASSUME IInv, [Next]_vars, NEW w \in Worker, PerformStep(w) \/ SkipSteps(w) \/ LookAtChildren(w)
    PROVE  WorkIsDone(w)'
<1> DEFINE c == work[w]
           d == work'[w]
           r == work[w].job
<1>1. /\ c \in Claim /\ r \in Resource /\ WorkIsDone(w) /\ c.at \in {"run", "final"}
      /\ job' = job /\ avatar' = avatar /\ transfer' = transfer
  BY DEF PerformStep, SkipSteps, LookAtChildren, IInv, TypeOK, WorkersAreDone, Claim, tables
<1>2. CASE PerformStep(w)
  <2>1. d = [c EXCEPT !.at = "note"] /\ StepsLeft(c) # {}
    BY <1>2 DEF PerformStep, IInv, TypeOK
  <2>2. d.job = r /\ d.steps = c.steps /\ d.keys = c.keys /\ d.at = "note"
    BY <1>1, <2>1 DEF Claim
  <2>3. StepsLeft(d) = StepsLeft(c) /\ NextStep(d) = NextStep(c)
    BY <2>2 DEF StepsLeft, NextStep
  <2>4. /\ Entries' \subseteq Entries /\ (NextStep(c) = "rag_deleted" => r \notin Entries')
        /\ NextStep(c) \in {"storage_deleted", "avatar_deleted"} => object' = object \ c.keys
        /\ c.at = "run"
    BY <1>2 DEF PerformStep, Entries
  <2>5. "rag_deleted" \in c.steps => r \notin Entries
    BY <1>1 DEF WorkIsDone
  <2>6. Owns(w)' => Owns(w)
    BY <1>1, <2>2 DEF Owns
  <2> HIDE DEF c, d, r
  <2>7. /\ job[r] # NoOne /\ (r \in Object => c.keys \subseteq {r})
        /\ Owns(w) => /\ c.steps \subseteq job[r].steps /\ job[r].keys \subseteq c.keys
                      /\ r = Account => c.keys \subseteq {avatar}
    BY <1>1 DEF WorkIsDone, c, r
  <2> QED BY <1>1, <2>1, <2>2, <2>3, <2>4, <2>5, <2>6, <2>7 DEF WorkIsDone, d
<1>3. CASE SkipSteps(w)
  <2>1. d = [c EXCEPT !.at = "final"] /\ StepsLeft(c) = {} /\ Entries' = Entries
        /\ c.at = "run"
    BY <1>3 DEF SkipSteps, IInv, TypeOK, indexes, Entries
  <2>2. d.job = r /\ d.steps = c.steps /\ d.keys = c.keys /\ d.at = "final"
    BY <1>1, <2>1 DEF Claim
  <2>3. StepsOf(r) \subseteq c.steps
    BY <1>1, <2>1, LastStep
  <2>4. Owns(w)' => Owns(w)
    BY <1>1, <2>2 DEF Owns
  <2> QED BY <1>1, <2>1, <2>2, <2>3, <2>4 DEF WorkIsDone
<1>4. CASE LookAtChildren(w)
  <2>1. d = [c EXCEPT !.at = "commit"] /\ c.at = "final" /\ Entries' = Entries /\ Owns(w)
    BY <1>4 DEF LookAtChildren, Holds, Owns, IInv, TypeOK, indexes, Entries
  <2>2. d.job = r /\ d.steps = c.steps /\ d.keys = c.keys /\ d.at = "commit"
    BY <1>1, <2>1 DEF Claim
  <2> QED BY <1>1, <2>1, <2>2 DEF WorkIsDone
<1> QED BY <1>2, <1>3, <1>4

\* A worker that holds the lease notes its step in the row and in its copy.
LEMMA NotedStep ==
    ASSUME IInv, [Next]_vars, NEW w \in Worker, NoteStep(w), Holds(w)
    PROVE  WorkIsDone(w)'
<1> DEFINE c == work[w]
           d == work'[w]
           r == work[w].job
           step == NextStep(work[w])
<1>1. /\ c \in Claim /\ r \in Resource /\ WorkIsDone(w) /\ c.at = "note" /\ job[r] \in JobRow
      /\ Entries' = Entries /\ avatar' = avatar /\ Owns(w)
  BY DEF NoteStep, Holds, Owns, IInv, TypeOK, WorkersAreDone, WorkIsDone, Claim, tables, indexes,
         Entries
<1>2. PICK at \in {"final", "run"} :
        at = IF Cardinality(StepsLeft(c)) = 1 THEN "final" ELSE "run"
  OBVIOUS
<1>3. d = [c EXCEPT !.steps = @ \cup {step}, !.at = at]
  BY <1>2 DEF NoteStep, IInv, TypeOK
<1>4. d.job = r /\ d.steps = c.steps \cup {step} /\ d.keys = c.keys /\ d.at = at
  BY <1>1, <1>3 DEF Claim
<1>5. job'[r] = [job[r] EXCEPT !.steps = @ \cup {step}]
  BY <1>1 DEF NoteStep, IInv, TypeOK
<1>6. job'[r].steps = job[r].steps \cup {step} /\ job'[r].keys = job[r].keys /\ job'[r] # NoOne
  BY <1>1, <1>5, JobsGrow, NoOneAssumption DEF JobRow
<1>7. at = "final" => StepsOf(r) \subseteq c.steps \cup {step}
  BY <1>1, <1>2, LastStep
<1>8. /\ r \in Object => c.keys \subseteq {r}
      /\ "rag_deleted" \in c.steps \cup {step} => r \notin Entries
      /\ c.steps \subseteq job[r].steps /\ job[r].keys \subseteq c.keys
      /\ r = Account => c.keys \subseteq {avatar}
  BY <1>1 DEF WorkIsDone
<1> HIDE DEF c, d, r, step
<1> QED BY <1>1, <1>2, <1>4, <1>6, <1>7, <1>8 DEF WorkIsDone, d

\* So every worker has done what its claim says.
LEMMA WorkersStep == IInv /\ [Next]_vars => WorkersAreDone'
<1> SUFFICES ASSUME IInv, [Next]_vars, NEW w \in Worker, work'[w] # NoOne
             PROVE  WorkIsDone(w)'
  BY DEF WorkersAreDone, WorkIsDone, Owns, InFlight
<1>1. CASE work'[w] = work[w]
  BY <1>1, WaitingStep
<1>2. CASE work'[w] # work[w]
  BY <1>2, WorkStep, ClaimedStep, PerformedStep, NotedStep
<1> QED BY <1>1, <1>2
-----------------------------------------------------------------------------
(* The finalizers of the parents. *)

\* Files only get a parent.
LEMMA ParentStep == IInv /\ [Next]_vars => ChildrenAreFiles'
<1> SUFFICES ASSUME IInv, [Next]_vars, NEW r \in Resource \ File, job'[r] # NoOne
             PROVE  job'[r].parent = NoOne
  BY DEF ChildrenAreFiles
<1>1. /\ r \in Resource /\ job[r] \in JobRow \cup {NoOne} /\ ~InsertsFile(r)
      /\ job[r] # NoOne => job[r].parent = NoOne
  BY DEF IInv, TypeOK, ChildrenAreFiles, InsertsFile
<1>2. CASE InsertsSpace(r) \/ InsertsAccount(r)
  <2>1. PICK keys \in SUBSET Object : job'[r] = Inserted(job[r], NoOne, keys)
    BY <1>2, Kinds DEF InsertsSpace, InsertsAccount, Object, IInv, TypeOK
  <2>2. Inserted(job[r], NoOne, keys).parent \in {NoOne, IF job[r] = NoOne THEN NoOne ELSE job[r].parent}
    BY <1>1, InsertedRows
  <2> QED BY <1>1, <2>1, <2>2
<1>3. CASE Reopens(r)
  BY <1>1, <1>3, RequeuedRows DEF Reopens
<1>4. CASE ~InsertsSpace(r) /\ ~InsertsAccount(r) /\ ~Reopens(r) /\ job'[r] # job[r]
  <2>1. GivesUp(r) \/ \E w \in Worker : ClaimJob(w, r) \/ Notes(w, r) \/ Completes(w, r)
    BY <1>1, <1>4, JobStep DEF JobChanges
  <2>2. job[r] # NoOne
    BY <2>1 DEF GivesUp, ClaimJob, Claimable, Notes, Completes, Finalize,
                IInv, WorkersAreDone, WorkIsDone
  <2> QED BY <1>1, <2>1, <2>2, FieldsStep
<1> QED BY <1>1, <1>2, <1>3, <1>4

\* A child is taken out of the history by the finalizer of its own parent only.
LEMMA ReopenedStep ==
    ASSUME IInv, [Next]_vars, NEW c \in reopened, c \notin reopened'
    PROVE  \E x \in Worker : (LookAtChildren(x) \/ Finalize(x)) /\ c \in Children(work[x].job)
<1>1. ASSUME NEW x \in Worker, LookAtChildren(x) \/ Finalize(x) PROVE c \in Children(work[x].job)
  BY <1>1 DEF LookAtChildren, Finalize
<1>2. ASSUME NEW f \in File,
             \/ ReserveUpload(f) \/ RecordObject(f) \/ RetryTransfer(f)
             \/ AbandonUpload(f) \/ CheckLease(f) \/ IndexFile(f) \/ DeleteFile(f)
      PROVE  FALSE
  BY <1>2 DEF ReserveUpload, RecordObject, RetryTransfer, AbandonUpload, CheckLease, IndexFile,
              DeleteFile
<1>3. ASSUME NEW o, StoreObject(o) \/ TransferDies(o) \/ BeginAvatar(o) \/ ReplaceAvatar(o)
                    \/ RejectAvatar(o) \/ DeleteSpace(o) \/ LeaseExpires(o) \/ FailExhausted(o)
      PROVE  FALSE
  BY <1>3 DEF StoreObject, TransferDies, BeginAvatar, ReplaceAvatar, RejectAvatar, DeleteSpace,
              LeaseExpires, FailExhausted
<1>4. ASSUME NEW x \in Worker,
             \/ \E r \in Resource : ClaimJob(x, r)
             \/ PerformStep(x) \/ NoteStep(x) \/ SkipSteps(x) \/ AwaitChildren(x)
             \/ FailAttempt(x) \/ WorkerDies(x)
      PROVE  FALSE
  BY <1>4 DEF ClaimJob, PerformStep, NoteStep, SkipSteps, AwaitChildren, FailAttempt, WorkerDies
<1>5. ASSUME DeleteAccount \/ UNCHANGED vars PROVE FALSE
  BY <1>5 DEF DeleteAccount, vars
<1> QED BY <1>1, <1>2, <1>3, <1>4, <1>5 DEF Next

\* The job of an ending parent stays with the worker that ends it.
LEMMA EndingJob ==
    ASSUME IInv, [Next]_vars, NEW w \in Worker, work[w] # NoOne, work[w].at = "commit",
           work'[w] = work[w]
    PROVE  LET r == work[w].job IN
           /\ job'[r].holder = w /\ job'[r].status = "processing"
           /\ \A x \in Worker : LookAtChildren(x) \/ Finalize(x) => work[x].job # r
<1> DEFINE r == work[w].job
<1>1. /\ r \in Parent /\ r \in Resource /\ job[r] # NoOne /\ Ending(r) /\ r \notin Object
      /\ job[r].holder = w /\ job[r].status = "processing"
  BY Kinds DEF Parent, Resource, Ending, IInv, EndingsHold, EndingHolds, WorkersAreDone, WorkIsDone
<1>2. ASSUME NEW x \in Worker, LookAtChildren(x) \/ Finalize(x) PROVE work[x].job # r
  <2> SUFFICES ASSUME work[x].job = r PROVE FALSE
    OBVIOUS
  <2>1. job[r].holder = x
    BY <1>1, <1>2 DEF LookAtChildren, Finalize, Holds, IInv, EndingsHold, EndingHolds
  <2>2. LookAtChildren(w) \/ Finalize(w)
    BY <1>1, <1>2, <2>1
  <2>3. work'[w] # work[w]
    BY <2>2 DEF LookAtChildren, Finalize, IInv, TypeOK
  <2> QED BY <2>3
<1>3. ~InsertsFile(r) /\ ~Reopens(r)
  BY <1>1, Kinds DEF InsertsFile, Reopens
<1>4. \A x \in Worker : ~ClaimJob(x, r) /\ ~Completes(x, r)
  BY <1>1, <1>2 DEF ClaimJob, Completes
<1>5. ASSUME NEW x \in Worker, Notes(x, r) PROVE FALSE
  <2>1. x = w
    BY <1>1, <1>5 DEF Notes, Holds
  <2> QED BY <1>5, <2>1 DEF Notes
<1>6. CASE GivesUp(r)
  <2>1. CASE job'[r] = [job[r] EXCEPT !.lease = FALSE]
    <3>1. job[r] \in JobRow
      BY <1>1 DEF IInv, TypeOK
    <3> QED BY <1>1, <1>2, <2>1, <3>1 DEF JobRow
  <2>2. CASE \E x \in Worker : Holds(x) /\ work[x].job = r /\ work'[x] = NoOne
    BY <1>1, <2>2 DEF Holds
  <2> QED BY <1>1, <1>6, <2>1, <2>2 DEF GivesUp
<1>7. CASE InsertsSpace(r) \/ InsertsAccount(r)
  BY <1>1, <1>2, <1>7, FieldsStep
<1>8. CASE job'[r] = job[r]
  BY <1>1, <1>2, <1>8
<1> QED BY <1>1, <1>3, <1>4, <1>5, <1>6, <1>7, <1>8, JobStep DEF JobChanges

\* Nobody becomes a child of an ending parent.
LEMMA ChildStep ==
    ASSUME IInv, [Next]_vars, NEW r \in Parent, Ending(r), NEW c \in Resource,
           job'[c] # NoOne, job'[c].parent = r
    PROVE  c \in File /\ c \in Children(r)
<1>1. c \in File /\ job[c] \in JobRow \cup {NoOne} /\ r # NoOne
  BY ParentStep, Kinds DEF ChildrenAreFiles, IInv, TypeOK, Parent, Resource
<1>2. CASE InsertsFile(c)
  <2>1. PICK parent \in Parent \cup {NoOne} :
          /\ job'[c] = Inserted(job[c], parent, IF keyed[c] THEN {c} ELSE {}) /\ ~Ending(parent)
    BY <1>2 DEF InsertsFile
  <2>2. PICK keys \in SUBSET Object : keys = IF keyed[c] THEN {c} ELSE {}
    BY <1>1, Kinds
  <2>3. Inserted(job[c], parent, keys).parent \in {parent, IF job[c] = NoOne THEN parent ELSE job[c].parent}
    BY <1>1, InsertedRows
  <2>4. job[c] # NoOne /\ job[c].parent = r
    BY <2>1, <2>2, <2>3
  <2> QED BY <1>1, <2>4 DEF Children
<1>3. CASE Reopens(c)
  <2>1. Requeued(job[c], c).parent = IF job[c] = NoOne THEN NoOne ELSE job[c].parent
    BY <1>1, Kinds, RequeuedRows
  <2> QED BY <1>1, <1>3, <2>1 DEF Reopens, Children
<1>4. CASE ~InsertsFile(c) /\ ~Reopens(c) /\ job'[c] # job[c]
  <2>1. GivesUp(c) \/ \E w \in Worker : ClaimJob(w, c) \/ Notes(w, c) \/ Completes(w, c)
    BY <1>1, <1>4, Kinds, JobStep DEF JobChanges, InsertsSpace, InsertsAccount
  <2>2. job[c] # NoOne
    BY <2>1 DEF GivesUp, ClaimJob, Claimable, Notes, Completes, Finalize,
                IInv, WorkersAreDone, WorkIsDone
  <2> QED BY <1>1, <2>1, <2>2, FieldsStep DEF Children
<1>5. CASE job'[c] = job[c]
  BY <1>1, <1>5 DEF Children
<1> QED BY <1>2, <1>3, <1>4, <1>5

\* A child of an ending parent stays completed or is opened again.
LEMMA CompletedStep ==
    ASSUME IInv, [Next]_vars, NEW r \in Parent, Ending(r), NEW c \in Children(r), c \in File,
           Completed(c)
    PROVE  Completed(c)' \/ c \in reopened'
<1>1. c \in Resource /\ job[c] # NoOne /\ job[c].parent = r /\ job[c].status = "completed"
      /\ job'[c] # NoOne
  BY Kinds, JobsGrow DEF Children, Completed
<1>2. \A w \in Worker : ~ClaimJob(w, c) /\ ~Notes(w, c)
  BY <1>1 DEF ClaimJob, Claimable, Notes, Holds
<1>3. ASSUME NEW w \in Worker, Completes(w, c) PROVE Completed(c)'
  BY <1>1, <1>3, FieldsStep DEF Completed
<1>4. CASE Reopens(c)
  BY <1>1, <1>4 DEF Reopens
<1>5. CASE InsertsFile(c) \/ InsertsSpace(c) \/ InsertsAccount(c) \/ GivesUp(c)
  <2>1. job'[c].status = job[c].status
    BY <1>1, <1>5, FieldsStep
  <2> QED BY <1>1, <2>1 DEF Completed
<1>6. CASE job'[c] = job[c]
  BY <1>1, <1>6 DEF Completed
<1> QED BY <1>1, <1>2, <1>3, <1>4, <1>5, <1>6, JobStep DEF JobChanges

\* So a finalizer that has looked goes on to hold the job, and to know the children.
LEMMA EndingsStep == IInv /\ [Next]_vars => EndingsHold'
<1> SUFFICES ASSUME IInv, [Next]_vars, NEW w \in Worker, work'[w] # NoOne, work'[w].at = "commit"
             PROVE  EndingHolds(w)'
  BY DEF EndingsHold, EndingHolds, Children, Completed
<1>1. CASE work'[w] # work[w]
  <2>1. LookAtChildren(w)
    <3>1. ASSUME NEW r \in Resource, ClaimJob(w, r) PROVE FALSE
      BY <3>1 DEF ClaimJob, IInv, TypeOK
    <3>2. ASSUME PerformStep(w) \/ SkipSteps(w) PROVE FALSE
      <4>1. work[w] \in Claim
        BY <3>2 DEF PerformStep, SkipSteps, IInv, TypeOK
      <4>2. \E at \in {"note", "final"} : work'[w] = [work[w] EXCEPT !.at = at]
        BY <3>2 DEF PerformStep, SkipSteps, IInv, TypeOK
      <4> QED BY <4>1, <4>2 DEF Claim
    <3>3. ASSUME NoteStep(w), Holds(w) PROVE FALSE
      <4>1. PICK at \in {"final", "run"} :
              at = IF Cardinality(StepsLeft(work[w])) = 1 THEN "final" ELSE "run"
        OBVIOUS
      <4>2. work[w] \in Claim
        BY <3>3 DEF NoteStep, IInv, TypeOK
      <4>3. work'[w] = [work[w] EXCEPT !.steps = @ \cup {NextStep(work[w])}, !.at = at]
        BY <3>3, <4>1 DEF NoteStep, IInv, TypeOK
      <4> QED BY <4>1, <4>2, <4>3 DEF Claim
    <3> QED BY <1>1, <3>1, <3>2, <3>3, WorkStep
  <2>2. work[w] \in Claim /\ work'[w] = [work[w] EXCEPT !.at = "commit"] /\ job' = job
    BY <2>1 DEF LookAtChildren, IInv, TypeOK
  <2>3. work'[w].job = work[w].job
    BY <2>2 DEF Claim
  <2> QED BY <2>1, <2>2, <2>3 DEF LookAtChildren, Holds, RequireCompletedChildren, EndingHolds,
             Children, Completed
<1>2. CASE work'[w] = work[w]
  <2> DEFINE r == work[w].job
  <2>1. r \in Parent /\ Ending(r) /\ \A c \in Children(r) : Completed(c) \/ c \in reopened
    BY <1>2 DEF Ending, IInv, EndingsHold, EndingHolds
  <2>2. /\ job'[r].holder = w /\ job'[r].status = "processing"
        /\ \A x \in Worker : LookAtChildren(x) \/ Finalize(x) => work[x].job # r
    BY <1>2, EndingJob
  <2>3. ASSUME NEW c \in Resource, job'[c] # NoOne, job'[c].parent = r
        PROVE  Completed(c)' \/ c \in reopened'
    <3>1. c \in File /\ c \in Children(r)
      BY <2>1, <2>3, ChildStep
    <3>2. CASE Completed(c)
      BY <2>1, <3>1, <3>2, CompletedStep
    <3>3. CASE c \in reopened
      <4>1. \A x \in Worker : LookAtChildren(x) \/ Finalize(x) => c \notin Children(work[x].job)
        BY <2>2, <3>1 DEF Children
      <4> QED BY <3>3, <4>1, ReopenedStep
    <3> QED BY <2>1, <3>1, <3>2, <3>3
  <2> QED BY <1>2, <2>1, <2>2, <2>3 DEF EndingHolds, Children, Completed
<1> QED BY <1>1, <1>2
-----------------------------------------------------------------------------
(* The invariant, and what follows from it. *)

\* Nothing is deleted, stored or claimed at the start, but the first avatar.
LEMMA InvInit == Init => IInv
<1> SUFFICES ASSUME Init PROVE IInv
  OBVIOUS
<1>1. TypeOK
  <2>1. FirstAvatar \in Avatar \cup {NoOne}
    BY CleanupAssumption
  <2> QED BY <2>1, Kinds DEF Init, TypeOK
<1>2. \A r \in Resource : job[r] = NoOne
  BY DEF Init
<1>3. AttemptsLeft /\ EntriesHaveJobs /\ WorkersAreDone /\ ChildrenAreFiles /\ EndingsHold
  BY <1>2 DEF Init, AttemptsLeft, EntriesHaveJobs, Entries, WorkersAreDone, ChildrenAreFiles,
              EndingsHold
<1>4. RowsMatchJobs
  <2>1. ASSUME NEW f \in File PROVE f # FirstAvatar /\ row[f] = "none" /\ transfer[f] = "idle"
    BY Kinds, CleanupAssumption DEF Init
  <2> QED BY <1>2, <2>1, Kinds DEF RowsMatchJobs
<1>5. OwnersMatchJobs /\ KeysMatchJobs
  BY <1>2, Kinds DEF OwnersMatchJobs, KeysMatchJobs
<1>6. AvatarsAreDone
  BY <1>2, Kinds DEF Init, AvatarsAreDone
<1> QED BY <1>1, <1>3, <1>4, <1>5, <1>6 DEF IInv

\* Every step keeps the invariant.
LEMMA InvStep == IInv /\ [Next]_vars => IInv'
<1> SUFFICES ASSUME IInv, [Next]_vars PROVE IInv'
  OBVIOUS
<1>1. AttemptsLeft'
  BY RowsStep DEF AttemptsLeft
<1> QED BY <1>1, TypeStep, FilesStep, OwnersStep, KeysStep, AvatarsStep, EntriesStep, WorkersStep,
           ParentStep, EndingsStep
        DEF IInv

\* The rows, the jobs, the keys in their payloads and the workers' copies agree
\* as stated above, in every reachable state.
THEOREM CleanupInvariant == Spec => []IInv
<1>1. Init => IInv
  BY InvInit
<1>2. IInv /\ [Next]_vars => IInv'
  BY InvStep
<1> QED BY <1>1, <1>2, PTL DEF Spec

\* Index entries belong to a live file or to a job that has still to remove
\* them, whatever uploads, requests, workers and expired leases interleave,
\* except what a batch wrote whose check of the lease the deletion overtook.
THEOREM IndexTracked == Spec => []IndexIsTracked
<1>1. IInv => IndexIsTracked
  <2> SUFFICES ASSUME IInv, NEW f \in index
               PROVE  \/ Live(f)
                      \/ job[f] # NoOne /\ ~Completed(f) /\ "rag_deleted" \notin job[f].steps
                      \/ f \in strayed
    BY DEF IndexIsTracked, IInv
  <2>1. f \in File
    BY DEF IInv, TypeOK
  <2> QED BY <2>1 DEF IInv, EntriesHaveJobs, Entries, RowsMatchJobs, Live
<1> QED BY <1>1, CleanupInvariant, PTL

\* A job completes by the finalizer only.
LEMMA CompletionStep ==
    ASSUME IInv, [Next]_vars, NEW r \in Resource, ~Completed(r), Completed(r)'
    PROVE  \E w \in Worker : Completes(w, r)
<1> SUFFICES ASSUME \A w \in Worker : ~Completes(w, r) PROVE FALSE
  OBVIOUS
<1>1. /\ job[r] \in JobRow \cup {NoOne} /\ job'[r] # job[r]
      /\ job'[r] # NoOne /\ job'[r].status = "completed"
  BY DEF IInv, TypeOK, Completed
<1>2. CASE job[r] = NoOne
  <2>1. InsertsFile(r) \/ InsertsSpace(r) \/ InsertsAccount(r) \/ Reopens(r)
    BY <1>1, <1>2, JobsGrow, JobStep DEF JobChanges, ClaimJob, Claimable, Notes, Holds, GivesUp,
       IInv, WorkersAreDone, WorkIsDone
  <2>2. CASE InsertsFile(r) \/ InsertsSpace(r) \/ InsertsAccount(r)
    <3>1. PICK parent \in Parent \cup {NoOne}, keys \in SUBSET Object :
            job'[r] = Inserted(job[r], parent, keys)
      BY <2>2, Kinds DEF InsertsFile, InsertsSpace, InsertsAccount, Object, IInv, TypeOK
    <3>2. job[r] \in JobRow \cup {NoOne}
      BY <1>1
    <3>3. Inserted(job[r], parent, keys).status = "queued"
      BY <1>2, <3>2, InsertedRows
    <3> QED BY <1>1, <3>1, <3>3
  <2>3. CASE Reopens(r)
    <3>1. Requeued(job[r], r).status = "queued"
      BY <1>1, <2>3, RequeuedRows DEF Reopens
    <3> QED BY <1>1, <2>3, <3>1 DEF Reopens
  <2> QED BY <2>1, <2>2, <2>3
<1>3. CASE job[r] # NoOne
  <2>1. job[r].status # "completed"
    BY <1>3 DEF Completed
  <2>2. ~InsertsFile(r) /\ ~InsertsSpace(r) /\ ~InsertsAccount(r)
    BY <1>1, <1>3, <2>1, FieldsStep
  <2>3. ~Reopens(r) /\ ~GivesUp(r)
    BY <1>1, <1>3, <2>1, FieldsStep
  <2>4. \A w \in Worker : ~ClaimJob(w, r) /\ ~Notes(w, r)
    BY <1>1, <1>3, <2>1, FieldsStep
  <2> QED BY <1>1, <2>2, <2>3, <2>4, JobStep DEF JobChanges
<1> QED BY <1>2, <1>3

\* An owner goes when the jobs of what it owns have completed; one that has not
\* was opened again by a late upload after the finalizer had looked at it.
THEOREM ParentsLast == Spec => ParentsGoLast
<1>1. IInv /\ [Next]_vars
      => [\A p \in Parent : ~Completed(p) /\ Completed(p)'
            => \A c \in Children(p) : Completed(c) \/ c \in reopened]_vars
  <2> SUFFICES ASSUME IInv, [Next]_vars, NEW p \in Parent, ~Completed(p), Completed(p)'
               PROVE  \A c \in Children(p) : Completed(c) \/ c \in reopened
    OBVIOUS
  <2>1. p \in Resource
    BY DEF Parent, Resource
  <2>2. PICK w \in Worker : Completes(w, p)
    BY <2>1, CompletionStep
  <2>3. work[w] # NoOne /\ work[w].job = p /\ work[w].at = "commit"
    BY <2>2 DEF Completes, Finalize
  <2> QED BY <2>3 DEF IInv, EndingsHold, EndingHolds
<1> QED BY <1>1, CleanupInvariant, PTL DEF Spec, ParentsGoLast

\* A job with its deletion still to do keeps it so while the object is there,
\* unless a request forgets the key of a file that was never recorded.
LEMMA OpenStep ==
    ASSUME IInv, [Next]_vars, NEW o \in Object, o \in object, ~InFlight(o), NEW r, NEW step,
           \/ r = o /\ step = "storage_deleted"
           \/ r = Account /\ step = "avatar_deleted",
           OpenIn(r, o, step)
    PROVE  OpenIn(r, o, step)' \/ (InsertsFile(r) /\ ~keyed[r])
<1>1. /\ r \in Resource /\ job[r] \in JobRow \cup {NoOne} /\ job[r] # NoOne /\ job'[r] # NoOne
      /\ job[r].status # "completed" /\ o \in job[r].keys /\ step \notin job[r].steps
  BY Kinds, JobsGrow DEF OpenIn, Completed, IInv, TypeOK
<1>2. step \in StepsOf(r)
  BY StepsOfKinds DEF Object
<1> SUFFICES ASSUME ~(InsertsFile(r) /\ ~keyed[r])
             PROVE  job'[r].status # "completed" /\ o \in job'[r].keys /\ step \notin job'[r].steps
  BY <1>1 DEF OpenIn, Completed
<1>3. CASE InsertsFile(r) \/ InsertsSpace(r) \/ InsertsAccount(r)
  <2>1. job'[r].status = job[r].status /\ job'[r].steps = job[r].steps
    BY <1>1, <1>3, FieldsStep
  <2>2. CASE r = o
    <3>1. InsertsFile(r) /\ keyed[r]
      BY <1>3, <2>2, Kinds DEF InsertsSpace, InsertsAccount
    <3>2. PICK parent \in Parent \cup {NoOne} : job'[r] = Inserted(job[r], parent, {r})
      BY <3>1 DEF InsertsFile
    <3>3. PICK keys \in SUBSET Object : keys = {r}
      BY <2>2
    <3>4. job[r] \in JobRow
      BY <1>1
    <3>5. Inserted(job[r], parent, keys).keys = keys
      BY <3>4, RepeatedRows
    <3> QED BY <1>1, <2>1, <2>2, <3>2, <3>3, <3>5
  <2>3. CASE r = Account
    <3>1. InsertsAccount(r)
      BY <1>3, <2>3, Kinds DEF InsertsSpace, InsertsFile
    <3>2. PICK keys \in SUBSET Object : keys = {avatar} \ {NoOne}
      BY Kinds DEF IInv, TypeOK
    <3>3. Inserted(job[r], NoOne, keys).keys = keys
      BY <1>1 DEF Inserted, JobRow
    <3>4. job[r].keys = {avatar} \ {NoOne}
      BY <1>1, <2>3 DEF IInv, KeysMatchJobs, Completed
    <3> QED BY <1>1, <2>1, <3>1, <3>2, <3>3, <3>4 DEF InsertsAccount
  <2> QED BY <2>2, <2>3
<1>4. CASE Reopens(r)
  <2>1. r = o /\ step = "storage_deleted"
    BY <1>4, Kinds DEF Reopens
  <2> QED BY <1>1, <1>4, <2>1, FieldsStep
<1>5. ASSUME NEW w \in Worker, ClaimJob(w, r)
      PROVE  job'[r].status # "completed" /\ o \in job'[r].keys /\ step \notin job'[r].steps
  BY <1>1, <1>5, FieldsStep
<1>6. ASSUME NEW w \in Worker, Notes(w, r)
      PROVE  job'[r].status # "completed" /\ o \in job'[r].keys /\ step \notin job'[r].steps
  <2>1. /\ job'[r].status = job[r].status /\ job'[r].keys = job[r].keys
        /\ job'[r].steps = job[r].steps \cup {NextStep(work[w])}
    BY <1>1, <1>6, FieldsStep
  <2>2. WorkIsDone(w) /\ Holds(w) /\ work[w].at = "note" /\ work[w].job = r
    BY <1>6 DEF Notes, IInv, WorkersAreDone
  <2>0. Owns(w)
    BY <2>2 DEF Holds, Owns
  <2>3. o \in work[w].keys
    BY <1>1, <2>0, <2>2 DEF WorkIsDone
  <2>4. NextStep(work[w]) # step
    BY <2>0, <2>2, <2>3 DEF WorkIsDone
  <2> QED BY <1>1, <2>1, <2>4
<1>7. ASSUME NEW w \in Worker, Completes(w, r) PROVE FALSE
  <2>1. WorkIsDone(w) /\ Owns(w) /\ work[w].at \in {"final", "commit"} /\ work[w].job = r
    BY <1>7 DEF Completes, Finalize, Holds, Owns, IInv, WorkersAreDone, EndingsHold, EndingHolds
  <2>2. StepsOf(r) \subseteq job[r].steps
    BY <2>1 DEF WorkIsDone
  <2> QED BY <1>1, <1>2, <2>2
<1>8. CASE GivesUp(r)
  BY <1>1, <1>8, FieldsStep
<1>9. CASE job'[r] = job[r]
  BY <1>1, <1>9
<1> QED BY <1>1, <1>3, <1>4, <1>5, <1>6, <1>7, <1>8, <1>9, JobStep DEF JobChanges

\* An object whose upload is recorded, or rejected, is known to a row or a job.
LEMMA RecordedStep ==
    ASSUME IInv, [Next]_vars, NEW o \in Object, o \in object',
           \/ o \in File /\ RecordObject(o)
           \/ o \in Avatar /\ (ReplaceAvatar(o) \/ RejectAvatar(o))
    PROVE  Tracked(o)'
<1>1. o \in Resource /\ job[o] \in JobRow \cup {NoOne}
  BY Kinds DEF IInv, TypeOK
<1>2. job' = [job EXCEPT ![o] = Requeued(@, o)] => OpenIn(o, o, "storage_deleted")'
  <2> SUFFICES ASSUME job' = [job EXCEPT ![o] = Requeued(@, o)]
               PROVE  OpenIn(o, o, "storage_deleted")'
    OBVIOUS
  <2>1. job'[o] = Requeued(job[o], o)
    BY <1>1 DEF IInv, TypeOK
  <2>2. /\ Requeued(job[o], o) # NoOne /\ Requeued(job[o], o).status = "queued"
        /\ o \in Requeued(job[o], o).keys
        /\ "storage_deleted" \notin Requeued(job[o], o).steps
    BY <1>1, RequeuedRows, NoOneAssumption
  <2> QED BY <2>1, <2>2 DEF OpenIn, Completed
<1>3. CASE o \in File /\ RecordObject(o)
  <2>1. CASE job' = [job EXCEPT ![o] = Requeued(@, o)]
    BY <1>2, <2>1 DEF Tracked
  <2>2. CASE row' = [row EXCEPT ![o] = "stored"]
    <3>1. row'[o] = "stored"
      BY <1>3, <2>2 DEF IInv, TypeOK
    <3>2. Live(o)'
      BY <1>3, <3>1, FilesStep DEF RowsMatchJobs, Live
    <3> QED BY <1>3, <3>2 DEF Tracked
  <2> QED BY <1>3, <2>1, <2>2 DEF RecordObject
<1>4. CASE ReplaceAvatar(o)
  BY <1>4 DEF ReplaceAvatar, Tracked
<1>5. CASE RejectAvatar(o)
  BY <1>2, <1>5 DEF RejectAvatar, Tracked
<1> QED BY <1>3, <1>4, <1>5

\* The object of a live file stays known to its row, or to the job that the
\* deletion of the file inserts.
LEMMA LiveStep ==
    ASSUME IInv, [Next]_vars, NEW f \in File, Live(f)
    PROVE  Tracked(f)'
<1>1. f \in Object /\ f \in Resource /\ row[f] = "stored" /\ keyed[f] /\ job[f] = NoOne
  BY Kinds DEF Live, IInv, RowsMatchJobs
<1>2. row'[f] \in {"stored", "deleting"}
  BY <1>1, FileStep
<1>3. CASE row'[f] = "stored"
  <2>1. Live(f)'
    BY <1>3, FilesStep DEF RowsMatchJobs, Live
  <2> QED BY <2>1 DEF Tracked
<1>4. CASE row'[f] = "deleting"
  <2>1. job'[f] # NoOne
    BY <1>4, FilesStep DEF RowsMatchJobs
  <2>2. InsertsFile(f)
    BY <1>1, <2>1, JobsGrow DEF Reopens
  <2>3. PICK parent \in Parent \cup {NoOne} : job'[f] = Inserted(NoOne, parent, {f})
    BY <1>1, <2>2 DEF InsertsFile
  <2>4. /\ Inserted(NoOne, parent, {f}).status = "queued"
        /\ Inserted(NoOne, parent, {f}).keys = {f} /\ Inserted(NoOne, parent, {f}).steps = {}
    BY <1>1, InsertedRows
  <2>5. OpenIn(f, f, "storage_deleted")'
    BY <2>1, <2>3, <2>4 DEF OpenIn, Completed
  <2> QED BY <2>5 DEF Tracked
<1> QED BY <1>2, <1>3, <1>4

\* The avatar of an active account stays shown, or known to the job of its
\* replacement or of the account.
LEMMA ShownStep ==
    ASSUME IInv, [Next]_vars, NEW a \in Avatar, account = "active", avatar = a
    PROVE  Tracked(a)'
<1>1. /\ a \in Object /\ a \in Resource /\ job[a] \in JobRow \cup {NoOne} /\ a # NoOne
      /\ job[Account] = NoOne
  BY Kinds DEF IInv, TypeOK, OwnersMatchJobs
<1>2. ASSUME NEW w \in Worker, Finalize(w), work[w].job = Account PROVE FALSE
  BY <1>1, <1>2 DEF Finalize, IInv, WorkersAreDone, WorkIsDone
<1>3. CASE avatar' # avatar
  <2>1. PICK x \in Avatar : ReplaceAvatar(x)
    BY <1>2, <1>3, OwnerStep
  <2>2. job'[a] = Requeued(job[a], a)
    BY <1>1, <2>1 DEF ReplaceAvatar, IInv, TypeOK
  <2>3. /\ Requeued(job[a], a) # NoOne /\ Requeued(job[a], a).status = "queued"
        /\ a \in Requeued(job[a], a).keys
        /\ "storage_deleted" \notin Requeued(job[a], a).steps
    BY <1>1, RequeuedRows, NoOneAssumption
  <2>4. OpenIn(a, a, "storage_deleted")'
    BY <2>2, <2>3 DEF OpenIn, Completed
  <2> QED BY <2>4 DEF Tracked
<1>4. CASE account' # account
  <2>1. InsertsAccount(Account)
    BY <1>2, <1>4, OwnerStep
  <2>2. PICK keys \in SUBSET Object : keys = {avatar} \ {NoOne}
    BY Kinds DEF IInv, TypeOK
  <2>3. job'[Account] = Inserted(NoOne, NoOne, keys)
    BY <1>1, <2>1, <2>2 DEF InsertsAccount
  <2>4. /\ Inserted(NoOne, NoOne, keys) \in JobRow
        /\ Inserted(NoOne, NoOne, keys).status = "queued"
        /\ Inserted(NoOne, NoOne, keys).keys = keys /\ Inserted(NoOne, NoOne, keys).steps = {}
    BY InsertedRows
  <2>5. OpenIn(Account, a, "avatar_deleted")'
    BY <1>1, <2>2, <2>3, <2>4, NoOneAssumption DEF OpenIn, Completed
  <2> QED BY <2>5 DEF Tracked
<1>5. CASE avatar' = avatar /\ account' = account
  BY <1>5 DEF Tracked
<1> QED BY <1>3, <1>4, <1>5

\* No step loses an object but the repeated deletion of a file whose row never
\* learnt its key: uploads that come late, avatars that are replaced, workers
\* that are superseded and owners that go all leave it to a row or a job.
THEOREM OnlyRepeatedDeletionLoses == Spec => ObjectsLostOnlyByRepeatedDeletion
<1>1. IInv /\ [Next]_vars
      => [\A o \in Object : ~Lost(o) /\ Lost(o)' => ForgetfulDeletion(o)]_vars
  <2> SUFFICES ASSUME IInv, [Next]_vars, NEW o \in Object, ~Lost(o), Lost(o)'
               PROVE  ForgetfulDeletion(o)
    OBVIOUS
  <2>1. o \in object' /\ ~InFlight(o)' /\ ~Tracked(o)'
    BY DEF Lost
  <2>2. o \in object /\ ~InFlight(o)
    BY <2>1, ObjectStep, RecordedStep
  <2>3. Tracked(o)
    BY <2>2 DEF Lost
  <2>4. ~ (o \in File /\ Live(o))
    BY <2>1, LiveStep
  <2>5. ~ (account = "active" /\ avatar = o)
    <3>1. avatar = o => o \in Avatar
      BY Kinds DEF IInv, TypeOK, Resource, Object
    <3> QED BY <2>1, <3>1, ShownStep
  <2>6. ASSUME o \in Avatar, OpenIn(Account, o, "avatar_deleted") PROVE FALSE
    <3>1. OpenIn(Account, o, "avatar_deleted")' \/ InsertsFile(Account)
      BY <2>2, <2>6, OpenStep
    <3>2. ~InsertsFile(Account)
      BY Kinds DEF InsertsFile
    <3> QED BY <2>1, <2>6, <3>1, <3>2 DEF Tracked
  <2>7. OpenIn(o, o, "storage_deleted")
    BY <2>3, <2>4, <2>5, <2>6 DEF Tracked
  <2>8. InsertsFile(o) /\ ~keyed[o]
    <3>1. OpenIn(o, o, "storage_deleted")' \/ (InsertsFile(o) /\ ~keyed[o])
      BY <2>2, <2>7, OpenStep
    <3> QED BY <2>1, <3>1 DEF Tracked
  <2>9. row[o] = "deleting"
    BY <2>7, <2>8 DEF InsertsFile, RowExists, OpenIn, IInv, RowsMatchJobs
  <2> QED BY <2>8, <2>9 DEF InsertsFile, Requested, ForgetfulDeletion
<1> QED BY <1>1, CleanupInvariant, PTL DEF Spec, ObjectsLostOnlyByRepeatedDeletion
=============================================================================
