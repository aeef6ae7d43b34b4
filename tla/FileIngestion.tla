--------------------------- MODULE FileIngestion ---------------------------
(***************************************************************************)
(* The document ingestion pipeline: the server's file queue (claim, lease, *)
(* dispatch, reconcile), the RAG service's conversion pipeline that works  *)
(* for one claimed attempt, the cleanup of retired conversion generations  *)
(* and the deletion of a file while any of these is under way.             *)
(*                                                                         *)
(* PostgreSQL rows are the shared state.  One step is one transaction, or  *)
(* one call to a store that no transaction covers (objects, index          *)
(* entries).  Time appears only as leases and back-offs that run out.      *)
(*                                                                         *)
(* A claim draws a fresh attempt_id and lease_token together and every     *)
(* statement compares both, so one number, the order of the claim, stands  *)
(* for the pair.  A conversion generation has the id of its attempt        *)
(* (generation_id = str(attempt_id)), so it is that number too.            *)
(***************************************************************************)
EXTENDS Naturals

CONSTANTS
  Files,        \* stored documents
  MaxClaims,    \* claims explored (bounds the model)
  MaxAttempts,  \* FILE_QUEUE_MAX_ATTEMPTS
  MaxResets,    \* user retries and reingestions explored (bounds the model)
  Deletable,    \* files the user may delete (bounds the model)
  NoFile        \* the file of an attempt id that was never drawn

ASSUME ClaimBound == MaxClaims \in Nat \ {0}
ASSUME AttemptBudget == MaxAttempts \in Nat \ {0}
ASSUME ResetBound == MaxResets \in Nat
ASSUME NoFileFresh == NoFile \notin Files

Attempt == 1 .. MaxClaims
None == 0                       \* SQL null for an attempt or a generation

VARIABLES
  fileStatus,    \* files.status
  tries,         \* files.attempts
  due,           \* files.next_attempt_at is null or has passed
  active,        \* files.active_conversion_generation_id
  jobStatus,     \* file_ingestion_jobs.status, "none" without a row
  jobAttempt,    \* file_ingestion_jobs.attempt_id and lease_token
  leaseLive,     \* file_ingestion_jobs.lease_expires_at > now()
  jobGen,        \* file_ingestion_jobs.conversion_generation_id
  genStatus,     \* file_conversion_generations.status, "none" without a row
  chunks,        \* the file_chunks rows of a generation are persisted
  index,         \* its entries in the vector, keyword and graph stores
  artifacts,     \* its three derived objects are in the object store
  cleanup,       \* progress of its conversion_generation cleanup job
  deletion,      \* progress of a file's cleanup job
  doomed,        \* storage keys that job snapshotted, by generation
  queued,        \* files with a BullMQ message waiting (deterministic jobId)
  server,        \* phase of the server worker that holds an attempt
  rag,           \* phase of the RAG service request of an attempt
  fileOf,        \* the file an attempt was claimed for
  claims,        \* claims issued so far
  resets         \* user retries and reingestions so far

fileVars == <<fileStatus, tries, due, active>>
jobVars == <<jobStatus, jobAttempt, leaseLive, jobGen>>
genVars == <<genStatus, chunks, index, artifacts, cleanup>>
deleteVars == <<deletion, doomed>>
workVars == <<queued, server, rag>>
countVars == <<fileOf, claims, resets>>
vars == <<fileStatus, tries, due, active, jobStatus, jobAttempt, leaseLive,
          jobGen, genStatus, chunks, index, artifacts, cleanup, deletion,
          doomed, queued, server, rag, fileOf, claims, resets>>

FileStatus == {"pending", "processing", "completed", "failed", "deleting", "gone"}
JobStatus == {"none", "processing", "completed", "failed", "cancelled"}
GenStatus == {"none", "converting", "completed", "failed", "superseded", "deleted"}
\* 'completed' stands for completed_with_warnings as well: every statement
\* that reads one reads both.
Retired == {"failed", "superseded"}
CleanupStep == {"none", "queued", "deleting_index", "rag_deleted",
                "storage_deleted", "completed"}
DeletionStep == {"none", "queued", "rag_deleted", "storage_deleted", "completed"}
ServerPhase == {"idle", "requested", "reconciling", "done"}
RagPhase == {"idle", "received", "started", "bound", "publishing", "published",
             "converted", "prepared", "chunked", "writing", "indexed",
             "retiring", "failing", "ended"}

TypeOK ==
  /\ fileStatus \in [Files -> FileStatus]
  /\ tries \in [Files -> 0 .. MaxAttempts]
  /\ due \in [Files -> BOOLEAN]
  /\ active \in [Files -> Attempt \cup {None}]
  /\ jobStatus \in [Files -> JobStatus]
  /\ jobAttempt \in [Files -> Attempt \cup {None}]
  /\ leaseLive \in [Files -> BOOLEAN]
  /\ jobGen \in [Files -> Attempt \cup {None}]
  /\ genStatus \in [Attempt -> GenStatus]
  /\ chunks \in [Attempt -> BOOLEAN]
  /\ index \in [Attempt -> {"none", "partial", "full"}]
  /\ artifacts \in [Attempt -> BOOLEAN]
  /\ cleanup \in [Attempt -> CleanupStep]
  /\ deletion \in [Files -> DeletionStep]
  /\ doomed \in [Files -> SUBSET Attempt]
  /\ queued \in SUBSET Files
  /\ server \in [Attempt -> ServerPhase]
  /\ rag \in [Attempt -> RagPhase]
  /\ fileOf \in [Attempt -> Files \cup {NoFile}]
  /\ claims \in 0 .. MaxClaims
  /\ resets \in 0 .. MaxResets

\* A file whose upload has just been finalized: pending, with its object.
Init ==
  /\ fileStatus = [f \in Files |-> "pending"]
  /\ tries = [f \in Files |-> 0]
  /\ due = [f \in Files |-> TRUE]
  /\ active = [f \in Files |-> None]
  /\ jobStatus = [f \in Files |-> "none"]
  /\ jobAttempt = [f \in Files |-> None]
  /\ leaseLive = [f \in Files |-> FALSE]
  /\ jobGen = [f \in Files |-> None]
  /\ genStatus = [a \in Attempt |-> "none"]
  /\ chunks = [a \in Attempt |-> FALSE]
  /\ index = [a \in Attempt |-> "none"]
  /\ artifacts = [a \in Attempt |-> FALSE]
  /\ cleanup = [a \in Attempt |-> "none"]
  /\ deletion = [f \in Files |-> "none"]
  /\ doomed = [f \in Files |-> {}]
  /\ queued = {}
  /\ server = [a \in Attempt |-> "idle"]
  /\ rag = [a \in Attempt |-> "idle"]
  /\ fileOf = [a \in Attempt |-> NoFile]
  /\ claims = 0
  /\ resets = 0

Deleted(f) == fileStatus[f] \in {"deleting", "gone"}

-----------------------------------------------------------------------------
(* The server: dispatch, claim, reconcile.                                 *)

\* The predicate that the claim and the dispatcher's scan share.
Dispatchable(f) ==
  \/ fileStatus[f] = "pending" /\ due[f]
  \/ fileStatus[f] = "failed" /\ tries[f] < MaxAttempts /\ due[f]
  \/ /\ fileStatus[f] = "processing" /\ tries[f] < MaxAttempts
     /\ jobStatus[f] = "none" \/ (jobStatus[f] = "processing" /\ ~leaseLive[f])

\* BullMQ keeps the job of a message until its handler returns and ignores
\* an add with the same jobId until then.
InFlight(f) == \E a \in Attempt : fileOf[a] = f /\ server[a] \in {"requested", "reconciling"}

Dispatch(f) ==
  /\ Dispatchable(f)
  /\ ~InFlight(f)
  /\ queued' = queued \cup {f}
  /\ UNCHANGED <<fileVars, jobVars, genVars, deleteVars, server, rag, countVars>>

\* Redis loses a message, or delivers one again (a stalled job is handed to
\* another worker while its first worker may still be running).
LoseMessage(f) ==
  /\ f \in queued
  /\ queued' = queued \ {f}
  /\ UNCHANGED <<fileVars, jobVars, genVars, deleteVars, server, rag, countVars>>

Redeliver(f) ==
  /\ InFlight(f)
  /\ queued' = queued \cup {f}
  /\ UNCHANGED <<fileVars, jobVars, genVars, deleteVars, server, rag, countVars>>

\* processFileById: a worker takes the message and claims the row again.
Claim(f) ==
  /\ f \in queued
  /\ Dispatchable(f)
  /\ claims < MaxClaims
  /\ LET a == claims + 1 IN
     /\ claims' = a
     /\ fileOf' = [fileOf EXCEPT ![a] = f]
     /\ server' = [server EXCEPT ![a] = "requested"]
     /\ jobAttempt' = [jobAttempt EXCEPT ![f] = a]
  /\ queued' = queued \ {f}
  /\ fileStatus' = [fileStatus EXCEPT ![f] = "processing"]
  /\ tries' = [tries EXCEPT ![f] = IF @ < MaxAttempts THEN @ + 1 ELSE MaxAttempts]
  /\ due' = [due EXCEPT ![f] = TRUE]
  /\ jobStatus' = [jobStatus EXCEPT ![f] = "processing"]
  /\ leaseLive' = [leaseLive EXCEPT ![f] = TRUE]
  /\ jobGen' = [jobGen EXCEPT ![f] = None]
  /\ UNCHANGED <<active, genVars, deleteVars, rag, resets>>

\* A message for a file that is not claimable is consumed without effect.
Discard(f) ==
  /\ f \in queued
  /\ ~Dispatchable(f)
  /\ queued' = queued \ {f}
  /\ UNCHANGED <<fileVars, jobVars, genVars, deleteVars, server, rag, countVars>>

Holds(f, a) == jobAttempt[f] = a

\* renewFileIngestionLease keeps a live lease live, which changes nothing
\* here; a lease runs out when its heartbeat is late or its server is gone.
LeaseExpires(f) ==
  /\ leaseLive[f]
  /\ leaseLive' = [leaseLive EXCEPT ![f] = FALSE]
  /\ UNCHANGED <<fileVars, jobStatus, jobAttempt, jobGen, genVars, deleteVars,
                 workVars, countVars>>

\* The ingest request of attempt a ends for the server: a response, a
\* transport error, the timeout, or the abort after the heartbeat lost the
\* lease.  The RAG service may still be working.
RequestEnds(a) ==
  /\ server[a] = "requested"
  /\ server' = [server EXCEPT ![a] = "reconciling"]
  /\ UNCHANGED <<fileVars, jobVars, genVars, deleteVars, queued, rag, countVars>>

\* The circuit breaker refused the request: nothing was sent.
RequestRefused(a) ==
  LET f == fileOf[a] IN
  /\ server[a] = "requested"
  /\ rag[a] = "idle"
  /\ server' = [server EXCEPT ![a] = "reconciling"]
  /\ rag' = [rag EXCEPT ![a] = "ended"]
  /\ IF Holds(f, a) /\ jobStatus[f] = "processing" /\ leaseLive[f]
       THEN /\ jobStatus' = [jobStatus EXCEPT ![f] = "failed"]
            /\ leaseLive' = [leaseLive EXCEPT ![f] = FALSE]
       ELSE UNCHANGED <<jobStatus, leaseLive>>
  /\ UNCHANGED <<fileVars, jobAttempt, jobGen, genVars, deleteVars, queued, countVars>>

\* Mutant: only generations still converting are retired.
RetireConverting(f, g) ==
  IF g # None /\ active[f] # g /\ genStatus[g] = "converting"
    THEN /\ genStatus' = [genStatus EXCEPT ![g] = "failed"]
         /\ cleanup' = [cleanup EXCEPT ![g] = "queued"]
    ELSE UNCHANGED <<genStatus, cleanup>>

\* enqueueConversionGenerationCleanupWithClient: retire the generation that
\* a terminated attempt leaves behind and record its cleanup job.
RetireGeneration(f, g) ==
  IF g # None /\ active[f] # g /\ genStatus[g] \notin {"none", "deleted"}
    THEN /\ genStatus' = [genStatus EXCEPT ![g] =
                            CASE @ = "converting" -> "failed"
                              [] @ = "completed" -> "superseded"
                              [] OTHER -> @]
         /\ cleanup' = [cleanup EXCEPT ![g] = IF @ = "none" THEN "queued" ELSE @]
    ELSE UNCHANGED <<genStatus, cleanup>>

\* Mutant: a job that has ended in any way completes the file.
ReconcileAnyEndCompletes(f, a) ==
  IF fileStatus[f] # "processing" \/ ~Holds(f, a) \/ leaseLive[f]
    THEN UNCHANGED <<fileStatus, due, genStatus, cleanup>>
    ELSE /\ fileStatus' = [fileStatus EXCEPT ![f] = "completed"]
         /\ UNCHANGED <<due, genStatus, cleanup>>

\* reconcileFileIngestionAttempt for the claim <<f, a>>, in one transaction.
ReconcileAttempt(f, a) ==
  IF fileStatus[f] # "processing" \/ ~Holds(f, a) \/ jobStatus[f] = "none"
       \/ (jobStatus[f] = "processing" /\ leaseLive[f])
    THEN UNCHANGED <<fileStatus, due, genStatus, cleanup>>
    ELSE IF jobStatus[f] = "completed"
      THEN /\ fileStatus' = [fileStatus EXCEPT ![f] = "completed"]
           /\ due' = [due EXCEPT ![f] = TRUE]
           /\ UNCHANGED <<genStatus, cleanup>>
      ELSE /\ fileStatus' = [fileStatus EXCEPT ![f] = "failed"]
           /\ due' = [due EXCEPT ![f] = tries[f] >= MaxAttempts]
           /\ RetireGeneration(f, jobGen[f])

WorkerReconciles(a) ==
  /\ server[a] = "reconciling"
  /\ server' = [server EXCEPT ![a] = "done"]
  /\ ReconcileAttempt(fileOf[a], a)
  /\ UNCHANGED <<tries, active, jobVars, chunks, index, artifacts, deleteVars,
                 queued, rag, countVars>>

\* Mutant: the scan leaves rows with an expired lease out.
ReconcileEndedOnly(f) ==
  /\ fileStatus[f] = "processing"
  /\ jobStatus[f] \in {"completed", "failed", "cancelled"}
  /\ ReconcileAttempt(f, jobAttempt[f])
  /\ UNCHANGED <<tries, active, jobVars, chunks, index, artifacts, deleteVars,
                 workVars, countVars>>

\* reconcileFileIngestionJobs.  Its scan only picks rows; the transaction
\* reads everything again under row locks, and a row that no longer
\* qualifies by then is left alone, so scan and transaction are one step.
DispatcherReconciles(f) ==
  /\ fileStatus[f] = "processing"
  /\ \/ jobStatus[f] \in {"completed", "failed", "cancelled"}
     \/ jobStatus[f] = "processing" /\ ~leaseLive[f]
  /\ ReconcileAttempt(f, jobAttempt[f])
  /\ UNCHANGED <<tries, active, jobVars, chunks, index, artifacts, deleteVars,
                 workVars, countVars>>

BackoffElapses(f) ==
  /\ ~due[f]
  /\ due' = [due EXCEPT ![f] = TRUE]
  /\ UNCHANGED <<fileStatus, tries, active, jobVars, genVars, deleteVars,
                 workVars, countVars>>

ServerCrashes(a) ==
  /\ server[a] \in {"requested", "reconciling"}
  /\ server' = [server EXCEPT ![a] = "done"]
  /\ UNCHANGED <<fileVars, jobVars, genVars, deleteVars, queued, rag, countVars>>

-----------------------------------------------------------------------------
(* The RAG service: one request per attempt, process_converted_file.       *)

\* assert_ingestion_lease, and the condition of every fenced statement.
Leased(a) ==
  LET f == fileOf[a] IN
  /\ f # NoFile
  /\ Holds(f, a)
  /\ jobStatus[f] = "processing"
  /\ leaseLive[f]

Advance(a, from, to) ==
  /\ rag[a] = from
  /\ rag' = [rag EXCEPT ![a] = to]

\* The request arrives, also after the server has stopped waiting for it.
RagReceives(a) ==
  /\ server[a] # "idle"
  /\ Advance(a, "idle", "received")
  /\ UNCHANGED <<fileVars, jobVars, genVars, deleteVars, queued, server, countVars>>

StartIngestionJob(a) ==
  /\ Advance(a, "received", "started")
  /\ Leased(a)
  /\ jobGen' = [jobGen EXCEPT ![fileOf[a]] = None]
  /\ UNCHANGED <<fileVars, jobStatus, jobAttempt, leaseLive, genVars,
                 deleteVars, queued, server, countVars>>

CreateConversionGeneration(a) ==
  LET f == fileOf[a] IN
  /\ Advance(a, "started", "bound")
  /\ Leased(a)
  /\ fileStatus[f] = "processing"
  /\ genStatus' = [genStatus EXCEPT ![a] = IF @ = "none" THEN "converting" ELSE @]
  /\ jobGen' = [jobGen EXCEPT ![f] = a]
  /\ UNCHANGED <<fileVars, jobStatus, jobAttempt, leaseLive, chunks, index,
                 artifacts, cleanup, deleteVars, queued, server, countVars>>

\* Two checkpoints and the conversion between them, all under the lease.
Convert(a) ==
  /\ Advance(a, "bound", "publishing")
  /\ Leased(a)
  /\ UNCHANGED <<fileVars, jobVars, genVars, deleteVars, queued, server, countVars>>

\* upload_derived_artifacts: no lease protects the object store.
UploadArtifacts(a) ==
  /\ Advance(a, "publishing", "published")
  /\ artifacts' = [artifacts EXCEPT ![a] = TRUE]
  /\ UNCHANGED <<fileVars, jobVars, genStatus, chunks, index, cleanup,
                 deleteVars, queued, server, countVars>>

CompleteConversionGeneration(a) ==
  /\ Advance(a, "published", "converted")
  /\ Leased(a)
  /\ jobGen[fileOf[a]] = a
  /\ genStatus[a] = "converting"
  /\ genStatus' = [genStatus EXCEPT ![a] = "completed"]
  /\ UNCHANGED <<fileVars, jobVars, chunks, index, artifacts, cleanup,
                 deleteVars, queued, server, countVars>>

\* validating_source_map, preparing_generation_indexes: the attempt's own
\* generation has no chunks yet, so its index cleanup finds nothing.
PrepareIndexes(a) ==
  /\ Advance(a, "converted", "prepared")
  /\ Leased(a)
  /\ UNCHANGED <<fileVars, jobVars, genVars, deleteVars, queued, server, countVars>>

\* replace_file_chunks checks no lease; the rows reference the generation.
ReplaceFileChunks(a) ==
  /\ Advance(a, "prepared", "chunked")
  /\ genStatus[a] # "deleted"
  /\ chunks' = [chunks EXCEPT ![a] = TRUE]
  /\ UNCHANGED <<fileVars, jobVars, genStatus, index, artifacts, cleanup,
                 deleteVars, queued, server, countVars>>

\* The lease is read, then a batch is written: two steps.
AssertBatchLease(a) ==
  /\ Advance(a, "chunked", "writing")
  /\ Leased(a)
  /\ UNCHANGED <<fileVars, jobVars, genVars, deleteVars, queued, server, countVars>>

\* Mutant: the loop over the batches stops one short.
IndexAllButLast(a) ==
  /\ rag[a] = "writing"
  /\ index' = [index EXCEPT ![a] = "partial"]
  /\ rag' = [rag EXCEPT ![a] = "indexed"]
  /\ UNCHANGED <<fileVars, jobVars, genStatus, chunks, artifacts, cleanup,
                 deleteVars, queued, server, countVars>>

IndexChunkBatch(a) ==
  /\ rag[a] = "writing"
  /\ \/ /\ index[a] = "none"
        /\ index' = [index EXCEPT ![a] = "partial"]
        /\ rag' = [rag EXCEPT ![a] = "chunked"]
     \/ /\ index' = [index EXCEPT ![a] = "full"]
        /\ rag' = [rag EXCEPT ![a] = "indexed"]
  /\ UNCHANGED <<fileVars, jobVars, genStatus, chunks, artifacts, cleanup,
                 deleteVars, queued, server, countVars>>

\* Mutant: the activation does not supersede the previous generation.
ActivateBesidePrevious(a) ==
  LET f == fileOf[a] IN
  /\ Advance(a, "indexed", "ended")
  /\ Leased(a) /\ jobGen[f] = a
  /\ fileStatus[f] = "processing"
  /\ genStatus[a] = "completed"
  /\ active' = [active EXCEPT ![f] = a]
  /\ jobStatus' = [jobStatus EXCEPT ![f] = "completed"]
  /\ leaseLive' = [leaseLive EXCEPT ![f] = FALSE]
  /\ UNCHANGED <<fileStatus, tries, due, jobAttempt, jobGen, genVars,
                 deleteVars, queued, server, countVars>>

\* activate_conversion_generation_and_complete_ingestion_job: supersede the
\* previous generation, serve this one, complete the job and enqueue the
\* previous one's cleanup, or none of these.
ActivateGeneration(a) ==
  LET f == fileOf[a]
      previous == active[f]
  IN
  /\ Advance(a, "indexed", "ended")
  /\ Leased(a)
  /\ fileStatus[f] = "processing"
  /\ jobGen[f] = a
  /\ genStatus[a] = "completed"
  /\ chunks[a]
  /\ previous \in Attempt \ {a} => genStatus[previous] = "completed"
  /\ active' = [active EXCEPT ![f] = a]
  /\ jobStatus' = [jobStatus EXCEPT ![f] = "completed"]
  /\ leaseLive' = [leaseLive EXCEPT ![f] = FALSE]
  /\ IF previous \in Attempt \ {a}
       THEN /\ genStatus' = [genStatus EXCEPT ![previous] = "superseded"]
            /\ cleanup' = [cleanup EXCEPT ![previous] = IF @ = "none" THEN "queued" ELSE @]
       ELSE UNCHANGED <<genStatus, cleanup>>
  /\ UNCHANGED <<fileStatus, tries, due, jobAttempt, jobGen, chunks, index,
                 artifacts, deleteVars, queued, server, countVars>>

\* A step fails, or a fenced statement finds the lease lost.  Before the
\* generation is completed its new objects are removed (best effort) and it
\* is to be marked failed; afterwards everything is left for cleanup.
StepFails(a) ==
  \/ /\ rag[a] \in {"received", "started", "converted", "prepared", "chunked",
                    "writing", "indexed"}
     /\ rag' = [rag EXCEPT ![a] = "failing"]
     /\ UNCHANGED <<fileVars, jobVars, genVars, deleteVars, queued, server, countVars>>
  \/ /\ rag[a] \in {"bound", "publishing", "published"}
     /\ rag' = [rag EXCEPT ![a] = "retiring"]
     /\ \/ artifacts' = [artifacts EXCEPT ![a] = FALSE]
        \/ UNCHANGED artifacts
     /\ UNCHANGED <<fileVars, jobVars, genStatus, chunks, index, cleanup,
                    deleteVars, queued, server, countVars>>

\* Recording the failure is best effort: an error there other than a lost
\* lease is swallowed.
FailConversionGeneration(a) ==
  /\ Advance(a, "retiring", "failing")
  /\ \/ /\ Leased(a)
        /\ jobGen[fileOf[a]] = a
        /\ genStatus[a] = "converting"
        /\ genStatus' = [genStatus EXCEPT ![a] = "failed"]
     \/ UNCHANGED genStatus
  /\ UNCHANGED <<fileVars, jobVars, chunks, index, artifacts, cleanup,
                 deleteVars, queued, server, countVars>>

FailIngestionJob(a) ==
  LET f == fileOf[a] IN
  /\ Advance(a, "failing", "ended")
  /\ Leased(a)
  /\ jobStatus' = [jobStatus EXCEPT ![f] = "failed"]
  /\ leaseLive' = [leaseLive EXCEPT ![f] = FALSE]
  /\ UNCHANGED <<fileVars, jobAttempt, jobGen, genVars, deleteVars, queued,
                 server, countVars>>

\* IngestionLeaseLostError is re-raised without any further write, and a
\* crash of the RAG service looks the same from here.
RagStops(a) ==
  /\ rag[a] \notin {"idle", "ended"}
  /\ rag' = [rag EXCEPT ![a] = "ended"]
  /\ UNCHANGED <<fileVars, jobVars, genVars, deleteVars, queued, server, countVars>>

-----------------------------------------------------------------------------
(* Cleanup of a retired generation (its queue's own leases are modelled in *)
(* CleanupJobs; a failed step is retried from the last recorded step).     *)

\* The endpoint reads the generation before it deletes anything: it refuses
\* an active one (and one not retired), and finds nothing to delete when the
\* row is gone.
CleanupReadsGeneration(a) ==
  /\ cleanup[a] = "queued"
  /\ \/ /\ genStatus[a] = "deleted"
        /\ cleanup' = [cleanup EXCEPT ![a] = "rag_deleted"]
     \/ /\ genStatus[a] \in Retired
        /\ active[fileOf[a]] # a
        /\ cleanup' = [cleanup EXCEPT ![a] =
                         IF chunks[a] THEN "deleting_index" ELSE "rag_deleted"]
  /\ UNCHANGED <<fileVars, jobVars, genStatus, chunks, index, artifacts,
                 deleteVars, workVars, countVars>>

CleanupDeletesIndex(a) ==
  /\ cleanup[a] = "deleting_index"
  /\ cleanup' = [cleanup EXCEPT ![a] = "rag_deleted"]
  /\ index' = [index EXCEPT ![a] = "none"]
  /\ UNCHANGED <<fileVars, jobVars, genStatus, chunks, artifacts, deleteVars,
                 workVars, countVars>>

CleanupDeletesObjects(a) ==
  /\ cleanup[a] = "rag_deleted"
  /\ cleanup' = [cleanup EXCEPT ![a] = "storage_deleted"]
  /\ artifacts' = [artifacts EXCEPT ![a] = FALSE]
  /\ UNCHANGED <<fileVars, jobVars, genStatus, chunks, index, deleteVars,
                 workVars, countVars>>

\* finalizeConversionGenerationCleanup; deleting the row deletes its chunks
\* and clears the references to it (on delete cascade, on delete set null).
FinalizeGenerationCleanup(a) ==
  LET f == fileOf[a] IN
  /\ cleanup[a] = "storage_deleted"
  /\ genStatus[a] \in Retired => active[f] # a
  /\ genStatus[a] \in Retired \cup {"deleted"}
  /\ cleanup' = [cleanup EXCEPT ![a] = "completed"]
  /\ genStatus' = [genStatus EXCEPT ![a] = "deleted"]
  /\ chunks' = [chunks EXCEPT ![a] = FALSE]
  /\ jobGen' = [jobGen EXCEPT ![f] = IF @ = a THEN None ELSE @]
  /\ UNCHANGED <<fileVars, jobStatus, jobAttempt, leaseLive, index, artifacts,
                 deleteVars, workVars, countVars>>

-----------------------------------------------------------------------------
(* The user: retry, reingest, delete.                                      *)

Reset(f) ==
  /\ resets < MaxResets
  /\ resets' = resets + 1
  /\ fileStatus' = [fileStatus EXCEPT ![f] = "pending"]
  /\ tries' = [tries EXCEPT ![f] = 0]
  /\ due' = [due EXCEPT ![f] = TRUE]
  /\ UNCHANGED <<active, jobVars, genVars, deleteVars, workVars, fileOf, claims>>

RetryFailedFile(f) ==
  /\ fileStatus[f] = "failed"
  /\ Reset(f)

\* queueDocumentsForReingestion; includeActive decides whether a file that
\* is being served may be rebuilt.
QueueForReingestion(f) ==
  /\ fileStatus[f] \in {"completed", "failed"}
  /\ ~(jobStatus[f] = "processing" /\ leaseLive[f])
  /\ \E includeActive \in BOOLEAN : includeActive \/ active[f] = None
  /\ Reset(f)

GenerationsOf(f) ==
  {a \in Attempt : fileOf[a] = f /\ genStatus[a] \notin {"none", "deleted"}}

\* enqueueFileCleanup / prepareFileCleanupWithClient.
DeleteFile(f) ==
  /\ f \in Deletable
  /\ fileStatus[f] # "gone"
  /\ fileStatus' = [fileStatus EXCEPT ![f] = "deleting"]
  /\ due' = [due EXCEPT ![f] = TRUE]
  /\ jobStatus' = [jobStatus EXCEPT ![f] = IF @ = "processing" THEN "cancelled" ELSE @]
  /\ leaseLive' = [leaseLive EXCEPT ![f] = FALSE]
  /\ deletion' = [deletion EXCEPT ![f] = IF @ = "none" THEN "queued" ELSE @]
  /\ doomed' = [doomed EXCEPT ![f] = @ \cup GenerationsOf(f)]
  /\ UNCHANGED <<tries, active, jobAttempt, jobGen, genVars, workVars, countVars>>

\* /cleanup-file removes the file's entries from the three index stores.
DeletionClearsIndexes(f) ==
  /\ deletion[f] = "queued"
  /\ deletion' = [deletion EXCEPT ![f] = "rag_deleted"]
  /\ index' = [a \in Attempt |-> IF fileOf[a] = f THEN "none" ELSE index[a]]
  /\ UNCHANGED <<fileVars, jobVars, genStatus, chunks, artifacts, cleanup,
                 doomed, workVars, countVars>>

DeletionClearsObjects(f) ==
  /\ deletion[f] = "rag_deleted"
  /\ deletion' = [deletion EXCEPT ![f] = "storage_deleted"]
  /\ artifacts' = [a \in Attempt |-> artifacts[a] /\ a \notin doomed[f]]
  /\ UNCHANGED <<fileVars, jobVars, genStatus, chunks, index, cleanup,
                 doomed, workVars, countVars>>

\* finalizeFileCleanup: the row goes, and with it its job, generations and
\* chunks (on delete cascade).
FinalizeDeletion(f) ==
  /\ deletion[f] = "storage_deleted"
  /\ deletion' = [deletion EXCEPT ![f] = "completed"]
  /\ fileStatus' = [fileStatus EXCEPT ![f] = "gone"]
  /\ active' = [active EXCEPT ![f] = None]
  /\ jobStatus' = [jobStatus EXCEPT ![f] = "none"]
  /\ jobAttempt' = [jobAttempt EXCEPT ![f] = None]
  /\ leaseLive' = [leaseLive EXCEPT ![f] = FALSE]
  /\ jobGen' = [jobGen EXCEPT ![f] = None]
  /\ genStatus' = [a \in Attempt |->
                     IF a \in GenerationsOf(f) THEN "deleted" ELSE genStatus[a]]
  /\ chunks' = [a \in Attempt |-> chunks[a] /\ fileOf[a] # f]
  /\ UNCHANGED <<tries, due, index, artifacts, cleanup, doomed, workVars, countVars>>

-----------------------------------------------------------------------------

ServerStep(f) ==
  \/ Dispatch(f) \/ LoseMessage(f) \/ Redeliver(f) \/ Claim(f) \/ Discard(f)
  \/ LeaseExpires(f) \/ DispatcherReconciles(f) \/ BackoffElapses(f)

UserStep(f) ==
  \/ RetryFailedFile(f) \/ QueueForReingestion(f) \/ DeleteFile(f)
  \/ DeletionClearsIndexes(f) \/ DeletionClearsObjects(f) \/ FinalizeDeletion(f)

WorkerStep(a) ==
  \/ RequestEnds(a) \/ RequestRefused(a) \/ WorkerReconciles(a) \/ ServerCrashes(a)

RagStep(a) ==
  \/ RagReceives(a) \/ StartIngestionJob(a) \/ CreateConversionGeneration(a)
  \/ Convert(a) \/ UploadArtifacts(a) \/ CompleteConversionGeneration(a)
  \/ PrepareIndexes(a) \/ ReplaceFileChunks(a) \/ AssertBatchLease(a)
  \/ IndexChunkBatch(a) \/ ActivateGeneration(a) \/ StepFails(a)
  \/ FailConversionGeneration(a) \/ FailIngestionJob(a) \/ RagStops(a)

CleanupStepOf(a) ==
  \/ CleanupReadsGeneration(a) \/ CleanupDeletesIndex(a)
  \/ CleanupDeletesObjects(a) \/ FinalizeGenerationCleanup(a)

Next ==
  \/ \E f \in Files : ServerStep(f) \/ UserStep(f)
  \/ \E a \in Attempt : WorkerStep(a) \/ RagStep(a) \/ CleanupStepOf(a)

Spec == Init /\ [][Next]_vars

\* What the running services guarantee: the dispatcher scans on its timer, a
\* message is not lost every single time, a request ends by its timeout, a
\* worker reconciles what it claimed or its process is restarted, and the
\* lease of an attempt nobody renews runs out.  Nothing is assumed of the
\* RAG service.
AbandonedLeaseExpires(f) ==
  /\ jobAttempt[f] \in Attempt => server[jobAttempt[f]] = "done"
  /\ LeaseExpires(f)

Fairness ==
  /\ \A f \in Files :
       /\ WF_vars(Dispatch(f)) /\ SF_vars(Claim(f)) /\ WF_vars(Discard(f))
       /\ WF_vars(DispatcherReconciles(f)) /\ WF_vars(BackoffElapses(f))
       /\ WF_vars(AbandonedLeaseExpires(f))
       /\ WF_vars(DeletionClearsIndexes(f)) /\ WF_vars(DeletionClearsObjects(f))
       /\ WF_vars(FinalizeDeletion(f))
  /\ \A a \in Attempt : WF_vars(RequestEnds(a)) /\ WF_vars(WorkerReconciles(a))

FairSpec == Spec /\ Fairness

-----------------------------------------------------------------------------
(* Properties.                                                             *)

\* A generation with every part that serving it needs.
Whole(g) ==
  /\ genStatus[g] = "completed"
  /\ chunks[g]
  /\ index[g] = "full"
  /\ artifacts[g]

\* What retrieval serves of a file that is not being deleted is a complete
\* generation of that file: no late worker, cleanup or failed reingestion
\* ever removes a part of it (the active generation retrieval joins on).
ServedIsWhole ==
  /\ TypeOK
  /\ \A f \in Files :
       active[f] # None /\ ~Deleted(f) => fileOf[active[f]] = f /\ Whole(active[f])

\* A file shown as completed serves the generation of its latest claim
\* (reconciliation copies the job's status to the file in a later transaction).
CompletedServesLatest ==
  \A f \in Files :
    fileStatus[f] = "completed" => active[f] # None /\ active[f] = jobAttempt[f]

\* Cleanup is recorded only for a generation that is not served and that no
\* attempt with a live lease can still activate.
CleanupSparesPublishable ==
  \A a \in Attempt :
    cleanup[a] # "none" => ~Leased(a) /\ \A f \in Files : active[f] # a

\* The served generation is only ever replaced by one of a later claim, and
\* disappears only with the file: a worker that lost its lease cannot roll
\* a newer publication back.
PublicationMovesForward ==
  [][\A f \in Files : active'[f] # active[f] =>
       \/ active'[f] > active[f]
       \/ active'[f] = None /\ fileStatus'[f] = "gone"]_vars

\* A late reconciliation never turns a completed file into a failed one:
\* only the user's reingestion or deletion takes it out of completed.
CompletedNeverFails ==
  [][\A f \in Files : fileStatus[f] = "completed" =>
       \/ fileStatus'[f] \in {"completed", "deleting"}
       \/ fileStatus'[f] = "pending" /\ resets' = resets + 1]_vars

\* Claims, workers and reconciliation cannot bring back a file that the user
\* has asked to delete.
DeletionIsFinal ==
  [][\A f \in Files : Deleted(f) =>
       Deleted(f)' /\ (active'[f] = active[f] \/ active'[f] = None)]_vars

\* Retrieval's view of the pipeline: the served version of a document, how
\* far each version is, and the documents being deleted.
Stage(g) ==
  IF genStatus[g] \in Retired \cup {"deleted"} THEN "retired"
  ELSE IF Whole(g) THEN "ready" ELSE "building"

Publication == INSTANCE DocumentPublication WITH
  Documents <- Files,
  Versions <- Attempt,
  NoVersion <- None,
  served <- active,
  stage <- [g \in Attempt |-> Stage(g)],
  removing <- {f \in Files : Deleted(f)}

\* Under that view the whole pipeline, with its leases, late workers and
\* cleanups, does nothing but build, publish, abandon and remove whole
\* versions.
ImplementsPublication == Publication!Spec

\* Every generation is served, bound to the file's job (from where
\* reconciliation retires it), recorded for cleanup, or covered by the
\* deletion of its file: "Converted generation remains available for durable
\* cleanup" (rag-service/ingestion.py:1008).
Tracked(a) ==
  \/ genStatus[a] \in {"none", "deleted"}
  \/ cleanup[a] # "none"
  \/ active[fileOf[a]] = a
  \/ jobGen[fileOf[a]] = a
  \/ Deleted(fileOf[a])

\* The one step that loses track of a generation is the claim that takes a
\* processing file over from an expired lease before it was reconciled.
LostOnlyByTakeover ==
  [][\A a \in Attempt : Tracked(a) /\ ~Tracked(a)' =>
       /\ claims' = claims + 1
       /\ fileStatus[fileOf[a]] = "processing"
       /\ ~leaseLive[fileOf[a]]]_vars

(* Completed, out of attempts, or deleted.                                  *)
Settled(f) ==
  \/ fileStatus[f] = "completed"
  \/ fileStatus[f] = "failed" /\ tries[f] >= MaxAttempts
  \/ Deleted(f)

\* Every stored file settles again and again: no claim, dispatch or cleanup is
\* forgotten, whatever the workers, the RAG service and Redis lose on the way.
EveryFileSettles == \A f \in Files : []<>Settled(f)

\* A requested deletion is eventually carried out, even when workers and
\* generation cleanups are still at work on the file.
DeletionCompletes ==
  \A f \in Files : fileStatus[f] = "deleting" ~> fileStatus[f] = "gone"

=============================================================================
