------------------------------ MODULE MCRepairs ------------------------------
(* TLC instances of the work that outlives its request: cleanup jobs, the   *)
(* deletion of a file that is being ingested, the sessions of a multipart   *)
(* upload. They are independent here; each behaviour is about one of them.  *)
EXTENDS CleanupJobs, TLC

CONSTANTS s1, w2

VARIABLES
    part,   \* what the behaviour is about
    \* FileIngestion
    fileStatus, tries, due, active, jobStatus, jobAttempt, leaseLive, jobGen,
    genStatus, chunks, entries, artifacts, cleanup, deletion, doomed, queued,
    server, rag, fileOf, claims, resets,
    \* MultipartUpload
    file, key, reserved, session, store, parts, late, original, request, sweep,
    clean, confirmed

InSpace == [f \in File |-> s1]

Ingestion == INSTANCE FileIngestion WITH
    Files <- File, NoFile <- NoOne, Deletable <- File, MaxClaims <- 1,
    MaxAttempts <- 1, MaxResets <- 1, index <- entries

Upload == INSTANCE MultipartUpload WITH
    Request <- {w2}, MaxUploads <- 2, object <- original

ingestionVars ==
    <<fileStatus, tries, due, active, jobStatus, jobAttempt, leaseLive, jobGen,
      genStatus, chunks, entries, artifacts, cleanup, deletion, doomed, queued,
      server, rag, fileOf, claims, resets>>

uploadVars == <<file, key, reserved, session, store, parts, late, original, request,
                sweep, clean, confirmed>>

jobParts == {"workers", "spaces", "avatars"}

MCInit ==
    /\ part \in jobParts \cup {"ingestion", "upload"}
    /\ Init /\ Ingestion!Init /\ Upload!Init

(* Two workers with a file and its account, one with a space or avatars.    *)
JobPart ==
    /\ part # "avatars" => \A a \in Avatar : transfer'[a] = transfer[a]
    /\ part = "avatars" => row' = row
    /\ part = "workers" => \A s \in Space : ~DeleteSpace(s)
    /\ part # "workers" => work'[w2] = NoOne

MCNext ==
    \/ /\ part \in jobParts /\ Next /\ JobPart
       /\ UNCHANGED <<part, ingestionVars, uploadVars>>
    \/ /\ part = "ingestion" /\ Ingestion!Next
       /\ UNCHANGED <<part, vars, uploadVars>>
    \/ /\ part = "upload" /\ Upload!Next
       /\ UNCHANGED <<part, vars, ingestionVars>>

MCFairness ==
    \/ part \in jobParts /\ Fairness
    \/ part = "ingestion" /\ Ingestion!Fairness
    \/ part = "upload" /\ Upload!Fairness

MCSpec ==
    /\ MCInit
    /\ [][MCNext]_<<part, vars, ingestionVars, uploadVars>>
    /\ MCFairness

\* What outlives its request comes to its end. Every accepted deletion is
\* carried out, or ends as a job that has used up its attempts, which the
\* operators see (claimCleanupJob, failExhaustedCleanupJobs); the deletion of a
\* file, whatever its ingestion was at (requestFileDeletion, finalizeFileCleanup);
\* and every session of a multipart upload, when the client completes no more
\* (the maintenance sweep).
RepairsEnd == DeletionsSettle /\ Ingestion!DeletionCompletes /\ Upload!SessionsEnd
=============================================================================
