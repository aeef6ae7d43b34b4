------------------------ MODULE FileIngestionProofs ------------------------
(***************************************************************************)
(* Theorems of FileIngestion for every number of files, claims and         *)
(* attempts.  IInv is the inductive invariant; it says which claim a row   *)
(* belongs to, what a job's and a file's status imply for each other, and  *)
(* which parts of a generation exist in each phase of its attempt.         *)
(***************************************************************************)
EXTENDS FileIngestion, TLAPS

Fresh(a) ==
  /\ server[a] = "idle" /\ rag[a] = "idle" /\ fileOf[a] = NoFile

Blank(a) ==
  /\ genStatus[a] = "none" /\ cleanup[a] = "none"
  /\ ~chunks[a] /\ index[a] = "none" /\ ~artifacts[a]

\* Claims are numbered in order; an attempt not drawn yet has done nothing.
ClaimsInOrder ==
  \A a \in Attempt :
    /\ a > claims => Fresh(a) /\ Blank(a)
    /\ a <= claims => fileOf[a] \in Files

\* A file's rows mention only claims of that file, never an older one than
\* what is served, and the job's generation is its own attempt's.
RowsOfClaims ==
  \A f \in Files :
    /\ jobAttempt[f] # None => fileOf[jobAttempt[f]] = f
    /\ active[f] # None => fileOf[active[f]] = f
    /\ active[f] <= jobAttempt[f]
    /\ jobGen[f] \in {None, jobAttempt[f]}
    /\ \A a \in doomed[f] : fileOf[a] = f

\* What job, lease, file and deletion say of one another.
StatusesAgree ==
  \A f \in Files :
    /\ jobAttempt[f] = None <=> jobStatus[f] = "none"
    /\ leaseLive[f] => jobStatus[f] = "processing" /\ fileStatus[f] = "processing"
    /\ jobStatus[f] = "completed" <=> active[f] # None /\ active[f] = jobAttempt[f]
    /\ fileStatus[f] = "completed" => jobStatus[f] = "completed"
    /\ deletion[f] # "none" <=> Deleted(f)
    /\ fileStatus[f] = "processing" => jobAttempt[f] # None

\* How far an attempt's request is tells which parts its generation has.
Before == {"idle", "received", "started"}
Converting == {"bound", "publishing", "published"}
Converted == {"converted", "prepared", "chunked", "writing", "indexed"}

PhaseTellsParts ==
  \A a \in Attempt :
    /\ rag[a] \in Before => Blank(a)
    /\ genStatus[a] = "none" => Blank(a)
    /\ rag[a] \in Converting \cup {"retiring"} =>
         genStatus[a] \in {"converting", "failed", "deleted"}
    /\ rag[a] \in Converted => genStatus[a] \in {"completed", "superseded", "deleted"}
    /\ rag[a] = "published" =>
         artifacts[a] \/ cleanup[a] # "none" \/ Deleted(fileOf[a])
    /\ genStatus[a] = "completed" => artifacts[a] \/ Deleted(fileOf[a])
    /\ rag[a] \in {"chunked", "writing", "indexed"} =>
         chunks[a] \/ genStatus[a] = "deleted"
    /\ rag[a] = "indexed" =>
         index[a] = "full" \/ cleanup[a] # "none" \/ Deleted(fileOf[a])
    /\ cleanup[a] # "none" => genStatus[a] \in Retired \cup {"deleted"}
    /\ Leased(a) => cleanup[a] = "none"

\* What is served is finished work.
ServedIsFinished ==
  \A f \in Files :
    active[f] # None =>
      /\ rag[active[f]] = "ended"
      /\ genStatus[active[f]] = "completed"
      /\ chunks[active[f]]
      /\ index[active[f]] = "full" \/ Deleted(f)

\* A generation that a job still refers to after its file left "processing"
\* has been retired, or is the one that is served.
LeftoversAreRetired ==
  \A f \in Files :
    fileStatus[f] \in {"pending", "completed", "failed"} /\ jobGen[f] # None =>
      \/ cleanup[jobGen[f]] # "none"
      \/ active[f] = jobGen[f]
      \/ genStatus[jobGen[f]] \in {"none", "deleted"}

IInv ==
  /\ TypeOK
  /\ ClaimsInOrder
  /\ RowsOfClaims
  /\ StatusesAgree
  /\ PhaseTellsParts
  /\ ServedIsFinished
  /\ LeftoversAreRetired

-----------------------------------------------------------------------------
(* Type correctness.                                                       *)

\* Retiring a generation keeps the types of what it writes.
LEMMA RetireTypes ==
  ASSUME genStatus \in [Attempt -> GenStatus], cleanup \in [Attempt -> CleanupStep],
         NEW f, NEW g, RetireGeneration(f, g)
  PROVE  genStatus' \in [Attempt -> GenStatus] /\ cleanup' \in [Attempt -> CleanupStep]
<1>. USE DEF GenStatus, CleanupStep
<1>1. CASE UNCHANGED <<genStatus, cleanup>>
  BY <1>1
<1>2. CASE ~UNCHANGED <<genStatus, cleanup>>
  <2>1. cleanup' \in [Attempt -> CleanupStep]
    BY <1>2 DEF RetireGeneration
  <2>2. genStatus' = [genStatus EXCEPT ![g] =
                        CASE @ = "converting" -> "failed"
                          [] @ = "completed" -> "superseded"
                          [] OTHER -> @]
    BY <1>2 DEF RetireGeneration
  <2>3. (CASE genStatus[g] = "converting" -> "failed"
                          [] genStatus[g] = "completed" -> "superseded"
                          [] OTHER -> genStatus[g]) \in {"failed", "superseded", genStatus[g]}
    OBVIOUS
  <2>4. genStatus' \in [Attempt -> GenStatus]
    BY <2>2, <2>3
  <2>. QED BY <2>1, <2>4
<1>. QED BY <1>1, <1>2
\* So does the reconciliation of an attempt.
LEMMA ReconcileTypes ==
  ASSUME TypeOK, NEW f, NEW a, ReconcileAttempt(f, a)
  PROVE  /\ fileStatus' \in [Files -> FileStatus]
         /\ due' \in [Files -> BOOLEAN]
         /\ genStatus' \in [Attempt -> GenStatus]
         /\ cleanup' \in [Attempt -> CleanupStep]
<1>1. CASE UNCHANGED <<fileStatus, due, genStatus, cleanup>>
  BY <1>1 DEF TypeOK
<1>2. CASE /\ fileStatus' = [fileStatus EXCEPT ![f] = "completed"]
           /\ due' = [due EXCEPT ![f] = TRUE]
           /\ UNCHANGED <<genStatus, cleanup>>
  BY <1>2 DEF TypeOK, FileStatus
<1>3. CASE /\ fileStatus' = [fileStatus EXCEPT ![f] = "failed"]
           /\ due' = [due EXCEPT ![f] = tries[f] >= MaxAttempts]
           /\ RetireGeneration(f, jobGen[f])
  <2>1. genStatus' \in [Attempt -> GenStatus] /\ cleanup' \in [Attempt -> CleanupStep]
    BY <1>3, RetireTypes DEF TypeOK
  <2>2. fileStatus' \in [Files -> FileStatus]
    BY <1>3 DEF TypeOK, FileStatus
  <2>3. due' \in [Files -> BOOLEAN]
    <3>1. (tries[f] >= MaxAttempts) \in BOOLEAN
      OBVIOUS
    <3>. QED BY <1>3, <3>1 DEF TypeOK
  <2>. QED BY <2>1, <2>2, <2>3
<1>. QED BY <1>1, <1>2, <1>3 DEF ReconcileAttempt
\* Every step of every actor keeps the types.
LEMMA TypeStep == TypeOK /\ [Next]_vars => TypeOK'
<1>. USE ClaimBound, AttemptBudget, ResetBound, NoFileFresh
     DEF TypeOK, None, Attempt, FileStatus, JobStatus, GenStatus, CleanupStep,
         DeletionStep, ServerPhase, RagPhase, fileVars, jobVars, genVars,
         deleteVars, workVars, countVars
<1>. SUFFICES ASSUME TypeOK, [Next]_vars PROVE TypeOK'
  OBVIOUS
<1>1. ASSUME NEW f \in Files, Dispatch(f) PROVE TypeOK'
  BY <1>1 DEF Dispatch
<1>2. ASSUME NEW f \in Files, LoseMessage(f) PROVE TypeOK'
  BY <1>2 DEF LoseMessage
<1>3. ASSUME NEW f \in Files, Redeliver(f) PROVE TypeOK'
  BY <1>3 DEF Redeliver
<1>4. ASSUME NEW f \in Files, Claim(f) PROVE TypeOK'
  BY <1>4 DEF Claim
<1>5. ASSUME NEW f \in Files, Discard(f) PROVE TypeOK'
  BY <1>5 DEF Discard
<1>6. ASSUME NEW f \in Files, LeaseExpires(f) PROVE TypeOK'
  BY <1>6 DEF LeaseExpires
<1>7. ASSUME NEW f \in Files, DispatcherReconciles(f) PROVE TypeOK'
  <2>1. ReconcileAttempt(f, jobAttempt[f])
    BY <1>7 DEF DispatcherReconciles
  <2>. QED BY <1>7, <2>1, ReconcileTypes DEF DispatcherReconciles
<1>8. ASSUME NEW f \in Files, BackoffElapses(f) PROVE TypeOK'
  BY <1>8 DEF BackoffElapses
<1>9. ASSUME NEW f \in Files, RetryFailedFile(f) PROVE TypeOK'
  BY <1>9 DEF RetryFailedFile, Reset
<1>10. ASSUME NEW f \in Files, QueueForReingestion(f) PROVE TypeOK'
  BY <1>10 DEF QueueForReingestion, Reset
<1>11. ASSUME NEW f \in Files, DeleteFile(f) PROVE TypeOK'
  BY <1>11 DEF DeleteFile, GenerationsOf
<1>12. ASSUME NEW f \in Files, DeletionClearsIndexes(f) PROVE TypeOK'
  BY <1>12 DEF DeletionClearsIndexes
<1>13. ASSUME NEW f \in Files, DeletionClearsObjects(f) PROVE TypeOK'
  BY <1>13 DEF DeletionClearsObjects
<1>14. ASSUME NEW f \in Files, FinalizeDeletion(f) PROVE TypeOK'
  BY <1>14 DEF FinalizeDeletion, GenerationsOf
<1>15. ASSUME NEW a \in Attempt, RequestEnds(a) PROVE TypeOK'
  BY <1>15 DEF RequestEnds
<1>16. ASSUME NEW a \in Attempt, RequestRefused(a) PROVE TypeOK'
  <2>1. CASE UNCHANGED <<jobStatus, leaseLive>>
    BY <1>16, <2>1 DEF RequestRefused
  <2>2. CASE /\ jobStatus' = [jobStatus EXCEPT ![fileOf[a]] = "failed"]
             /\ leaseLive' = [leaseLive EXCEPT ![fileOf[a]] = FALSE]
    BY <1>16, <2>2 DEF RequestRefused
  <2>. QED BY <1>16, <2>1, <2>2 DEF RequestRefused
<1>17. ASSUME NEW a \in Attempt, WorkerReconciles(a) PROVE TypeOK'
  <2>1. ReconcileAttempt(fileOf[a], a)
    BY <1>17 DEF WorkerReconciles
  <2>. QED BY <1>17, <2>1, ReconcileTypes DEF WorkerReconciles
<1>18. ASSUME NEW a \in Attempt, ServerCrashes(a) PROVE TypeOK'
  BY <1>18 DEF ServerCrashes
<1>19. ASSUME NEW a \in Attempt, RagReceives(a) PROVE TypeOK'
  BY <1>19 DEF RagReceives, Advance
<1>20. ASSUME NEW a \in Attempt, StartIngestionJob(a) PROVE TypeOK'
  BY <1>20 DEF StartIngestionJob, Advance
<1>21. ASSUME NEW a \in Attempt, CreateConversionGeneration(a) PROVE TypeOK'
  BY <1>21 DEF CreateConversionGeneration, Advance
<1>22. ASSUME NEW a \in Attempt, Convert(a) PROVE TypeOK'
  BY <1>22 DEF Convert, Advance
<1>23. ASSUME NEW a \in Attempt, UploadArtifacts(a) PROVE TypeOK'
  BY <1>23 DEF UploadArtifacts, Advance
<1>24. ASSUME NEW a \in Attempt, CompleteConversionGeneration(a) PROVE TypeOK'
  BY <1>24 DEF CompleteConversionGeneration, Advance
<1>25. ASSUME NEW a \in Attempt, PrepareIndexes(a) PROVE TypeOK'
  BY <1>25 DEF PrepareIndexes, Advance
<1>26. ASSUME NEW a \in Attempt, ReplaceFileChunks(a) PROVE TypeOK'
  BY <1>26 DEF ReplaceFileChunks, Advance
<1>27. ASSUME NEW a \in Attempt, AssertBatchLease(a) PROVE TypeOK'
  BY <1>27 DEF AssertBatchLease, Advance
<1>28. ASSUME NEW a \in Attempt, IndexChunkBatch(a) PROVE TypeOK'
  <2>1. CASE /\ index' = [index EXCEPT ![a] = "partial"]
             /\ rag' = [rag EXCEPT ![a] = "chunked"]
    BY <1>28, <2>1 DEF IndexChunkBatch
  <2>2. CASE /\ index' = [index EXCEPT ![a] = "full"]
             /\ rag' = [rag EXCEPT ![a] = "indexed"]
    BY <1>28, <2>2 DEF IndexChunkBatch
  <2>. QED BY <1>28, <2>1, <2>2 DEF IndexChunkBatch
<1>29. ASSUME NEW a \in Attempt, ActivateGeneration(a) PROVE TypeOK'
  <2>1. CASE active[fileOf[a]] \in Attempt \ {a}
    <3>1. genStatus' = [genStatus EXCEPT ![active[fileOf[a]]] = "superseded"]
      BY <1>29, <2>1 DEF ActivateGeneration
    <3>2. cleanup' = [cleanup EXCEPT ![active[fileOf[a]]] =
                        IF @ = "none" THEN "queued" ELSE @]
      BY <1>29, <2>1 DEF ActivateGeneration
    <3>3. genStatus' \in [Attempt -> GenStatus]
      BY <3>1
    <3>4. cleanup' \in [Attempt -> CleanupStep]
      BY <3>2
    <3>. QED BY <1>29, <3>3, <3>4 DEF ActivateGeneration, Advance
  <2>2. CASE active[fileOf[a]] \notin Attempt \ {a}
    <3>1. UNCHANGED <<genStatus, cleanup>>
      BY <1>29, <2>2 DEF ActivateGeneration
    <3>. QED BY <1>29, <3>1 DEF ActivateGeneration, Advance
  <2>. QED BY <2>1, <2>2
<1>30. ASSUME NEW a \in Attempt, StepFails(a) PROVE TypeOK'
  <2>1. rag' \in [Attempt -> RagPhase] /\ artifacts' \in [Attempt -> BOOLEAN]
    BY ZenonT(30), <1>30 DEF StepFails
  <2>. QED BY <1>30, <2>1 DEF StepFails
<1>31. ASSUME NEW a \in Attempt, FailConversionGeneration(a) PROVE TypeOK'
  BY <1>31 DEF FailConversionGeneration, Advance
<1>32. ASSUME NEW a \in Attempt, FailIngestionJob(a) PROVE TypeOK'
  BY <1>32 DEF FailIngestionJob, Advance
<1>33. ASSUME NEW a \in Attempt, RagStops(a) PROVE TypeOK'
  BY <1>33 DEF RagStops
<1>34. ASSUME NEW a \in Attempt, CleanupReadsGeneration(a) PROVE TypeOK'
  BY SMTT(30), <1>34 DEF CleanupReadsGeneration, Advance
<1>35. ASSUME NEW a \in Attempt, CleanupDeletesIndex(a) PROVE TypeOK'
  BY <1>35 DEF CleanupDeletesIndex, Advance
<1>36. ASSUME NEW a \in Attempt, CleanupDeletesObjects(a) PROVE TypeOK'
  BY <1>36 DEF CleanupDeletesObjects, Advance
<1>37. ASSUME NEW a \in Attempt, FinalizeGenerationCleanup(a) PROVE TypeOK'
  BY <1>37 DEF FinalizeGenerationCleanup, Advance
<1>38. CASE UNCHANGED vars
  BY <1>38 DEF vars
<1>. QED
  BY <1>1, <1>2, <1>3, <1>4, <1>5, <1>6, <1>7, <1>8, <1>9, <1>10, <1>11, <1>12, <1>13,
     <1>14, <1>15, <1>16, <1>17, <1>18, <1>19, <1>20, <1>21, <1>22, <1>23, <1>24, <1>25,
     <1>26, <1>27, <1>28, <1>29, <1>30, <1>31, <1>32, <1>33, <1>34, <1>35, <1>36, <1>37,
     <1>38
  DEF Next, ServerStep, UserStep, WorkerStep, RagStep, CleanupStepOf

\* Every variable keeps its type.
THEOREM TypeCorrect == Spec => []TypeOK
<1>1. Init => TypeOK
  BY ClaimBound, AttemptBudget, ResetBound
  DEF Init, TypeOK, None, Attempt, FileStatus, JobStatus, GenStatus, CleanupStep,
      DeletionStep, ServerPhase, RagPhase
<1>. QED
  BY <1>1, TypeStep, PTL DEF Spec

-----------------------------------------------------------------------------
(* The inductive invariant.                                                *)

\* What retiring generation g of file f does to a generation b: a status only
\* moves towards retirement, and one that is not served is recorded for cleanup.
LEMMA RetireEffect ==
  ASSUME TypeOK, NEW f, NEW g, RetireGeneration(f, g), NEW b \in Attempt
  PROVE  /\ b # g \/ active[f] = g => genStatus'[b] = genStatus[b] /\ cleanup'[b] = cleanup[b]
         /\ genStatus[b] \in {"none", "deleted"} =>
              genStatus'[b] = genStatus[b] /\ cleanup'[b] = cleanup[b]
         /\ genStatus[b] \in Retired => genStatus'[b] = genStatus[b]
         /\ genStatus[b] = "converting" => genStatus'[b] \in {"converting", "failed"}
         /\ genStatus[b] = "completed" => genStatus'[b] \in {"completed", "superseded"}
         /\ cleanup[b] # "none" => cleanup'[b] = cleanup[b]
         /\ cleanup'[b] # cleanup[b] => genStatus'[b] \in Retired
         /\ b = g /\ active[f] # g /\ genStatus[b] \notin {"none", "deleted"} =>
              cleanup'[b] # "none"
<1>. USE DEF TypeOK, Retired, GenStatus, CleanupStep
<1>1. CASE b # g \/ active[f] = g \/ genStatus[g] \in {"none", "deleted"}
  BY <1>1 DEF RetireGeneration, None
<1>2. CASE b = g /\ active[f] # g /\ genStatus[g] \notin {"none", "deleted"}
  <2>1. /\ genStatus' = [genStatus EXCEPT ![g] =
                            CASE @ = "converting" -> "failed"
                              [] @ = "completed" -> "superseded"
                              [] OTHER -> @]
        /\ cleanup' = [cleanup EXCEPT ![g] = IF @ = "none" THEN "queued" ELSE @]
    BY <1>2 DEF RetireGeneration, None, Attempt
  <2>2. genStatus[b] \in {"converting", "completed", "failed", "superseded"}
    BY <1>2
  <2>. QED BY <1>2, <2>1, <2>2
<1>. QED BY <1>1, <1>2

\* What a reconciliation writes is a status, and perhaps the retirement of
\* the generation of an attempt whose lease is no longer live.
LEMMA ReconcileKeeps ==
  ASSUME IInv, TypeOK', NEW f \in Files, NEW a, ReconcileAttempt(f, a),
         UNCHANGED <<active, jobVars, chunks, index, artifacts, deleteVars, rag, countVars>>
  PROVE  /\ \A b \in Attempt : b > claims => Blank(b)'
         /\ StatusesAgree' /\ PhaseTellsParts' /\ ServedIsFinished' /\ LeftoversAreRetired'
<1>. USE NoFileFresh DEF None, Attempt, jobVars, deleteVars, countVars, IInv, TypeOK
<1>1. CASE UNCHANGED <<fileStatus, due, genStatus, cleanup>>
  BY SMTT(30), <1>1 DEF ClaimsInOrder, StatusesAgree, PhaseTellsParts, ServedIsFinished,
     LeftoversAreRetired, Blank, Deleted, Leased, Holds
<1>2. CASE /\ fileStatus[f] = "processing" /\ Holds(f, a) /\ jobStatus[f] = "completed"
           /\ fileStatus' = [fileStatus EXCEPT ![f] = "completed"]
           /\ UNCHANGED <<genStatus, cleanup>>
  <2>1. \A e \in Files : Deleted(e)' <=> Deleted(e)
    BY <1>2 DEF Deleted
  <2>2. \A b \in Attempt : b <= claims => (Deleted(fileOf[b])' <=> Deleted(fileOf[b]))
    BY <2>1 DEF ClaimsInOrder
  <2>3. \A b \in Attempt : Leased(b)' <=> Leased(b)
    BY <1>2 DEF Leased, Holds
  <2>4. \A b \in Attempt : b > claims => Blank(b)'
    BY <1>2 DEF ClaimsInOrder, Blank
  <2>5. StatusesAgree'
    BY <1>2, <2>1 DEF StatusesAgree
  <2>6. PhaseTellsParts'
    <3>1. \A b \in Attempt : b > claims =>
             rag[b] = "idle" /\ cleanup[b] = "none" /\ genStatus[b] = "none" /\ Blank(b)'
      BY <2>4 DEF ClaimsInOrder, Fresh, Blank
    <3>. QED BY <1>2, <2>2, <2>3, <3>1
      DEF PhaseTellsParts, Blank, Before, Converting, Converted
  <2>7. ServedIsFinished'
    BY <1>2, <2>1 DEF ServedIsFinished
  <2>8. LeftoversAreRetired'
    BY <1>2 DEF LeftoversAreRetired, StatusesAgree, RowsOfClaims
  <2>. QED BY <2>4, <2>5, <2>6, <2>7, <2>8
<1>3. CASE /\ fileStatus[f] = "processing" /\ Holds(f, a) /\ jobStatus[f] # "completed"
           /\ ~(jobStatus[f] = "processing" /\ leaseLive[f])
           /\ fileStatus' = [fileStatus EXCEPT ![f] = "failed"]
           /\ RetireGeneration(f, jobGen[f])
  <2>1. \A e \in Files : Deleted(e)' <=> Deleted(e)
    BY <1>3 DEF Deleted
  <2>2. \A b \in Attempt : b <= claims => (Deleted(fileOf[b])' <=> Deleted(fileOf[b]))
    BY <2>1 DEF ClaimsInOrder
  <2>3. \A b \in Attempt : Leased(b)' <=> Leased(b)
    BY <1>3 DEF Leased, Holds
  <2>4. jobGen[f] # None => ~Leased(jobGen[f]) /\ fileOf[jobGen[f]] = f
    BY <1>3 DEF Leased, Holds, RowsOfClaims
  <2>5. \A b \in Attempt : b > claims => Blank(b)'
    BY <1>3, RetireEffect DEF ClaimsInOrder, Blank
  <2>6. StatusesAgree'
    BY <1>3, <2>1 DEF StatusesAgree
  <2>7. PhaseTellsParts'
    <3>1. \A b \in Attempt : b > claims =>
             rag[b] = "idle" /\ genStatus'[b] = "none" /\ cleanup'[b] = "none" /\ Blank(b)'
      BY <2>5 DEF ClaimsInOrder, Fresh, Blank
    <3>2. \A b \in Attempt : rag[b] \in Before \/ genStatus'[b] = "none" => Blank(b)'
      BY ZenonT(30), <1>3, RetireEffect DEF PhaseTellsParts, Blank, GenStatus, Retired
    <3>3. \A b \in Attempt :
            /\ rag[b] \in Converting \cup {"retiring"} =>
                 genStatus'[b] \in {"converting", "failed", "deleted"}
            /\ rag[b] \in Converted => genStatus'[b] \in {"completed", "superseded", "deleted"}
            /\ genStatus'[b] = "completed" => genStatus[b] = "completed"
            /\ genStatus[b] = "deleted" => genStatus'[b] = "deleted"
            /\ cleanup[b] # "none" => cleanup'[b] # "none"
            /\ cleanup'[b] # "none" => genStatus'[b] \in Retired \cup {"deleted"}
            /\ Leased(b) => cleanup'[b] = cleanup[b]
      BY <1>3, <2>4, RetireEffect DEF PhaseTellsParts, GenStatus, Retired
    <3>. QED BY <2>2, <2>3, <3>1, <3>2, <3>3 DEF PhaseTellsParts
  <2>8. ServedIsFinished'
    <3>1. \A e \in Files : active[e] # None => active[e] # jobGen[f] \/ active[f] = jobGen[f]
      BY <2>4 DEF RowsOfClaims
    <3>. QED BY <1>3, <2>1, <3>1, RetireEffect DEF ServedIsFinished
  <2>9. LeftoversAreRetired'
    <3>1. \A e \in Files : jobGen[e] # None /\ cleanup[jobGen[e]] # "none" =>
                             cleanup'[jobGen[e]] # "none"
      BY <1>3, RetireEffect, SMTT(20)
    <3>2. \A e \in Files : jobGen[e] # None /\ genStatus[jobGen[e]] \in {"none", "deleted"} =>
                             genStatus'[jobGen[e]] \in {"none", "deleted"}
      BY <1>3, RetireEffect, SMTT(20)
    <3>3. jobGen[f] # None => \/ cleanup'[jobGen[f]] # "none" \/ active[f] = jobGen[f]
                              \/ genStatus'[jobGen[f]] \in {"none", "deleted"}
      <4>1. CASE jobGen[f] \in Attempt /\ genStatus[jobGen[f]] \in {"none", "deleted"}
        BY <1>3, <4>1, RetireEffect
      <4>2. CASE jobGen[f] \in Attempt /\ genStatus[jobGen[f]] \notin {"none", "deleted"}
        BY <1>3, <4>2, RetireEffect
      <4>. QED BY <4>1, <4>2
    <3>. QED BY <1>3, <3>1, <3>2, <3>3 DEF LeftoversAreRetired
  <2>. QED BY <2>5, <2>6, <2>7, <2>8, <2>9
<1>. QED BY <1>1, <1>2, <1>3 DEF ReconcileAttempt

\* Every step keeps the inductive invariant.
LEMMA InductiveStep == IInv /\ [Next]_vars => IInv'
<1>. SUFFICES ASSUME IInv, [Next]_vars PROVE IInv'
  OBVIOUS
<1>. USE ClaimBound, AttemptBudget, NoFileFresh
     DEF None, Attempt, fileVars, jobVars, genVars, deleteVars, workVars, countVars
<1>t. TypeOK /\ TypeOK'
  BY TypeStep DEF IInv
<1>1. ASSUME NEW f \in Files, Dispatch(f) PROVE IInv'
  <2>1. ClaimsInOrder' /\ RowsOfClaims' /\ StatusesAgree' /\ PhaseTellsParts' /\ ServedIsFinished' /\ LeftoversAreRetired'
    BY <1>1
      DEF IInv, Dispatch, ClaimsInOrder, RowsOfClaims, StatusesAgree, PhaseTellsParts,
          ServedIsFinished, LeftoversAreRetired, Fresh, Blank, Deleted, Before, Converting,
          Converted, Leased, Holds, Retired
  <2>. QED BY <1>t, <2>1 DEF IInv
<1>2. ASSUME NEW f \in Files, LoseMessage(f) PROVE IInv'
  <2>1. ClaimsInOrder' /\ RowsOfClaims' /\ StatusesAgree' /\ PhaseTellsParts' /\ ServedIsFinished' /\ LeftoversAreRetired'
    BY <1>2
      DEF IInv, LoseMessage, ClaimsInOrder, RowsOfClaims, StatusesAgree, PhaseTellsParts,
          ServedIsFinished, LeftoversAreRetired, Fresh, Blank, Deleted, Before, Converting,
          Converted, Leased, Holds, Retired
  <2>. QED BY <1>t, <2>1 DEF IInv
<1>3. ASSUME NEW f \in Files, Redeliver(f) PROVE IInv'
  <2>1. ClaimsInOrder' /\ RowsOfClaims' /\ StatusesAgree' /\ PhaseTellsParts' /\ ServedIsFinished' /\ LeftoversAreRetired'
    BY <1>3
      DEF IInv, Redeliver, ClaimsInOrder, RowsOfClaims, StatusesAgree, PhaseTellsParts,
          ServedIsFinished, LeftoversAreRetired, Fresh, Blank, Deleted, Before, Converting,
          Converted, Leased, Holds, Retired
  <2>. QED BY <1>t, <2>1 DEF IInv
<1>4. ASSUME NEW f \in Files, Claim(f) PROVE IInv'
  <2>1. ClaimsInOrder'
    BY <1>4, <1>t DEF IInv, TypeOK, Claim, Dispatchable, ClaimsInOrder, Fresh, Blank
  <2>2. RowsOfClaims'
    BY <1>4, <1>t DEF IInv, TypeOK, Claim, Dispatchable, RowsOfClaims, ClaimsInOrder, Fresh
  <2>3. StatusesAgree'
    <3>1. \A e \in Files : active[e] # claims + 1
      <4>1. claims + 1 \in Attempt /\ claims + 1 > claims
        BY <1>4, <1>t DEF Claim, TypeOK
      <4>2. fileOf[claims + 1] = NoFile
        BY <4>1 DEF IInv, ClaimsInOrder, Fresh
      <4>. QED BY <4>1, <4>2 DEF IInv, RowsOfClaims
    <3>2. \A e \in Files : Deleted(e)' <=> Deleted(e)
      BY <1>4, <1>t DEF Claim, Dispatchable, Deleted, TypeOK
    <3>. QED BY <1>4, <1>t, <3>1, <3>2 DEF IInv, TypeOK, Claim, StatusesAgree
  <2>4. PhaseTellsParts'
    BY <1>4, <1>t
      DEF IInv, TypeOK, Claim, Dispatchable, PhaseTellsParts, Blank, Before, Converting,
          Converted, Deleted, Leased, Holds, Retired, ClaimsInOrder, Fresh, RowsOfClaims,
          StatusesAgree
  <2>5. ServedIsFinished'
    BY <1>4, <1>t DEF IInv, TypeOK, Claim, Dispatchable, ServedIsFinished, Deleted
  <2>6. LeftoversAreRetired'
    BY <1>4, <1>t DEF IInv, TypeOK, Claim, Dispatchable, LeftoversAreRetired
  <2>. QED BY <1>t, <2>1, <2>2, <2>3, <2>4, <2>5, <2>6 DEF IInv
<1>5. ASSUME NEW f \in Files, Discard(f) PROVE IInv'
  <2>1. ClaimsInOrder' /\ RowsOfClaims' /\ StatusesAgree' /\ PhaseTellsParts' /\ ServedIsFinished' /\ LeftoversAreRetired'
    BY <1>5
      DEF IInv, Discard, ClaimsInOrder, RowsOfClaims, StatusesAgree, PhaseTellsParts,
          ServedIsFinished, LeftoversAreRetired, Fresh, Blank, Deleted, Before, Converting,
          Converted, Leased, Holds, Retired
  <2>. QED BY <1>t, <2>1 DEF IInv
<1>6. ASSUME NEW f \in Files, LeaseExpires(f) PROVE IInv'
  <2>1. ClaimsInOrder' /\ RowsOfClaims' /\ ServedIsFinished' /\ LeftoversAreRetired'
    BY <1>6
      DEF IInv, LeaseExpires, ClaimsInOrder, RowsOfClaims, ServedIsFinished,
          LeftoversAreRetired, Fresh, Blank, Deleted
  <2>2. StatusesAgree'
    BY <1>6, <1>t DEF IInv, TypeOK, LeaseExpires, StatusesAgree, Deleted
  <2>3. PhaseTellsParts'
    BY <1>6, <1>t
      DEF IInv, TypeOK, LeaseExpires, PhaseTellsParts, Blank, Before, Converting,
          Converted, Deleted, Leased, Holds, Retired
  <2>. QED BY <1>t, <2>1, <2>2, <2>3 DEF IInv
<1>7. ASSUME NEW f \in Files, DispatcherReconciles(f) PROVE IInv'
  <2>1. UNCHANGED <<active, jobVars, chunks, index, artifacts, deleteVars, rag, countVars>>
    BY <1>7 DEF DispatcherReconciles, workVars
  <2>2. ReconcileAttempt(f, jobAttempt[f])
    BY <1>7 DEF DispatcherReconciles, StatusesAgree, ClaimsInOrder, Fresh, IInv
  <2>3. ClaimsInOrder'
    <3>1. \A b \in Attempt : b > claims => Blank(b)'
      BY <1>t, <2>1, <2>2, ReconcileKeeps
    <3>. QED BY <1>7, <1>t, <3>1
      DEF DispatcherReconciles, IInv, TypeOK, ClaimsInOrder, Fresh
  <2>4. RowsOfClaims'
    BY <2>1 DEF IInv, RowsOfClaims
  <2>. QED BY <1>t, <2>1, <2>2, <2>3, <2>4, ReconcileKeeps DEF IInv
<1>8. ASSUME NEW f \in Files, BackoffElapses(f) PROVE IInv'
  <2>1. ClaimsInOrder' /\ RowsOfClaims' /\ StatusesAgree' /\ PhaseTellsParts' /\ ServedIsFinished' /\ LeftoversAreRetired'
    BY <1>8
      DEF IInv, BackoffElapses, ClaimsInOrder, RowsOfClaims, StatusesAgree,
          PhaseTellsParts, ServedIsFinished, LeftoversAreRetired, Fresh, Blank, Deleted,
          Before, Converting, Converted, Leased, Holds, Retired
  <2>. QED BY <1>t, <2>1 DEF IInv
<1>9. ASSUME NEW f \in Files, RetryFailedFile(f) PROVE IInv'
  <2>1. ClaimsInOrder' /\ RowsOfClaims'
    BY <1>9 DEF IInv, RetryFailedFile, Reset, ClaimsInOrder, RowsOfClaims, Fresh, Blank
  <2>2. StatusesAgree'
    BY <1>9, <1>t DEF IInv, TypeOK, RetryFailedFile, Reset, StatusesAgree, Deleted
  <2>3. PhaseTellsParts'
    BY <1>9, <1>t
      DEF IInv, TypeOK, RetryFailedFile, Reset, PhaseTellsParts, Blank, Before,
          Converting, Converted, Deleted, Leased, Holds, Retired
  <2>4. ServedIsFinished'
    BY <1>9, <1>t DEF IInv, TypeOK, RetryFailedFile, Reset, ServedIsFinished, Deleted
  <2>5. LeftoversAreRetired'
    BY <1>9, <1>t DEF IInv, TypeOK, RetryFailedFile, Reset, LeftoversAreRetired
  <2>. QED BY <1>t, <2>1, <2>2, <2>3, <2>4, <2>5 DEF IInv
<1>10. ASSUME NEW f \in Files, QueueForReingestion(f) PROVE IInv'
  <2>1. ClaimsInOrder' /\ RowsOfClaims'
    BY <1>10 DEF IInv, QueueForReingestion, Reset, ClaimsInOrder, RowsOfClaims, Fresh, Blank
  <2>2. StatusesAgree'
    BY <1>10, <1>t DEF IInv, TypeOK, QueueForReingestion, Reset, StatusesAgree, Deleted
  <2>3. PhaseTellsParts'
    BY <1>10, <1>t
      DEF IInv, TypeOK, QueueForReingestion, Reset, PhaseTellsParts, Blank, Before,
          Converting, Converted, Deleted, Leased, Holds, Retired
  <2>4. ServedIsFinished'
    BY <1>10, <1>t DEF IInv, TypeOK, QueueForReingestion, Reset, ServedIsFinished, Deleted
  <2>5. LeftoversAreRetired'
    BY <1>10, <1>t DEF IInv, TypeOK, QueueForReingestion, Reset, LeftoversAreRetired
  <2>. QED BY <1>t, <2>1, <2>2, <2>3, <2>4, <2>5 DEF IInv
<1>11. ASSUME NEW f \in Files, DeleteFile(f) PROVE IInv'
  <2>1. ClaimsInOrder'
    BY <1>11 DEF IInv, DeleteFile, GenerationsOf, Deleted, ClaimsInOrder, Fresh, Blank
  <2>2. RowsOfClaims'
    BY <1>11, <1>t DEF IInv, TypeOK, DeleteFile, GenerationsOf, Deleted, RowsOfClaims
  <2>3. StatusesAgree'
    BY <1>11, <1>t DEF IInv, TypeOK, DeleteFile, GenerationsOf, Deleted, StatusesAgree
  <2>4. PhaseTellsParts'
    BY <1>11, <1>t
      DEF IInv, TypeOK, DeleteFile, GenerationsOf, Deleted, PhaseTellsParts, Blank,
          Before, Converting, Converted, Leased, Holds, Retired
  <2>5. ServedIsFinished'
    BY <1>11, <1>t DEF IInv, TypeOK, DeleteFile, GenerationsOf, Deleted, ServedIsFinished
  <2>6. LeftoversAreRetired'
    BY <1>11, <1>t DEF IInv, TypeOK, DeleteFile, GenerationsOf, Deleted, LeftoversAreRetired
  <2>. QED BY <1>t, <2>1, <2>2, <2>3, <2>4, <2>5, <2>6 DEF IInv
<1>12. ASSUME NEW f \in Files, DeletionClearsIndexes(f) PROVE IInv'
  <2>1. RowsOfClaims' /\ LeftoversAreRetired'
    BY <1>12 DEF IInv, DeletionClearsIndexes, RowsOfClaims, LeftoversAreRetired
  <2>2. ClaimsInOrder'
    BY <1>12, <1>t DEF IInv, TypeOK, DeletionClearsIndexes, ClaimsInOrder, Fresh, Blank
  <2>3. StatusesAgree'
    BY <1>12, <1>t DEF IInv, TypeOK, DeletionClearsIndexes, StatusesAgree, Deleted
  <2>4. PhaseTellsParts'
    BY <1>12, <1>t
      DEF IInv, TypeOK, DeletionClearsIndexes, PhaseTellsParts, Blank, Before, Converting,
          Converted, Deleted, Leased, Holds, Retired, StatusesAgree
  <2>5. ServedIsFinished'
    BY <1>12, <1>t
      DEF IInv, TypeOK, DeletionClearsIndexes, ServedIsFinished, Deleted, StatusesAgree,
          RowsOfClaims
  <2>. QED BY <1>t, <2>1, <2>2, <2>3, <2>4, <2>5 DEF IInv
<1>13. ASSUME NEW f \in Files, DeletionClearsObjects(f) PROVE IInv'
  <2>1. RowsOfClaims' /\ ServedIsFinished' /\ LeftoversAreRetired'
    BY <1>13
      DEF IInv, DeletionClearsObjects, RowsOfClaims, ServedIsFinished,
          LeftoversAreRetired, Deleted
  <2>2. ClaimsInOrder'
    BY <1>13, <1>t DEF IInv, TypeOK, DeletionClearsObjects, ClaimsInOrder, Fresh, Blank
  <2>3. StatusesAgree'
    BY <1>13, <1>t DEF IInv, TypeOK, DeletionClearsObjects, StatusesAgree, Deleted
  <2>4. PhaseTellsParts'
    BY <1>13, <1>t
      DEF IInv, TypeOK, DeletionClearsObjects, PhaseTellsParts, Blank, Before, Converting,
          Converted, Deleted, Leased, Holds, Retired, StatusesAgree, RowsOfClaims
  <2>. QED BY <1>t, <2>1, <2>2, <2>3, <2>4 DEF IInv
<1>14. ASSUME NEW f \in Files, FinalizeDeletion(f) PROVE IInv'
  <2>1. ClaimsInOrder'
    BY <1>14, <1>t
      DEF IInv, TypeOK, FinalizeDeletion, GenerationsOf, ClaimsInOrder, Fresh, Blank
  <2>2. RowsOfClaims'
    BY <1>14, <1>t DEF IInv, TypeOK, FinalizeDeletion, GenerationsOf, RowsOfClaims
  <2>3. StatusesAgree'
    BY <1>14, <1>t DEF IInv, TypeOK, FinalizeDeletion, GenerationsOf, StatusesAgree, Deleted
  <2>4. PhaseTellsParts'
    BY <1>14, <1>t
      DEF IInv, TypeOK, FinalizeDeletion, GenerationsOf, PhaseTellsParts, Blank, Before,
          Converting, Converted, Deleted, Leased, Holds, Retired
  <2>5. ServedIsFinished'
    BY <1>14, <1>t
      DEF IInv, TypeOK, FinalizeDeletion, GenerationsOf, ServedIsFinished, Deleted,
          RowsOfClaims
  <2>6. LeftoversAreRetired'
    BY <1>14, <1>t DEF IInv, TypeOK, FinalizeDeletion, GenerationsOf, LeftoversAreRetired
  <2>. QED BY <1>t, <2>1, <2>2, <2>3, <2>4, <2>5, <2>6 DEF IInv
<1>15. ASSUME NEW a \in Attempt, RequestEnds(a) PROVE IInv'
  <2>1. RowsOfClaims' /\ StatusesAgree' /\ PhaseTellsParts' /\ ServedIsFinished' /\ LeftoversAreRetired'
    BY <1>15
      DEF IInv, RequestEnds, RowsOfClaims, StatusesAgree, PhaseTellsParts,
          ServedIsFinished, LeftoversAreRetired, Deleted, Blank, Before, Converting,
          Converted, Leased, Holds, Retired
  <2>2. ClaimsInOrder'
    BY <1>15, <1>t DEF IInv, TypeOK, RequestEnds, ClaimsInOrder, Fresh, Blank
  <2>. QED BY <1>t, <2>1, <2>2 DEF IInv
<1>16. ASSUME NEW a \in Attempt, RequestRefused(a) PROVE IInv'
  <2>1. RowsOfClaims' /\ LeftoversAreRetired'
    BY <1>16 DEF IInv, RequestRefused, Holds, RowsOfClaims, LeftoversAreRetired
  <2>2. ClaimsInOrder'
    BY <1>16, <1>t DEF IInv, TypeOK, RequestRefused, Holds, ClaimsInOrder, Fresh, Blank
  <2>3. StatusesAgree'
    BY <1>16, <1>t DEF IInv, TypeOK, RequestRefused, Holds, StatusesAgree, Deleted
  <2>4. PhaseTellsParts'
    <3>1. \A b \in Attempt : Leased(b)' => Leased(b)
      BY <1>16, <1>t DEF RequestRefused, Holds, Leased, IInv, TypeOK
    <3>2. \A b \in Attempt : Deleted(fileOf[b])' <=> Deleted(fileOf[b])
      BY <1>16 DEF RequestRefused, Deleted
    <3>3. \A b \in Attempt : rag'[b] = rag[b] \/ rag'[b] = "ended"
      BY <1>16, <1>t DEF RequestRefused, IInv, TypeOK
    <3>. QED BY <1>16, <3>1, <3>2, <3>3 DEF RequestRefused, IInv, PhaseTellsParts, Blank,
               Before, Converting, Converted
  <2>5. ServedIsFinished'
    BY <1>16, <1>t DEF IInv, TypeOK, RequestRefused, Holds, ServedIsFinished, Deleted
  <2>. QED BY <1>t, <2>1, <2>2, <2>3, <2>4, <2>5 DEF IInv
<1>17. ASSUME NEW a \in Attempt, WorkerReconciles(a) PROVE IInv'
  <2>1. UNCHANGED <<active, jobVars, chunks, index, artifacts, deleteVars, rag, countVars>>
    BY <1>17 DEF WorkerReconciles, workVars
  <2>2. fileOf[a] \in Files /\ ReconcileAttempt(fileOf[a], a)
    <3>1. server[a] # "idle"
      BY <1>17 DEF WorkerReconciles
    <3>2. a <= claims
      BY <3>1 DEF IInv, TypeOK, ClaimsInOrder, Fresh
    <3>. QED BY <1>17, <3>2 DEF WorkerReconciles, IInv, ClaimsInOrder
  <2>3. ClaimsInOrder'
    <3>1. \A b \in Attempt : b > claims => Blank(b)'
      BY <1>t, <2>1, <2>2, ReconcileKeeps
    <3>. QED BY <1>17, <1>t, <3>1 DEF WorkerReconciles, IInv, TypeOK, ClaimsInOrder, Fresh
  <2>4. RowsOfClaims'
    BY <2>1 DEF IInv, RowsOfClaims
  <2>. QED BY <1>t, <2>1, <2>2, <2>3, <2>4, ReconcileKeeps DEF IInv
<1>18. ASSUME NEW a \in Attempt, ServerCrashes(a) PROVE IInv'
  <2>1. RowsOfClaims' /\ StatusesAgree' /\ PhaseTellsParts' /\ ServedIsFinished' /\ LeftoversAreRetired'
    BY <1>18
      DEF IInv, ServerCrashes, RowsOfClaims, StatusesAgree, PhaseTellsParts,
          ServedIsFinished, LeftoversAreRetired, Deleted, Blank, Before, Converting,
          Converted, Leased, Holds, Retired
  <2>2. ClaimsInOrder'
    BY <1>18, <1>t DEF IInv, TypeOK, ServerCrashes, ClaimsInOrder, Fresh, Blank
  <2>. QED BY <1>t, <2>1, <2>2 DEF IInv
<1>19. ASSUME NEW a \in Attempt, RagReceives(a) PROVE IInv'
  <2>1. RowsOfClaims' /\ StatusesAgree' /\ LeftoversAreRetired'
    BY <1>19
      DEF IInv, RagReceives, Advance, RowsOfClaims, StatusesAgree, LeftoversAreRetired,
          Deleted
  <2>2. ClaimsInOrder'
    BY <1>19, <1>t DEF IInv, TypeOK, RagReceives, Advance, ClaimsInOrder, Fresh, Blank
  <2>3. PhaseTellsParts'
    BY <1>19, <1>t
      DEF IInv, TypeOK, RagReceives, Advance, PhaseTellsParts, Blank, Before, Converting,
          Converted, Deleted, Leased, Holds, Retired
  <2>4. ServedIsFinished'
    BY <1>19, <1>t DEF IInv, TypeOK, RagReceives, Advance, ServedIsFinished, Deleted
  <2>. QED BY <1>t, <2>1, <2>2, <2>3, <2>4 DEF IInv
<1>20. ASSUME NEW a \in Attempt, StartIngestionJob(a) PROVE IInv'
  <2>1. StatusesAgree'
    BY <1>20 DEF IInv, StartIngestionJob, Advance, Leased, Holds, StatusesAgree, Deleted
  <2>2. ClaimsInOrder'
    BY <1>20, <1>t
      DEF IInv, TypeOK, StartIngestionJob, Advance, Leased, Holds, ClaimsInOrder, Fresh,
          Blank
  <2>3. RowsOfClaims'
    BY <1>20, <1>t DEF IInv, TypeOK, StartIngestionJob, Advance, Leased, Holds, RowsOfClaims
  <2>4. PhaseTellsParts'
    BY <1>20, <1>t
      DEF IInv, TypeOK, StartIngestionJob, Advance, Leased, Holds, PhaseTellsParts, Blank,
          Before, Converting, Converted, Deleted, Retired
  <2>5. ServedIsFinished'
    BY <1>20, <1>t
      DEF IInv, TypeOK, StartIngestionJob, Advance, Leased, Holds, ServedIsFinished,
          Deleted
  <2>6. LeftoversAreRetired'
    BY <1>20, <1>t
      DEF IInv, TypeOK, StartIngestionJob, Advance, Leased, Holds, LeftoversAreRetired
  <2>. QED BY <1>t, <2>1, <2>2, <2>3, <2>4, <2>5, <2>6 DEF IInv
<1>21. ASSUME NEW a \in Attempt, CreateConversionGeneration(a) PROVE IInv'
  <2>1. StatusesAgree'
    BY <1>21
      DEF IInv, CreateConversionGeneration, Advance, Leased, Holds, StatusesAgree, Deleted
  <2>2. ClaimsInOrder'
    BY <1>21, <1>t
      DEF IInv, TypeOK, CreateConversionGeneration, Advance, Leased, Holds, ClaimsInOrder,
          Fresh, Blank
  <2>3. RowsOfClaims'
    BY <1>21, <1>t
      DEF IInv, TypeOK, CreateConversionGeneration, Advance, Leased, Holds, RowsOfClaims
  <2>4. PhaseTellsParts'
    BY <1>21, <1>t
      DEF IInv, TypeOK, CreateConversionGeneration, Advance, Leased, Holds,
          PhaseTellsParts, Blank, Before, Converting, Converted, Deleted, Retired
  <2>5. ServedIsFinished'
    BY <1>21, <1>t
      DEF IInv, TypeOK, CreateConversionGeneration, Advance, Leased, Holds,
          ServedIsFinished, Deleted
  <2>6. LeftoversAreRetired'
    BY <1>21, <1>t
      DEF IInv, TypeOK, CreateConversionGeneration, Advance, Leased, Holds,
          LeftoversAreRetired, RowsOfClaims, PhaseTellsParts, Before, Blank
  <2>. QED BY <1>t, <2>1, <2>2, <2>3, <2>4, <2>5, <2>6 DEF IInv
<1>22. ASSUME NEW a \in Attempt, Convert(a) PROVE IInv'
  <2>1. RowsOfClaims' /\ StatusesAgree' /\ LeftoversAreRetired'
    BY <1>22
      DEF IInv, Convert, Advance, Leased, Holds, RowsOfClaims, StatusesAgree,
          LeftoversAreRetired, Deleted
  <2>2. ClaimsInOrder'
    BY <1>22, <1>t
      DEF IInv, TypeOK, Convert, Advance, Leased, Holds, ClaimsInOrder, Fresh, Blank
  <2>3. PhaseTellsParts'
    BY <1>22, <1>t
      DEF IInv, TypeOK, Convert, Advance, Leased, Holds, PhaseTellsParts, Blank, Before,
          Converting, Converted, Deleted, Retired
  <2>4. ServedIsFinished'
    BY <1>22, <1>t
      DEF IInv, TypeOK, Convert, Advance, Leased, Holds, ServedIsFinished, Deleted
  <2>. QED BY <1>t, <2>1, <2>2, <2>3, <2>4 DEF IInv
<1>23. ASSUME NEW a \in Attempt, UploadArtifacts(a) PROVE IInv'
  <2>1. RowsOfClaims' /\ StatusesAgree' /\ LeftoversAreRetired'
    BY <1>23
      DEF IInv, UploadArtifacts, Advance, RowsOfClaims, StatusesAgree,
          LeftoversAreRetired, Deleted
  <2>2. ClaimsInOrder'
    BY <1>23, <1>t DEF IInv, TypeOK, UploadArtifacts, Advance, ClaimsInOrder, Fresh, Blank
  <2>3. PhaseTellsParts'
    BY <1>23, <1>t
      DEF IInv, TypeOK, UploadArtifacts, Advance, PhaseTellsParts, Blank, Before,
          Converting, Converted, Deleted, Leased, Holds, Retired
  <2>4. ServedIsFinished'
    BY <1>23, <1>t DEF IInv, TypeOK, UploadArtifacts, Advance, ServedIsFinished, Deleted
  <2>. QED BY <1>t, <2>1, <2>2, <2>3, <2>4 DEF IInv
<1>24. ASSUME NEW a \in Attempt, CompleteConversionGeneration(a) PROVE IInv'
  <2>1. RowsOfClaims' /\ StatusesAgree'
    BY <1>24
      DEF IInv, CompleteConversionGeneration, Advance, Leased, Holds, RowsOfClaims,
          StatusesAgree, Deleted
  <2>2. ClaimsInOrder'
    BY <1>24, <1>t
      DEF IInv, TypeOK, CompleteConversionGeneration, Advance, Leased, Holds,
          ClaimsInOrder, Fresh, Blank
  <2>3. PhaseTellsParts'
    BY <1>24, <1>t
      DEF IInv, TypeOK, CompleteConversionGeneration, Advance, Leased, Holds,
          PhaseTellsParts, Blank, Before, Converting, Converted, Deleted, Retired
  <2>4. ServedIsFinished'
    BY <1>24, <1>t
      DEF IInv, TypeOK, CompleteConversionGeneration, Advance, Leased, Holds,
          ServedIsFinished, Deleted
  <2>5. LeftoversAreRetired'
    BY <1>24, <1>t
      DEF IInv, TypeOK, CompleteConversionGeneration, Advance, Leased, Holds,
          LeftoversAreRetired
  <2>. QED BY <1>t, <2>1, <2>2, <2>3, <2>4, <2>5 DEF IInv
<1>25. ASSUME NEW a \in Attempt, PrepareIndexes(a) PROVE IInv'
  <2>1. RowsOfClaims' /\ StatusesAgree' /\ LeftoversAreRetired'
    BY <1>25
      DEF IInv, PrepareIndexes, Advance, Leased, Holds, RowsOfClaims, StatusesAgree,
          LeftoversAreRetired, Deleted
  <2>2. ClaimsInOrder'
    BY <1>25, <1>t
      DEF IInv, TypeOK, PrepareIndexes, Advance, Leased, Holds, ClaimsInOrder, Fresh,
          Blank
  <2>3. PhaseTellsParts'
    BY <1>25, <1>t
      DEF IInv, TypeOK, PrepareIndexes, Advance, Leased, Holds, PhaseTellsParts, Blank,
          Before, Converting, Converted, Deleted, Retired
  <2>4. ServedIsFinished'
    BY <1>25, <1>t
      DEF IInv, TypeOK, PrepareIndexes, Advance, Leased, Holds, ServedIsFinished, Deleted
  <2>. QED BY <1>t, <2>1, <2>2, <2>3, <2>4 DEF IInv
<1>26. ASSUME NEW a \in Attempt, ReplaceFileChunks(a) PROVE IInv'
  <2>1. RowsOfClaims' /\ StatusesAgree' /\ LeftoversAreRetired'
    BY <1>26
      DEF IInv, ReplaceFileChunks, Advance, RowsOfClaims, StatusesAgree,
          LeftoversAreRetired, Deleted
  <2>2. ClaimsInOrder'
    BY <1>26, <1>t DEF IInv, TypeOK, ReplaceFileChunks, Advance, ClaimsInOrder, Fresh, Blank
  <2>3. PhaseTellsParts'
    BY <1>26, <1>t
      DEF IInv, TypeOK, ReplaceFileChunks, Advance, PhaseTellsParts, Blank, Before,
          Converting, Converted, Deleted, Leased, Holds, Retired
  <2>4. ServedIsFinished'
    BY <1>26, <1>t DEF IInv, TypeOK, ReplaceFileChunks, Advance, ServedIsFinished, Deleted
  <2>. QED BY <1>t, <2>1, <2>2, <2>3, <2>4 DEF IInv
<1>27. ASSUME NEW a \in Attempt, AssertBatchLease(a) PROVE IInv'
  <2>1. RowsOfClaims' /\ StatusesAgree' /\ LeftoversAreRetired'
    BY <1>27
      DEF IInv, AssertBatchLease, Advance, Leased, Holds, RowsOfClaims, StatusesAgree,
          LeftoversAreRetired, Deleted
  <2>2. ClaimsInOrder'
    BY <1>27, <1>t
      DEF IInv, TypeOK, AssertBatchLease, Advance, Leased, Holds, ClaimsInOrder, Fresh,
          Blank
  <2>3. PhaseTellsParts'
    BY <1>27, <1>t
      DEF IInv, TypeOK, AssertBatchLease, Advance, Leased, Holds, PhaseTellsParts, Blank,
          Before, Converting, Converted, Deleted, Retired
  <2>4. ServedIsFinished'
    BY <1>27, <1>t
      DEF IInv, TypeOK, AssertBatchLease, Advance, Leased, Holds, ServedIsFinished,
          Deleted
  <2>. QED BY <1>t, <2>1, <2>2, <2>3, <2>4 DEF IInv
<1>28. ASSUME NEW a \in Attempt, IndexChunkBatch(a) PROVE IInv'
  <2>1. RowsOfClaims' /\ StatusesAgree' /\ LeftoversAreRetired'
    BY <1>28
      DEF IInv, IndexChunkBatch, RowsOfClaims, StatusesAgree, LeftoversAreRetired, Deleted
  <2>2. ClaimsInOrder'
    BY <1>28, <1>t DEF IInv, TypeOK, IndexChunkBatch, ClaimsInOrder, Fresh, Blank
  <2>3. PhaseTellsParts'
    BY <1>28, <1>t
      DEF IInv, TypeOK, IndexChunkBatch, PhaseTellsParts, Blank, Before, Converting,
          Converted, Deleted, Leased, Holds, Retired
  <2>4. ServedIsFinished'
    BY <1>28, <1>t DEF IInv, TypeOK, IndexChunkBatch, ServedIsFinished, Deleted
  <2>. QED BY <1>t, <2>1, <2>2, <2>3, <2>4 DEF IInv
<1>29. ASSUME NEW a \in Attempt, ActivateGeneration(a) PROVE IInv'
  <2>1. ClaimsInOrder'
    BY <1>29, <1>t
      DEF IInv, TypeOK, ActivateGeneration, Advance, Leased, Holds, ClaimsInOrder, Fresh,
          Blank
  <2>2. RowsOfClaims'
    BY <1>29, <1>t
      DEF IInv, TypeOK, ActivateGeneration, Advance, Leased, Holds, RowsOfClaims
  <2>3. StatusesAgree'
    BY <1>29, <1>t
      DEF IInv, TypeOK, ActivateGeneration, Advance, Leased, Holds, StatusesAgree, Deleted
  <2>4. PhaseTellsParts'
    BY <1>29, <1>t
      DEF IInv, TypeOK, ActivateGeneration, Advance, Leased, Holds, PhaseTellsParts,
          Blank, Before, Converting, Converted, Deleted, Retired, StatusesAgree, RowsOfClaims
  <2>5. ServedIsFinished'
    BY <1>29, <1>t
      DEF IInv, TypeOK, ActivateGeneration, Advance, Leased, Holds, ServedIsFinished,
          Deleted, StatusesAgree, RowsOfClaims, PhaseTellsParts
  <2>6. LeftoversAreRetired'
    BY <1>29, <1>t
      DEF IInv, TypeOK, ActivateGeneration, Advance, Leased, Holds, LeftoversAreRetired,
          StatusesAgree, RowsOfClaims
  <2>. QED BY <1>t, <2>1, <2>2, <2>3, <2>4, <2>5, <2>6 DEF IInv
<1>30. ASSUME NEW a \in Attempt, StepFails(a) PROVE IInv'
  <2>1. RowsOfClaims' /\ StatusesAgree' /\ LeftoversAreRetired'
    BY <1>30 DEF IInv, StepFails, RowsOfClaims, StatusesAgree, LeftoversAreRetired, Deleted
  <2>2. ClaimsInOrder'
    BY <1>30, <1>t DEF IInv, TypeOK, StepFails, ClaimsInOrder, Fresh, Blank
  <2>3. PhaseTellsParts'
    BY <1>30, <1>t
      DEF IInv, TypeOK, StepFails, PhaseTellsParts, Blank, Before, Converting, Converted,
          Deleted, Leased, Holds, Retired
  <2>4. ServedIsFinished'
    BY <1>30, <1>t DEF IInv, TypeOK, StepFails, ServedIsFinished, Deleted
  <2>. QED BY <1>t, <2>1, <2>2, <2>3, <2>4 DEF IInv
<1>31. ASSUME NEW a \in Attempt, FailConversionGeneration(a) PROVE IInv'
  <2>1. RowsOfClaims' /\ StatusesAgree'
    BY <1>31
      DEF IInv, FailConversionGeneration, Advance, Leased, Holds, RowsOfClaims,
          StatusesAgree, Deleted
  <2>2. ClaimsInOrder'
    BY <1>31, <1>t
      DEF IInv, TypeOK, FailConversionGeneration, Advance, Leased, Holds, ClaimsInOrder,
          Fresh, Blank
  <2>3. PhaseTellsParts'
    BY <1>31, <1>t
      DEF IInv, TypeOK, FailConversionGeneration, Advance, Leased, Holds, PhaseTellsParts,
          Blank, Before, Converting, Converted, Deleted, Retired
  <2>4. ServedIsFinished'
    BY <1>31, <1>t
      DEF IInv, TypeOK, FailConversionGeneration, Advance, Leased, Holds,
          ServedIsFinished, Deleted
  <2>5. LeftoversAreRetired'
    BY <1>31, <1>t
      DEF IInv, TypeOK, FailConversionGeneration, Advance, Leased, Holds,
          LeftoversAreRetired
  <2>. QED BY <1>t, <2>1, <2>2, <2>3, <2>4, <2>5 DEF IInv
<1>32. ASSUME NEW a \in Attempt, FailIngestionJob(a) PROVE IInv'
  <2>1. RowsOfClaims' /\ LeftoversAreRetired'
    BY <1>32
      DEF IInv, FailIngestionJob, Advance, Leased, Holds, RowsOfClaims,
          LeftoversAreRetired
  <2>2. ClaimsInOrder'
    BY <1>32, <1>t
      DEF IInv, TypeOK, FailIngestionJob, Advance, Leased, Holds, ClaimsInOrder, Fresh,
          Blank
  <2>3. StatusesAgree'
    BY <1>32, <1>t
      DEF IInv, TypeOK, FailIngestionJob, Advance, Leased, Holds, StatusesAgree, Deleted
  <2>4. PhaseTellsParts'
    BY <1>32, <1>t
      DEF IInv, TypeOK, FailIngestionJob, Advance, Leased, Holds, PhaseTellsParts, Blank,
          Before, Converting, Converted, Deleted, Retired
  <2>5. ServedIsFinished'
    BY <1>32, <1>t
      DEF IInv, TypeOK, FailIngestionJob, Advance, Leased, Holds, ServedIsFinished,
          Deleted
  <2>. QED BY <1>t, <2>1, <2>2, <2>3, <2>4, <2>5 DEF IInv
<1>33. ASSUME NEW a \in Attempt, RagStops(a) PROVE IInv'
  <2>1. RowsOfClaims' /\ StatusesAgree' /\ LeftoversAreRetired'
    BY <1>33 DEF IInv, RagStops, RowsOfClaims, StatusesAgree, LeftoversAreRetired, Deleted
  <2>2. ClaimsInOrder'
    BY <1>33, <1>t DEF IInv, TypeOK, RagStops, ClaimsInOrder, Fresh, Blank
  <2>3. PhaseTellsParts'
    BY <1>33, <1>t
      DEF IInv, TypeOK, RagStops, PhaseTellsParts, Blank, Before, Converting, Converted,
          Deleted, Leased, Holds, Retired
  <2>4. ServedIsFinished'
    BY <1>33, <1>t DEF IInv, TypeOK, RagStops, ServedIsFinished, Deleted
  <2>. QED BY <1>t, <2>1, <2>2, <2>3, <2>4 DEF IInv
<1>34. ASSUME NEW a \in Attempt, CleanupReadsGeneration(a) PROVE IInv'
  <2>1. RowsOfClaims' /\ StatusesAgree' /\ ServedIsFinished'
    BY <1>34
      DEF IInv, CleanupReadsGeneration, Retired, RowsOfClaims, StatusesAgree,
          ServedIsFinished, Deleted
  <2>2. ClaimsInOrder'
    BY <1>34, <1>t
      DEF IInv, TypeOK, CleanupReadsGeneration, Retired, ClaimsInOrder, Fresh, Blank
  <2>3. PhaseTellsParts'
    BY <1>34, <1>t
      DEF IInv, TypeOK, CleanupReadsGeneration, Retired, PhaseTellsParts, Blank, Before,
          Converting, Converted, Deleted, Leased, Holds
  <2>4. LeftoversAreRetired'
    BY <1>34, <1>t DEF IInv, TypeOK, CleanupReadsGeneration, Retired, LeftoversAreRetired
  <2>. QED BY <1>t, <2>1, <2>2, <2>3, <2>4 DEF IInv
<1>35. ASSUME NEW a \in Attempt, CleanupDeletesIndex(a) PROVE IInv'
  <2>1. RowsOfClaims' /\ StatusesAgree'
    BY <1>35 DEF IInv, CleanupDeletesIndex, RowsOfClaims, StatusesAgree, Deleted
  <2>2. ClaimsInOrder'
    BY <1>35, <1>t DEF IInv, TypeOK, CleanupDeletesIndex, ClaimsInOrder, Fresh, Blank
  <2>3. PhaseTellsParts'
    BY <1>35, <1>t
      DEF IInv, TypeOK, CleanupDeletesIndex, PhaseTellsParts, Blank, Before, Converting,
          Converted, Deleted, Leased, Holds, Retired
  <2>4. ServedIsFinished'
    <3>1. \A f \in Files : active[f] # a
      BY <1>35 DEF CleanupDeletesIndex, IInv, ServedIsFinished, PhaseTellsParts, Retired
    <3>. QED BY <1>35, <1>t, <3>1
      DEF CleanupDeletesIndex, IInv, TypeOK, ServedIsFinished, Deleted
  <2>5. LeftoversAreRetired'
    BY <1>35, <1>t DEF IInv, TypeOK, CleanupDeletesIndex, LeftoversAreRetired
  <2>. QED BY <1>t, <2>1, <2>2, <2>3, <2>4, <2>5 DEF IInv
<1>36. ASSUME NEW a \in Attempt, CleanupDeletesObjects(a) PROVE IInv'
  <2>1. RowsOfClaims' /\ StatusesAgree' /\ ServedIsFinished'
    BY <1>36
      DEF IInv, CleanupDeletesObjects, RowsOfClaims, StatusesAgree, ServedIsFinished,
          Deleted
  <2>2. ClaimsInOrder'
    BY <1>36, <1>t DEF IInv, TypeOK, CleanupDeletesObjects, ClaimsInOrder, Fresh, Blank
  <2>3. PhaseTellsParts'
    BY <1>36, <1>t
      DEF IInv, TypeOK, CleanupDeletesObjects, PhaseTellsParts, Blank, Before, Converting,
          Converted, Deleted, Leased, Holds, Retired
  <2>4. LeftoversAreRetired'
    BY <1>36, <1>t DEF IInv, TypeOK, CleanupDeletesObjects, LeftoversAreRetired
  <2>. QED BY <1>t, <2>1, <2>2, <2>3, <2>4 DEF IInv
<1>37. ASSUME NEW a \in Attempt, FinalizeGenerationCleanup(a) PROVE IInv'
  <2>1. StatusesAgree'
    BY <1>37 DEF IInv, FinalizeGenerationCleanup, Retired, StatusesAgree, Deleted
  <2>2. ClaimsInOrder'
    BY <1>37, <1>t
      DEF IInv, TypeOK, FinalizeGenerationCleanup, Retired, ClaimsInOrder, Fresh, Blank
  <2>3. RowsOfClaims'
    BY <1>37, <1>t DEF IInv, TypeOK, FinalizeGenerationCleanup, Retired, RowsOfClaims
  <2>4. PhaseTellsParts'
    BY <1>37, <1>t
      DEF IInv, TypeOK, FinalizeGenerationCleanup, Retired, PhaseTellsParts, Blank,
          Before, Converting, Converted, Deleted, Leased, Holds
  <2>5. ServedIsFinished'
    BY <1>37, <1>t
      DEF IInv, TypeOK, FinalizeGenerationCleanup, Retired, ServedIsFinished, Deleted
  <2>6. LeftoversAreRetired'
    BY <1>37, <1>t DEF IInv, TypeOK, FinalizeGenerationCleanup, Retired, LeftoversAreRetired
  <2>. QED BY <1>t, <2>1, <2>2, <2>3, <2>4, <2>5, <2>6 DEF IInv
<1>38. CASE UNCHANGED vars
  BY <1>38
    DEF vars, IInv, TypeOK, ClaimsInOrder, RowsOfClaims, StatusesAgree, PhaseTellsParts,
        ServedIsFinished, LeftoversAreRetired, Fresh, Blank, Deleted, Leased, Holds
<1>. QED
  BY <1>1, <1>2, <1>3, <1>4, <1>5, <1>6, <1>7, <1>8, <1>9, <1>10, <1>11, <1>12, <1>13,
     <1>14, <1>15, <1>16, <1>17, <1>18, <1>19, <1>20, <1>21, <1>22, <1>23, <1>24, <1>25,
     <1>26, <1>27, <1>28, <1>29, <1>30, <1>31, <1>32, <1>33, <1>34, <1>35, <1>36, <1>37,
     <1>38
  DEF Next, ServerStep, UserStep, WorkerStep, RagStep, CleanupStepOf

\* The inductive invariant holds throughout.
THEOREM Invariant == Spec => []IInv
<1>1. Init => IInv
  BY ClaimBound, AttemptBudget, ResetBound, NoFileFresh
  DEF Init, IInv, TypeOK, ClaimsInOrder, RowsOfClaims, StatusesAgree, PhaseTellsParts,
      ServedIsFinished, LeftoversAreRetired, Fresh, Blank, Before, Converting, Converted,
      Deleted, Leased, Holds, None, Attempt, FileStatus, JobStatus, GenStatus, CleanupStep,
      DeletionStep, ServerPhase, RagPhase
<1>. QED
  BY <1>1, InductiveStep, PTL DEF Spec

\* Whatever is served of a document that is not being deleted is a complete
\* generation of that document, for any number of documents and attempts.
THEOREM ServedWhole == Spec => []ServedIsWhole
<1>1. IInv => ServedIsWhole
  <2>. SUFFICES ASSUME IInv, NEW f \in Files, active[f] # None, ~Deleted(f)
                PROVE  fileOf[active[f]] = f /\ Whole(active[f])
    BY DEF ServedIsWhole, IInv
  <2>1. active[f] \in Attempt /\ fileOf[active[f]] = f
    BY DEF IInv, TypeOK, RowsOfClaims
  <2>. QED BY <2>1 DEF IInv, ServedIsFinished, PhaseTellsParts, Whole
<1>. QED
  BY <1>1, Invariant, PTL

\* A file that reconciliation has marked completed serves its latest claim.
THEOREM CompletedServes == Spec => []CompletedServesLatest
<1>1. IInv => CompletedServesLatest
  BY DEF IInv, StatusesAgree, CompletedServesLatest
<1>. QED
  BY <1>1, Invariant, PTL

\* Cleanup is never recorded for a generation that is served or that its
\* attempt could still activate.
THEOREM CleanupSpares == Spec => []CleanupSparesPublishable
<1>1. IInv => CleanupSparesPublishable
  BY
    DEF IInv, PhaseTellsParts, ServedIsFinished, Retired, None, Attempt,
        CleanupSparesPublishable
<1>. QED
  BY <1>1, Invariant, PTL

-----------------------------------------------------------------------------
(* What a step may never do.                                               *)

\* Only the activation and the final deletion change what is served.
LEMMA ServedChanges ==
  ASSUME IInv, [Next]_vars, NEW f \in Files, active'[f] # active[f]
  PROVE  \/ \E a \in Attempt : ActivateGeneration(a) /\ fileOf[a] = f
         \/ FinalizeDeletion(f)
<1>. USE DEF fileVars
<1>1. ASSUME NEW e \in Files, ServerStep(e) PROVE FALSE
  BY <1>1 DEF ServerStep, Dispatch, LoseMessage, Redeliver, Claim, Discard, LeaseExpires,
     DispatcherReconciles, BackoffElapses
<1>2. ASSUME NEW e \in Files, UserStep(e) PROVE FinalizeDeletion(f)
  <2>1. FinalizeDeletion(e)
    BY <1>2 DEF UserStep, RetryFailedFile, QueueForReingestion, Reset, DeleteFile,
       DeletionClearsIndexes, DeletionClearsObjects
  <2>. QED BY <2>1 DEF FinalizeDeletion, IInv, TypeOK
<1>3. ASSUME NEW a \in Attempt, WorkerStep(a) PROVE FALSE
  BY <1>3 DEF WorkerStep, RequestEnds, RequestRefused, WorkerReconciles, ServerCrashes
<1>4. ASSUME NEW a \in Attempt, CleanupStepOf(a) PROVE FALSE
  BY <1>4 DEF CleanupStepOf, CleanupReadsGeneration, CleanupDeletesIndex,
     CleanupDeletesObjects, FinalizeGenerationCleanup
<1>5. ASSUME NEW a \in Attempt, RagStep(a) PROVE ActivateGeneration(a) /\ fileOf[a] = f
  <2>1. ActivateGeneration(a)
    BY <1>5
      DEF RagStep, RagReceives, StartIngestionJob, CreateConversionGeneration, Convert,
       UploadArtifacts, CompleteConversionGeneration, PrepareIndexes, ReplaceFileChunks,
       AssertBatchLease, IndexChunkBatch, StepFails, FailConversionGeneration,
       FailIngestionJob, RagStops
  <2>. QED BY <2>1 DEF ActivateGeneration, IInv, TypeOK
<1>6. CASE UNCHANGED vars
  BY <1>6 DEF vars
<1>. QED BY <1>1, <1>2, <1>3, <1>4, <1>5, <1>6 DEF Next

\* A worker that lost its lease cannot roll back a newer publication.
THEOREM PublicationForward == Spec => PublicationMovesForward
<1>1. IInv /\ [Next]_vars =>
        [\A f \in Files : active'[f] # active[f] =>
             \/ active'[f] > active[f]
             \/ active'[f] = None /\ fileStatus'[f] = "gone"]_vars
  <2>. SUFFICES ASSUME IInv, [Next]_vars, NEW f \in Files, active'[f] # active[f]
                PROVE  active'[f] > active[f] \/ (active'[f] = None /\ fileStatus'[f] = "gone")
    OBVIOUS
  <2>1. ASSUME NEW a \in Attempt, ActivateGeneration(a), fileOf[a] = f
        PROVE  active'[f] > active[f]
    <3>1. jobAttempt[f] = a /\ jobStatus[f] = "processing" /\ active'[f] = a
      BY <2>1 DEF ActivateGeneration, Leased, Holds, IInv, TypeOK
    <3>2. active[f] # a
      BY <3>1 DEF IInv, StatusesAgree, None, Attempt
    <3>3. active[f] <= a
      BY <3>1 DEF IInv, RowsOfClaims
    <3>4. active[f] \in Nat /\ a \in Nat
      BY ClaimBound DEF IInv, TypeOK, None, Attempt
    <3>. QED BY <3>1, <3>2, <3>3, <3>4
  <2>2. ASSUME FinalizeDeletion(f)
        PROVE  active'[f] = None /\ fileStatus'[f] = "gone"
    BY <2>2 DEF FinalizeDeletion, IInv, TypeOK
  <2>. QED BY <2>1, <2>2, ServedChanges
<1>. QED
  BY <1>1, Invariant, PTL DEF Spec, PublicationMovesForward

\* A late reconciliation cannot turn a completed file into a failed one.
THEOREM CompletedStays == Spec => CompletedNeverFails
<1>1. IInv /\ [Next]_vars =>
        [\A f \in Files : fileStatus[f] = "completed" =>
             \/ fileStatus'[f] \in {"completed", "deleting"}
             \/ fileStatus'[f] = "pending" /\ resets' = resets + 1]_vars
  <2>. SUFFICES ASSUME IInv, [Next]_vars, NEW f \in Files, fileStatus[f] = "completed"
                PROVE  \/ fileStatus'[f] \in {"completed", "deleting"}
                       \/ fileStatus'[f] = "pending" /\ resets' = resets + 1
    OBVIOUS
  <2>. USE DEF IInv, TypeOK, fileVars
  <2>1. ASSUME NEW e \in Files, ServerStep(e) PROVE fileStatus'[f] = "completed"
    BY <2>1 DEF ServerStep, Dispatch, LoseMessage, Redeliver, Claim, Dispatchable, Discard,
       LeaseExpires, DispatcherReconciles, ReconcileAttempt, BackoffElapses
  <2>2. ASSUME NEW e \in Files, UserStep(e)
        PROVE  \/ fileStatus'[f] \in {"completed", "deleting"}
               \/ fileStatus'[f] = "pending" /\ resets' = resets + 1
    <3>1. CASE RetryFailedFile(e) \/ QueueForReingestion(e)
      BY <3>1 DEF RetryFailedFile, QueueForReingestion, Reset
    <3>2. CASE DeleteFile(e)
      BY <3>2 DEF DeleteFile
    <3>3. CASE DeletionClearsIndexes(e) \/ DeletionClearsObjects(e)
      BY <3>3 DEF DeletionClearsIndexes, DeletionClearsObjects
    <3>4. CASE FinalizeDeletion(e)
      BY <3>4 DEF FinalizeDeletion, StatusesAgree, Deleted
    <3>. QED BY <2>2, <3>1, <3>2, <3>3, <3>4 DEF UserStep
  <2>3. ASSUME NEW a \in Attempt, WorkerStep(a) PROVE fileStatus'[f] = "completed"
    BY <2>3 DEF WorkerStep, RequestEnds, RequestRefused, WorkerReconciles, ReconcileAttempt,
       ServerCrashes
  <2>4. ASSUME NEW a \in Attempt, CleanupStepOf(a) PROVE fileStatus'[f] = "completed"
    BY <2>4 DEF CleanupStepOf, CleanupReadsGeneration, CleanupDeletesIndex,
       CleanupDeletesObjects, FinalizeGenerationCleanup
  <2>5. ASSUME NEW a \in Attempt, RagStep(a) PROVE fileStatus'[f] = "completed"
    BY <2>5
      DEF RagStep, RagReceives, StartIngestionJob, CreateConversionGeneration, Convert,
       UploadArtifacts, CompleteConversionGeneration, PrepareIndexes, ReplaceFileChunks,
       AssertBatchLease, IndexChunkBatch, ActivateGeneration, StepFails,
       FailConversionGeneration, FailIngestionJob, RagStops
  <2>6. CASE UNCHANGED vars
    BY <2>6 DEF vars
  <2>. QED BY <2>1, <2>2, <2>3, <2>4, <2>5, <2>6 DEF Next
<1>. QED
  BY <1>1, Invariant, PTL DEF Spec, CompletedNeverFails

\* Nothing brings a deleted file back.
THEOREM DeletionStays == Spec => DeletionIsFinal
<1>1. IInv /\ [Next]_vars =>
        [\A f \in Files : Deleted(f) =>
             Deleted(f)' /\ (active'[f] = active[f] \/ active'[f] = None)]_vars
  <2>. SUFFICES ASSUME IInv, [Next]_vars, NEW f \in Files, Deleted(f)
                PROVE  Deleted(f)' /\ (active'[f] = active[f] \/ active'[f] = None)
    OBVIOUS
  <2>1. active'[f] = active[f] \/ active'[f] = None
    <3>1. ASSUME NEW a \in Attempt, ActivateGeneration(a), fileOf[a] = f PROVE FALSE
      BY <3>1 DEF ActivateGeneration, Deleted
    <3>2. ASSUME FinalizeDeletion(f) PROVE active'[f] = None
      BY <3>2 DEF FinalizeDeletion, IInv, TypeOK
    <3>. QED BY <3>1, <3>2, ServedChanges
  <2>. USE DEF IInv, TypeOK, fileVars, Deleted
  <2>2. ASSUME NEW e \in Files, ServerStep(e) PROVE fileStatus'[f] = fileStatus[f]
    BY <2>2 DEF ServerStep, Dispatch, LoseMessage, Redeliver, Claim, Dispatchable, Discard,
       LeaseExpires, DispatcherReconciles, ReconcileAttempt, BackoffElapses
  <2>3. ASSUME NEW e \in Files, UserStep(e) PROVE Deleted(f)'
    BY <2>3 DEF UserStep, RetryFailedFile, QueueForReingestion, Reset, DeleteFile,
       DeletionClearsIndexes, DeletionClearsObjects, FinalizeDeletion
  <2>4. ASSUME NEW a \in Attempt, WorkerStep(a) PROVE fileStatus'[f] = fileStatus[f]
    BY <2>4 DEF WorkerStep, RequestEnds, RequestRefused, WorkerReconciles, ReconcileAttempt,
       ServerCrashes
  <2>5. ASSUME NEW a \in Attempt, CleanupStepOf(a) PROVE fileStatus'[f] = fileStatus[f]
    BY <2>5 DEF CleanupStepOf, CleanupReadsGeneration, CleanupDeletesIndex,
       CleanupDeletesObjects, FinalizeGenerationCleanup
  <2>6. ASSUME NEW a \in Attempt, RagStep(a) PROVE fileStatus'[f] = fileStatus[f]
    BY <2>6
      DEF RagStep, RagReceives, StartIngestionJob, CreateConversionGeneration, Convert,
       UploadArtifacts, CompleteConversionGeneration, PrepareIndexes, ReplaceFileChunks,
       AssertBatchLease, IndexChunkBatch, ActivateGeneration, StepFails,
       FailConversionGeneration, FailIngestionJob, RagStops
  <2>7. CASE UNCHANGED vars
    BY <2>7 DEF vars
  <2>. QED BY <2>1, <2>2, <2>3, <2>4, <2>5, <2>6, <2>7 DEF Next
<1>. QED
  BY <1>1, Invariant, PTL DEF Spec, DeletionIsFinal

\* A reconciliation keeps track of every generation: what it drops it records.
LEMMA ReconcileTracks ==
  ASSUME IInv, NEW f \in Files, NEW a, ReconcileAttempt(f, a), NEW g \in Attempt, Tracked(g),
         UNCHANGED <<active, jobGen, fileOf>>
  PROVE  Tracked(g)'
<1>t. TypeOK
  BY DEF IInv
<1>1. genStatus[g] # "none" => (Deleted(fileOf[g]) => Deleted(fileOf[g])')
  <2>1. genStatus[g] # "none" => fileOf[g] \in Files
    BY <1>t DEF IInv, TypeOK, ClaimsInOrder, Blank, Attempt
  <2>. QED BY <1>t, <2>1 DEF ReconcileAttempt, Deleted, TypeOK
<1>2. CASE UNCHANGED <<genStatus, cleanup>>
  BY <1>1, <1>2 DEF Tracked
<1>3. CASE RetireGeneration(f, jobGen[f])
  <2>1. genStatus[g] \in {"none", "deleted"} => genStatus'[g] = genStatus[g]
    BY <1>t, <1>3, RetireEffect
  <2>2. cleanup[g] # "none" => cleanup'[g] # "none"
    BY <1>t, <1>3, RetireEffect
  <2>. QED BY <1>1, <2>1, <2>2 DEF Tracked
<1>. QED BY <1>2, <1>3 DEF ReconcileAttempt

\* Only the takeover of an unreconciled attempt loses track of a generation.
THEOREM OnlyTakeoverLoses == Spec => LostOnlyByTakeover
<1>1. IInv /\ [Next]_vars =>
        [\A a \in Attempt : Tracked(a) /\ ~Tracked(a)' =>
             /\ claims' = claims + 1
             /\ fileStatus[fileOf[a]] = "processing"
             /\ ~leaseLive[fileOf[a]]]_vars
  <2>. SUFFICES ASSUME IInv, [Next]_vars, NEW g \in Attempt, Tracked(g), ~Tracked(g)'
                PROVE  /\ claims' = claims + 1
                       /\ fileStatus[fileOf[g]] = "processing"
                       /\ ~leaseLive[fileOf[g]]
    OBVIOUS
  <2>. USE NoFileFresh DEF fileVars, jobVars, genVars, deleteVars, workVars, countVars, None, Attempt
  <2>t. TypeOK
    BY DEF IInv
  <2>u. genStatus[g] # "none" => g <= claims /\ fileOf[g] \in Files
    BY <2>t DEF IInv, TypeOK, ClaimsInOrder, Blank
  <2>1. ASSUME NEW f \in Files, Dispatch(f) PROVE FALSE
    BY <2>1, <2>t, <2>u DEF Dispatch, Tracked, Deleted, TypeOK
  <2>2. ASSUME NEW f \in Files, LoseMessage(f) PROVE FALSE
    BY <2>2, <2>t, <2>u DEF LoseMessage, Tracked, Deleted, TypeOK
  <2>3. ASSUME NEW f \in Files, Redeliver(f) PROVE FALSE
    BY <2>3, <2>t, <2>u DEF Redeliver, Tracked, Deleted, TypeOK
  <2>4. ASSUME NEW f \in Files, Claim(f)
        PROVE  /\ claims' = claims + 1
               /\ fileStatus[fileOf[g]] = "processing"
               /\ ~leaseLive[fileOf[g]]
    <3>1. /\ genStatus[g] \notin {"none", "deleted"} /\ cleanup[g] = "none"
          /\ active[fileOf[g]] # g /\ jobGen[fileOf[g]] = g /\ fileOf[g] = f
      <4>1. UNCHANGED <<genStatus, cleanup, active>>
        BY <2>4 DEF Claim
      <4>2. fileOf[g] \in Files /\ g # claims + 1
        BY <2>4, <2>t, <2>u, <4>1 DEF Tracked, TypeOK
      <4>3. fileOf'[g] = fileOf[g]
        BY <2>4, <2>t, <4>2 DEF Claim, TypeOK
      <4>4. Deleted(fileOf[g]) => Deleted(fileOf[g])'
        BY <2>4, <2>t, <4>2, <4>3 DEF Claim, Dispatchable, Deleted, TypeOK
      <4>5. fileOf[g] # f => jobGen'[fileOf[g]] = jobGen[fileOf[g]]
        BY <2>4, <2>t, <4>2 DEF Claim, TypeOK
      <4>. QED BY <4>1, <4>2, <4>3, <4>4, <4>5 DEF Tracked
    <3>2. fileStatus[f] = "processing"
      BY <2>4, <3>1 DEF Claim, Dispatchable, IInv, LeftoversAreRetired
    <3>3. ~leaseLive[f]
      BY <2>4, <3>2 DEF Claim, Dispatchable, IInv, StatusesAgree
    <3>. QED BY <2>4, <3>1, <3>2, <3>3 DEF Claim
  <2>5. ASSUME NEW f \in Files, Discard(f) PROVE FALSE
    BY <2>5, <2>t, <2>u DEF Discard, Tracked, Deleted, TypeOK
  <2>6. ASSUME NEW f \in Files, LeaseExpires(f) PROVE FALSE
    BY <2>6, <2>t, <2>u DEF LeaseExpires, Tracked, Deleted, TypeOK
  <2>7. ASSUME NEW f \in Files, DispatcherReconciles(f) PROVE FALSE
    BY <2>7, ReconcileTracks DEF DispatcherReconciles
  <2>8. ASSUME NEW f \in Files, BackoffElapses(f) PROVE FALSE
    BY <2>8, <2>t, <2>u DEF BackoffElapses, Tracked, Deleted, TypeOK
  <2>9. ASSUME NEW f \in Files, RetryFailedFile(f) PROVE FALSE
    BY <2>9, <2>t, <2>u DEF RetryFailedFile, Reset, Tracked, Deleted, TypeOK
  <2>10. ASSUME NEW f \in Files, QueueForReingestion(f) PROVE FALSE
    BY <2>10, <2>t, <2>u DEF QueueForReingestion, Reset, Tracked, Deleted, TypeOK
  <2>11. ASSUME NEW f \in Files, DeleteFile(f) PROVE FALSE
    BY <2>11, <2>t, <2>u DEF DeleteFile, GenerationsOf, Deleted, Tracked, TypeOK
  <2>12. ASSUME NEW f \in Files, DeletionClearsIndexes(f) PROVE FALSE
    BY <2>12, <2>t, <2>u DEF DeletionClearsIndexes, Tracked, Deleted, TypeOK
  <2>13. ASSUME NEW f \in Files, DeletionClearsObjects(f) PROVE FALSE
    BY <2>13, <2>t, <2>u DEF DeletionClearsObjects, Tracked, Deleted, TypeOK
  <2>14. ASSUME NEW f \in Files, FinalizeDeletion(f) PROVE FALSE
    BY <2>14, <2>t, <2>u DEF FinalizeDeletion, GenerationsOf, Tracked, Deleted, TypeOK
  <2>15. ASSUME NEW a \in Attempt, RequestEnds(a) PROVE FALSE
    BY <2>15, <2>t, <2>u DEF RequestEnds, Tracked, Deleted, TypeOK
  <2>16. ASSUME NEW a \in Attempt, RequestRefused(a) PROVE FALSE
    BY <2>16, <2>t, <2>u DEF RequestRefused, Holds, Tracked, Deleted, TypeOK
  <2>17. ASSUME NEW a \in Attempt, WorkerReconciles(a) PROVE FALSE
    <3>1. a <= claims
      <4>1. server[a] # "idle"
        BY <2>17 DEF WorkerReconciles
      <4>2. ~(a > claims)
        BY <4>1 DEF IInv, ClaimsInOrder, Fresh
      <4>3. claims \in Nat /\ a \in Nat
        BY <2>t, ClaimBound DEF TypeOK
      <4>. QED BY <4>2, <4>3
    <3>2. fileOf[a] \in Files
      BY <3>1 DEF IInv, ClaimsInOrder
    <3>. QED BY <2>17, <3>2, ReconcileTracks DEF WorkerReconciles
  <2>18. ASSUME NEW a \in Attempt, ServerCrashes(a) PROVE FALSE
    BY <2>18, <2>t, <2>u DEF ServerCrashes, Tracked, Deleted, TypeOK
  <2>19. ASSUME NEW a \in Attempt, RagReceives(a) PROVE FALSE
    BY <2>19, <2>t, <2>u DEF RagReceives, Advance, Tracked, Deleted, TypeOK
  <2>20. ASSUME NEW a \in Attempt, StartIngestionJob(a) PROVE FALSE
    <3>1. genStatus[a] = "none" /\ UNCHANGED <<genStatus, cleanup, active, fileOf, fileStatus>>
      BY <2>20 DEF StartIngestionJob, Advance, IInv, PhaseTellsParts, Before, Blank
    <3>2. fileOf[a] \in Files /\ jobAttempt[fileOf[a]] = a
      BY <2>20, <2>t DEF StartIngestionJob, Leased, Holds, TypeOK
    <3>3. g # a
      BY <3>1 DEF Tracked
    <3>4. jobGen[fileOf[g]] = g => jobGen'[fileOf[g]] = g
      <4>1. CASE fileOf[g] = fileOf[a]
        BY <3>2, <3>3, <4>1 DEF IInv, RowsOfClaims
      <4>2. CASE fileOf[g] # fileOf[a]
        BY <2>20, <4>2 DEF StartIngestionJob
      <4>. QED BY <4>1, <4>2
    <3>. QED BY <3>1, <3>4 DEF Tracked, Deleted
  <2>21. ASSUME NEW a \in Attempt, CreateConversionGeneration(a) PROVE FALSE
    <3>1. UNCHANGED <<cleanup, active, fileOf, fileStatus>>
      BY <2>21 DEF CreateConversionGeneration
    <3>2. fileOf[a] \in Files /\ jobAttempt[fileOf[a]] = a /\ jobGen'[fileOf[a]] = a
      BY <2>21, <2>t DEF CreateConversionGeneration, Leased, Holds, TypeOK
    <3>3. g # a
      BY <3>1, <3>2 DEF Tracked
    <3>4. genStatus'[g] = genStatus[g]
      BY <2>21, <3>3 DEF CreateConversionGeneration
    <3>5. jobGen[fileOf[g]] = g => jobGen'[fileOf[g]] = g
      <4>1. CASE fileOf[g] = fileOf[a]
        BY <3>2, <3>3, <4>1 DEF IInv, RowsOfClaims
      <4>2. CASE fileOf[g] # fileOf[a]
        BY <2>21, <4>2 DEF CreateConversionGeneration
      <4>. QED BY <4>1, <4>2
    <3>. QED BY <3>1, <3>4, <3>5 DEF Tracked, Deleted
  <2>22. ASSUME NEW a \in Attempt, Convert(a) PROVE FALSE
    BY <2>22, <2>t, <2>u DEF Convert, Advance, Leased, Holds, Tracked, Deleted, TypeOK
  <2>23. ASSUME NEW a \in Attempt, UploadArtifacts(a) PROVE FALSE
    BY <2>23, <2>t, <2>u DEF UploadArtifacts, Advance, Tracked, Deleted, TypeOK
  <2>24. ASSUME NEW a \in Attempt, CompleteConversionGeneration(a) PROVE FALSE
    BY <2>24, <2>t, <2>u
      DEF CompleteConversionGeneration, Advance, Leased, Holds, Tracked, Deleted, TypeOK
  <2>25. ASSUME NEW a \in Attempt, PrepareIndexes(a) PROVE FALSE
    BY <2>25, <2>t, <2>u
      DEF PrepareIndexes, Advance, Leased, Holds, Tracked, Deleted, TypeOK
  <2>26. ASSUME NEW a \in Attempt, ReplaceFileChunks(a) PROVE FALSE
    BY <2>26, <2>t, <2>u DEF ReplaceFileChunks, Advance, Tracked, Deleted, TypeOK
  <2>27. ASSUME NEW a \in Attempt, AssertBatchLease(a) PROVE FALSE
    BY <2>27, <2>t, <2>u
      DEF AssertBatchLease, Advance, Leased, Holds, Tracked, Deleted, TypeOK
  <2>28. ASSUME NEW a \in Attempt, IndexChunkBatch(a) PROVE FALSE
    BY <2>28, <2>t, <2>u DEF IndexChunkBatch, Tracked, Deleted, TypeOK
  <2>29. ASSUME NEW a \in Attempt, ActivateGeneration(a) PROVE FALSE
    <3>. DEFINE previous == active[fileOf[a]]
    <3>1. UNCHANGED <<jobGen, fileOf, fileStatus>> /\ active' = [active EXCEPT ![fileOf[a]] = a]
      BY <2>29 DEF ActivateGeneration
    <3>2. fileOf[a] \in Files
      BY <2>29, <2>t DEF ActivateGeneration, Leased, TypeOK
    <3>3. g # a
      BY <2>29, <3>1 DEF ActivateGeneration, Tracked
    <3>4. CASE g = previous
      <4>1. cleanup'[g] # "none"
        BY <2>29, <2>t, <3>3, <3>4 DEF ActivateGeneration, TypeOK
      <4>. QED BY <4>1 DEF Tracked
    <3>5. CASE g # previous
      <4>1. genStatus'[g] = genStatus[g] /\ cleanup'[g] = cleanup[g]
        BY <2>29, <2>t, <3>5 DEF ActivateGeneration, TypeOK
      <4>2. active[fileOf[g]] = g => active'[fileOf[g]] = g
        BY <3>1, <3>5
      <4>. QED BY <3>1, <4>1, <4>2 DEF Tracked, Deleted
    <3>. QED BY <3>4, <3>5
  <2>30. ASSUME NEW a \in Attempt, StepFails(a) PROVE FALSE
    BY <2>30, <2>t, <2>u DEF StepFails, Tracked, Deleted, TypeOK
  <2>31. ASSUME NEW a \in Attempt, FailConversionGeneration(a) PROVE FALSE
    BY <2>31, <2>t, <2>u
      DEF FailConversionGeneration, Advance, Leased, Holds, Tracked, Deleted, TypeOK
  <2>32. ASSUME NEW a \in Attempt, FailIngestionJob(a) PROVE FALSE
    BY <2>32, <2>t, <2>u
      DEF FailIngestionJob, Advance, Leased, Holds, Tracked, Deleted, TypeOK
  <2>33. ASSUME NEW a \in Attempt, RagStops(a) PROVE FALSE
    BY <2>33, <2>t, <2>u DEF RagStops, Tracked, Deleted, TypeOK
  <2>34. ASSUME NEW a \in Attempt, CleanupReadsGeneration(a) PROVE FALSE
    BY <2>34, <2>t, <2>u DEF CleanupReadsGeneration, Retired, Tracked, Deleted, TypeOK
  <2>35. ASSUME NEW a \in Attempt, CleanupDeletesIndex(a) PROVE FALSE
    BY <2>35, <2>t, <2>u DEF CleanupDeletesIndex, Tracked, Deleted, TypeOK
  <2>36. ASSUME NEW a \in Attempt, CleanupDeletesObjects(a) PROVE FALSE
    BY <2>36, <2>t, <2>u DEF CleanupDeletesObjects, Tracked, Deleted, TypeOK
  <2>37. ASSUME NEW a \in Attempt, FinalizeGenerationCleanup(a) PROVE FALSE
    BY <2>37, <2>t, <2>u DEF FinalizeGenerationCleanup, Retired, Tracked, Deleted, TypeOK
  <2>38. CASE UNCHANGED vars
    BY <2>38 DEF vars, Tracked, Deleted
  <2>. QED
    BY <2>1, <2>2, <2>3, <2>4, <2>5, <2>6, <2>7, <2>8, <2>9, <2>10, <2>11, <2>12, <2>13,
       <2>14, <2>15, <2>16, <2>17, <2>18, <2>19, <2>20, <2>21, <2>22, <2>23, <2>24, <2>25,
       <2>26, <2>27, <2>28, <2>29, <2>30, <2>31, <2>32, <2>33, <2>34, <2>35, <2>36, <2>37,
       <2>38
    DEF Next, ServerStep, UserStep, WorkerStep, RagStep, CleanupStepOf
<1>. QED
  BY <1>1, Invariant, PTL DEF Spec, LostOnlyByTakeover

-----------------------------------------------------------------------------
(* The pipeline implements DocumentPublication: under the view that        *)
(* retrieval has of it, every step publishes, builds, abandons or removes  *)
(* a whole version, or changes nothing.                                    *)


\* A step that leaves every generation's stage alone.
SameStages == \A g \in Attempt : Stage(g)' = Stage(g)

\* A step that changes neither what is served nor any stage.
LEMMA StutterStep ==
  ASSUME UNCHANGED active, SameStages, \A f \in Files : Deleted(f)' <=> Deleted(f)
  PROVE  UNCHANGED Publication!vars
<1>1. [g \in Attempt |-> Stage(g)]' = [g \in Attempt |-> Stage(g)]
  BY DEF SameStages
<1>2. {f \in Files : Deleted(f)}' = {f \in Files : Deleted(f)}
  OBVIOUS
<1>. QED BY <1>1, <1>2 DEF Publication!vars

\* A step after which one generation's last part is in place, or nothing changed.
LEMMA BuildStep ==
  ASSUME UNCHANGED <<active, fileStatus>>, NEW a \in Attempt,
         \A g \in Attempt \ {a} : Stage(g)' = Stage(g),
         Stage(a)' = Stage(a) \/ (Stage(a) = "building" /\ Stage(a)' = "ready")
  PROVE  [Publication!Next]_(Publication!vars)
<1>0. \A f \in Files : Deleted(f)' <=> Deleted(f)
  BY DEF Deleted
<1>1. CASE Stage(a)' = Stage(a)
  BY <1>0, <1>1, StutterStep DEF SameStages
<1>2. CASE Stage(a) = "building" /\ Stage(a)' = "ready"
  <2>1. [g \in Attempt |-> Stage(g)]' =
          [[g \in Attempt |-> Stage(g)] EXCEPT ![a] = "ready"]
    BY <1>2
  <2>2. {f \in Files : Deleted(f)}' = {f \in Files : Deleted(f)}
    BY <1>0
  <2>3. Publication!Build(a)
    BY <1>2, <2>1, <2>2 DEF Publication!Build
  <2>. QED BY <2>3 DEF Publication!Next
<1>. QED BY <1>1, <1>2

\* A step that retires one generation which no document is served in.
LEMMA AbandonStep ==
  ASSUME UNCHANGED active, \A f \in Files : Deleted(f)' <=> Deleted(f),
         NEW a \in Attempt, \A f \in Files : active[f] # a,
         \A g \in Attempt \ {a} : Stage(g)' = Stage(g),
         Stage(a)' = Stage(a) \/ Stage(a)' = "retired"
  PROVE  [Publication!Next]_(Publication!vars)
<1>1. CASE Stage(a)' = Stage(a)
  BY <1>1, StutterStep DEF SameStages
<1>2. CASE Stage(a) # "retired" /\ Stage(a)' = "retired"
  <2>1. [g \in Attempt |-> Stage(g)]' =
          [[g \in Attempt |-> Stage(g)] EXCEPT ![a] = "retired"]
    BY <1>2
  <2>2. {f \in Files : Deleted(f)}' = {f \in Files : Deleted(f)}
    OBVIOUS
  <2>3. Publication!Abandon(a)
    BY <1>2, <2>1, <2>2 DEF Publication!Abandon
  <2>. QED BY <2>3 DEF Publication!Next
<1>. QED BY <1>1, <1>2

\* Reconciliation abandons at most the generation of the ended attempt.
LEMMA ReconcileAbandons ==
  ASSUME IInv, NEW f \in Files, NEW a, ReconcileAttempt(f, a),
         UNCHANGED <<active, jobGen, chunks, index, artifacts>>
  PROVE  [Publication!Next]_(Publication!vars)
<1>. USE DEF Stage, Whole, Retired
<1>0. TypeOK
  BY DEF IInv
<1>1. \A e \in Files : Deleted(e)' <=> Deleted(e)
  BY <1>0 DEF ReconcileAttempt, Deleted, TypeOK
<1>2. CASE UNCHANGED <<genStatus, cleanup>>
  BY <1>1, <1>2, StutterStep DEF SameStages
<1>3. CASE RetireGeneration(f, jobGen[f])
  <2>1. CASE jobGen[f] = None \/ active[f] = jobGen[f]
    BY <1>1, <1>3, <2>1, StutterStep DEF SameStages, RetireGeneration
  <2>2. CASE jobGen[f] # None /\ active[f] # jobGen[f]
    <3>1. jobGen[f] \in Attempt /\ fileOf[jobGen[f]] = f
      BY <1>0, <2>2 DEF TypeOK, IInv, RowsOfClaims
    <3>2. \A e \in Files : active[e] # jobGen[f]
      BY <2>2, <3>1 DEF IInv, RowsOfClaims, None
    <3>3. \A g \in Attempt \ {jobGen[f]} : Stage(g)' = Stage(g)
      BY <1>0, <1>3, RetireEffect
    <3>4. Stage(jobGen[f])' = Stage(jobGen[f]) \/ Stage(jobGen[f])' = "retired"
      <4>1. genStatus[jobGen[f]] \in {"none", "deleted"} \cup Retired =>
              genStatus'[jobGen[f]] = genStatus[jobGen[f]]
        BY <1>0, <1>3, <3>1, RetireEffect
      <4>2. genStatus[jobGen[f]] = "converting" =>
              genStatus'[jobGen[f]] \in {"converting", "failed"}
        BY <1>0, <1>3, <3>1, RetireEffect
      <4>3. genStatus[jobGen[f]] = "completed" =>
              genStatus'[jobGen[f]] \in {"completed", "superseded"}
        BY <1>0, <1>3, <3>1, RetireEffect
      <4>4. genStatus[jobGen[f]] \in GenStatus
        BY <1>0, <3>1 DEF TypeOK
      <4>5. CASE genStatus'[jobGen[f]] = genStatus[jobGen[f]]
        BY <3>1, <4>5
      <4>6. CASE genStatus'[jobGen[f]] \in Retired
        BY <3>1, <4>6
      <4>. QED BY <4>1, <4>2, <4>3, <4>4, <4>5, <4>6 DEF GenStatus
    <3>. QED BY <1>1, <3>1, <3>2, <3>3, <3>4, AbandonStep
  <2>. QED BY <2>1, <2>2
<1>. QED BY <1>2, <1>3 DEF ReconcileAttempt

\* Every step of the pipeline is one of DocumentPublication, or none.
LEMMA RefinementStep == IInv /\ [Next]_vars => [Publication!Next]_(Publication!vars)
<1>. SUFFICES ASSUME IInv, [Next]_vars PROVE [Publication!Next]_(Publication!vars)
  OBVIOUS
<1>. USE DEF fileVars, jobVars, genVars, deleteVars, workVars, countVars
<1>t. TypeOK
  BY DEF IInv
<1>i. \A a \in Attempt : UNCHANGED <<genStatus, chunks, index, artifacts>> => Stage(a)' = Stage(a)
  BY DEF Stage, Whole
<1>1. ASSUME NEW f \in Files, Dispatch(f) PROVE [Publication!Next]_(Publication!vars)
  <2>1. SameStages /\ UNCHANGED active
    BY <1>1, <1>i DEF Dispatch, SameStages
  <2>2. \A e \in Files : Deleted(e)' <=> Deleted(e)
    BY <1>1, <1>t DEF Dispatch, Deleted
  <2>. QED BY <2>1, <2>2, StutterStep
<1>2. ASSUME NEW f \in Files, LoseMessage(f) PROVE [Publication!Next]_(Publication!vars)
  <2>1. SameStages /\ UNCHANGED active
    BY <1>2, <1>i DEF LoseMessage, SameStages
  <2>2. \A e \in Files : Deleted(e)' <=> Deleted(e)
    BY <1>2, <1>t DEF LoseMessage, Deleted
  <2>. QED BY <2>1, <2>2, StutterStep
<1>3. ASSUME NEW f \in Files, Redeliver(f) PROVE [Publication!Next]_(Publication!vars)
  <2>1. SameStages /\ UNCHANGED active
    BY <1>3, <1>i DEF Redeliver, SameStages
  <2>2. \A e \in Files : Deleted(e)' <=> Deleted(e)
    BY <1>3, <1>t DEF Redeliver, Deleted
  <2>. QED BY <2>1, <2>2, StutterStep
<1>4. ASSUME NEW f \in Files, Claim(f) PROVE [Publication!Next]_(Publication!vars)
  <2>1. SameStages /\ UNCHANGED active
    BY <1>4, <1>i DEF Claim, SameStages
  <2>2. \A e \in Files : Deleted(e)' <=> Deleted(e)
    BY <1>4, <1>t DEF Claim, Deleted, Dispatchable, TypeOK
  <2>. QED BY <2>1, <2>2, StutterStep
<1>5. ASSUME NEW f \in Files, Discard(f) PROVE [Publication!Next]_(Publication!vars)
  <2>1. SameStages /\ UNCHANGED active
    BY <1>5, <1>i DEF Discard, SameStages
  <2>2. \A e \in Files : Deleted(e)' <=> Deleted(e)
    BY <1>5, <1>t DEF Discard, Deleted
  <2>. QED BY <2>1, <2>2, StutterStep
<1>6. ASSUME NEW f \in Files, LeaseExpires(f) PROVE [Publication!Next]_(Publication!vars)
  <2>1. SameStages /\ UNCHANGED active
    BY <1>6, <1>i DEF LeaseExpires, SameStages
  <2>2. \A e \in Files : Deleted(e)' <=> Deleted(e)
    BY <1>6, <1>t DEF LeaseExpires, Deleted
  <2>. QED BY <2>1, <2>2, StutterStep
<1>7. ASSUME NEW f \in Files, DispatcherReconciles(f) PROVE [Publication!Next]_(Publication!vars)
  BY <1>7, ReconcileAbandons DEF DispatcherReconciles
<1>8. ASSUME NEW f \in Files, BackoffElapses(f) PROVE [Publication!Next]_(Publication!vars)
  <2>1. SameStages /\ UNCHANGED active
    BY <1>8, <1>i DEF BackoffElapses, SameStages
  <2>2. \A e \in Files : Deleted(e)' <=> Deleted(e)
    BY <1>8, <1>t DEF BackoffElapses, Deleted
  <2>. QED BY <2>1, <2>2, StutterStep
<1>9. ASSUME NEW f \in Files, RetryFailedFile(f) PROVE [Publication!Next]_(Publication!vars)
  <2>1. SameStages /\ UNCHANGED active
    BY <1>9, <1>i DEF RetryFailedFile, SameStages, Reset
  <2>2. \A e \in Files : Deleted(e)' <=> Deleted(e)
    BY <1>9, <1>t DEF RetryFailedFile, Deleted, Reset, TypeOK
  <2>. QED BY <2>1, <2>2, StutterStep
<1>10. ASSUME NEW f \in Files, QueueForReingestion(f) PROVE [Publication!Next]_(Publication!vars)
  <2>1. SameStages /\ UNCHANGED active
    BY <1>10, <1>i DEF QueueForReingestion, SameStages, Reset
  <2>2. \A e \in Files : Deleted(e)' <=> Deleted(e)
    BY <1>10, <1>t DEF QueueForReingestion, Deleted, Reset, TypeOK
  <2>. QED BY <2>1, <2>2, StutterStep
<1>11. ASSUME NEW f \in Files, DeleteFile(f) PROVE [Publication!Next]_(Publication!vars)
  <2>1. UNCHANGED active /\ SameStages
    BY <1>11, <1>i DEF DeleteFile, SameStages
  <2>2. {e \in Files : Deleted(e)}' = {e \in Files : Deleted(e)} \cup {f}
    BY <1>11, <1>t DEF DeleteFile, Deleted, TypeOK
  <2>3. [g \in Attempt |-> Stage(g)]' = [g \in Attempt |-> Stage(g)]
    BY <2>1 DEF SameStages
  <2>4. Publication!RequestRemoval(f)
    BY <2>1, <2>2, <2>3 DEF Publication!RequestRemoval
  <2>. QED BY <2>4 DEF Publication!Next
<1>12. ASSUME NEW f \in Files, DeletionClearsIndexes(f) PROVE [Publication!Next]_(Publication!vars)
  <2>. DEFINE parts == {a \in Attempt : fileOf[a] = f}
  <2>1. Deleted(f) /\ UNCHANGED <<active, fileStatus>>
    BY <1>12 DEF DeletionClearsIndexes, IInv, StatusesAgree
  <2>2. \A d \in Files \ {e \in Files : Deleted(e)} : active[d] \notin parts
    BY <2>1 DEF IInv, RowsOfClaims, None, Attempt
  <2>3. \A g \in Attempt :
          Stage(g)' = IF g \in parts /\ Stage(g) = "ready" THEN "building" ELSE Stage(g)
    BY <1>12, <1>t DEF DeletionClearsIndexes, TypeOK, Stage, Whole
  <2>4. {e \in Files : Deleted(e)}' = {e \in Files : Deleted(e)}
    BY <2>1 DEF Deleted
  <2>5. Publication!Dismantle(parts)
    BY <2>1, <2>2, <2>3, <2>4 DEF Publication!Dismantle
  <2>. QED BY <2>5 DEF Publication!Next
<1>13. ASSUME NEW f \in Files, DeletionClearsObjects(f) PROVE [Publication!Next]_(Publication!vars)
  <2>. DEFINE parts == doomed[f]
  <2>1. Deleted(f) /\ UNCHANGED <<active, fileStatus>>
    BY <1>13 DEF DeletionClearsObjects, IInv, StatusesAgree
  <2>2. \A d \in Files \ {e \in Files : Deleted(e)} : active[d] \notin parts
    <3>. SUFFICES ASSUME NEW d \in Files, ~Deleted(d), active[d] \in parts PROVE FALSE
      OBVIOUS
    <3>1. fileOf[active[d]] = f /\ active[d] # None
      BY <1>t DEF IInv, TypeOK, RowsOfClaims, None, Attempt
    <3>. QED BY <2>1, <3>1 DEF IInv, RowsOfClaims
  <2>3. \A g \in Attempt :
          Stage(g)' = IF g \in parts /\ Stage(g) = "ready" THEN "building" ELSE Stage(g)
    BY <1>13, <1>t DEF DeletionClearsObjects, TypeOK, Stage, Whole
  <2>4. {e \in Files : Deleted(e)}' = {e \in Files : Deleted(e)}
    BY <2>1 DEF Deleted
  <2>5. parts \in SUBSET Attempt
    BY <1>t DEF TypeOK
  <2>6. Publication!Dismantle(parts)
    BY <2>1, <2>2, <2>3, <2>4 DEF Publication!Dismantle
  <2>. QED BY <2>5, <2>6 DEF Publication!Next
<1>14. ASSUME NEW f \in Files, FinalizeDeletion(f) PROVE [Publication!Next]_(Publication!vars)
  <2>1. Deleted(f)
    BY <1>14 DEF FinalizeDeletion, IInv, StatusesAgree
  <2>2. \A e \in Files \ {f} : active[e] \notin GenerationsOf(f)
    BY DEF IInv, RowsOfClaims, GenerationsOf, None, Attempt
  <2>3. active' = [active EXCEPT ![f] = None]
    BY <1>14 DEF FinalizeDeletion
  <2>4. \A g \in Attempt :
          Stage(g)' = IF g \in GenerationsOf(f) THEN "retired" ELSE Stage(g)
    <3>. SUFFICES ASSUME NEW g \in Attempt
                  PROVE  Stage(g)' = IF g \in GenerationsOf(f) THEN "retired" ELSE Stage(g)
      OBVIOUS
    <3>1. CASE g \in GenerationsOf(f)
      BY <1>14, <3>1 DEF FinalizeDeletion, Stage
    <3>2. CASE g \notin GenerationsOf(f)
      <4>1. genStatus'[g] = genStatus[g] /\ index'[g] = index[g] /\ artifacts'[g] = artifacts[g]
        BY <1>14, <3>2 DEF FinalizeDeletion
      <4>2. fileOf[g] # f => chunks'[g] = chunks[g]
        BY <1>14, <1>t DEF FinalizeDeletion, TypeOK
      <4>3. fileOf[g] = f => genStatus[g] \in {"none", "deleted"}
        BY <3>2 DEF GenerationsOf
      <4>. QED BY <3>2, <4>1, <4>2, <4>3 DEF Stage, Whole, Retired
    <3>. QED BY <3>1, <3>2
  <2>5. {e \in Files : Deleted(e)}' = {e \in Files : Deleted(e)}
    BY <1>14, <2>1, <1>t DEF FinalizeDeletion, Deleted, TypeOK
  <2>6. Publication!RemoveDocument(f, GenerationsOf(f))
    BY <2>1, <2>2, <2>3, <2>4, <2>5 DEF Publication!RemoveDocument
  <2>. QED BY <2>6 DEF Publication!Next, GenerationsOf
<1>15. ASSUME NEW a \in Attempt, RequestEnds(a) PROVE [Publication!Next]_(Publication!vars)
  <2>1. SameStages /\ UNCHANGED active
    BY <1>15, <1>i DEF RequestEnds, SameStages
  <2>2. \A e \in Files : Deleted(e)' <=> Deleted(e)
    BY <1>15, <1>t DEF RequestEnds, Deleted
  <2>. QED BY <2>1, <2>2, StutterStep
<1>16. ASSUME NEW a \in Attempt, RequestRefused(a) PROVE [Publication!Next]_(Publication!vars)
  <2>1. SameStages /\ UNCHANGED active
    BY <1>16, <1>i DEF RequestRefused, SameStages
  <2>2. \A e \in Files : Deleted(e)' <=> Deleted(e)
    BY <1>16, <1>t DEF RequestRefused, Deleted
  <2>. QED BY <2>1, <2>2, StutterStep
<1>17. ASSUME NEW a \in Attempt, WorkerReconciles(a) PROVE [Publication!Next]_(Publication!vars)
  <2>1. a <= claims
    BY <1>17 DEF WorkerReconciles, IInv, TypeOK, ClaimsInOrder, Fresh, Attempt
  <2>2. fileOf[a] \in Files
    BY <2>1 DEF IInv, ClaimsInOrder
  <2>. QED BY <1>17, <2>2, ReconcileAbandons DEF WorkerReconciles
<1>18. ASSUME NEW a \in Attempt, ServerCrashes(a) PROVE [Publication!Next]_(Publication!vars)
  <2>1. SameStages /\ UNCHANGED active
    BY <1>18, <1>i DEF ServerCrashes, SameStages
  <2>2. \A e \in Files : Deleted(e)' <=> Deleted(e)
    BY <1>18, <1>t DEF ServerCrashes, Deleted
  <2>. QED BY <2>1, <2>2, StutterStep
<1>19. ASSUME NEW a \in Attempt, RagReceives(a) PROVE [Publication!Next]_(Publication!vars)
  <2>1. SameStages /\ UNCHANGED active
    BY <1>19, <1>i DEF RagReceives, SameStages
  <2>2. \A e \in Files : Deleted(e)' <=> Deleted(e)
    BY <1>19, <1>t DEF RagReceives, Deleted
  <2>. QED BY <2>1, <2>2, StutterStep
<1>20. ASSUME NEW a \in Attempt, StartIngestionJob(a) PROVE [Publication!Next]_(Publication!vars)
  <2>1. SameStages /\ UNCHANGED active
    BY <1>20, <1>i DEF StartIngestionJob, SameStages
  <2>2. \A e \in Files : Deleted(e)' <=> Deleted(e)
    BY <1>20, <1>t DEF StartIngestionJob, Deleted
  <2>. QED BY <2>1, <2>2, StutterStep
<1>21. ASSUME NEW a \in Attempt, CreateConversionGeneration(a) PROVE [Publication!Next]_(Publication!vars)
  BY <1>21, <1>t, BuildStep
    DEF CreateConversionGeneration, Advance, TypeOK, Stage, Whole, Retired
<1>22. ASSUME NEW a \in Attempt, Convert(a) PROVE [Publication!Next]_(Publication!vars)
  <2>1. SameStages /\ UNCHANGED active
    BY <1>22, <1>i DEF Convert, SameStages
  <2>2. \A e \in Files : Deleted(e)' <=> Deleted(e)
    BY <1>22, <1>t DEF Convert, Deleted
  <2>. QED BY <2>1, <2>2, StutterStep
<1>23. ASSUME NEW a \in Attempt, UploadArtifacts(a) PROVE [Publication!Next]_(Publication!vars)
  <2>1. genStatus[a] # "completed"
    BY <1>23 DEF UploadArtifacts, Advance, IInv, PhaseTellsParts, Converting
  <2>. QED BY <1>23, <2>1, <1>t, BuildStep DEF UploadArtifacts, TypeOK, Stage, Whole
<1>24. ASSUME NEW a \in Attempt, CompleteConversionGeneration(a) PROVE [Publication!Next]_(Publication!vars)
  <2>1. Stage(a) = "building" /\ Stage(a)' \in {"building", "ready"}
    BY <1>24, <1>t DEF CompleteConversionGeneration, TypeOK, Stage, Whole, Retired
  <2>2. \A g \in Attempt \ {a} : Stage(g)' = Stage(g)
    BY <1>24, <1>t DEF CompleteConversionGeneration, TypeOK, Stage, Whole
  <2>. QED BY <1>24, <2>1, <2>2, BuildStep DEF CompleteConversionGeneration
<1>25. ASSUME NEW a \in Attempt, PrepareIndexes(a) PROVE [Publication!Next]_(Publication!vars)
  <2>1. SameStages /\ UNCHANGED active
    BY <1>25, <1>i DEF PrepareIndexes, SameStages
  <2>2. \A e \in Files : Deleted(e)' <=> Deleted(e)
    BY <1>25, <1>t DEF PrepareIndexes, Deleted
  <2>. QED BY <2>1, <2>2, StutterStep
<1>26. ASSUME NEW a \in Attempt, ReplaceFileChunks(a) PROVE [Publication!Next]_(Publication!vars)
  <2>1. Stage(a)' = Stage(a) \/ (Stage(a) = "building" /\ Stage(a)' = "ready")
    BY <1>26, <1>t DEF ReplaceFileChunks, TypeOK, Stage, Whole
  <2>2. \A g \in Attempt \ {a} : Stage(g)' = Stage(g)
    BY <1>26, <1>t DEF ReplaceFileChunks, TypeOK, Stage, Whole
  <2>. QED BY <1>26, <2>1, <2>2, BuildStep DEF ReplaceFileChunks
<1>27. ASSUME NEW a \in Attempt, AssertBatchLease(a) PROVE [Publication!Next]_(Publication!vars)
  <2>1. SameStages /\ UNCHANGED active
    BY <1>27, <1>i DEF AssertBatchLease, SameStages
  <2>2. \A e \in Files : Deleted(e)' <=> Deleted(e)
    BY <1>27, <1>t DEF AssertBatchLease, Deleted
  <2>. QED BY <2>1, <2>2, StutterStep
<1>28. ASSUME NEW a \in Attempt, IndexChunkBatch(a) PROVE [Publication!Next]_(Publication!vars)
  <2>1. Stage(a)' = Stage(a) \/ (Stage(a) = "building" /\ Stage(a)' = "ready")
    BY <1>28, <1>t DEF IndexChunkBatch, TypeOK, Stage, Whole
  <2>2. \A g \in Attempt \ {a} : Stage(g)' = Stage(g)
    BY <1>28, <1>t DEF IndexChunkBatch, TypeOK, Stage, Whole
  <2>. QED BY <1>28, <2>1, <2>2, BuildStep DEF IndexChunkBatch
<1>29. ASSUME NEW a \in Attempt, ActivateGeneration(a) PROVE [Publication!Next]_(Publication!vars)
  <2>. DEFINE f == fileOf[a]
  <2>1. f \in Files /\ ~Deleted(f)
    BY <1>29, <1>t DEF ActivateGeneration, Leased, TypeOK, Deleted
  <2>2. Stage(a) = "ready"
    BY <1>29, <2>1, <1>t
      DEF ActivateGeneration, Advance, Stage, Whole, Retired, IInv, PhaseTellsParts
  <2>3. active[f] \in Attempt => active[f] < a
    <3>1. jobAttempt[f] = a /\ jobStatus[f] = "processing"
      BY <1>29 DEF ActivateGeneration, Leased, Holds
    <3>2. active[f] # a
      BY <2>1, <3>1 DEF IInv, StatusesAgree, None, Attempt
    <3>3. active[f] <= a
      BY <2>1, <3>1 DEF IInv, RowsOfClaims
    <3>. QED BY <3>2, <3>3, ClaimBound DEF Attempt
  <2>4. active' = [active EXCEPT ![f] = a]
    BY <1>29 DEF ActivateGeneration
  <2>5. \A g \in Attempt : Stage(g)' = IF g = active[f] THEN "retired" ELSE Stage(g)
    <3>1. CASE active[f] \in Attempt \ {a}
      <4>1. genStatus' = [genStatus EXCEPT ![active[f]] = "superseded"]
        BY <1>29, <3>1 DEF ActivateGeneration
      <4>. QED BY <1>29, <4>1, <1>t DEF ActivateGeneration, TypeOK, Stage, Whole, Retired
    <3>2. CASE active[f] \notin Attempt \ {a}
      <4>1. UNCHANGED genStatus
        BY <1>29, <3>2 DEF ActivateGeneration
      <4>2. active[f] \notin Attempt
        BY <2>3, <3>2, ClaimBound DEF Attempt
      <4>. QED BY <1>29, <4>1, <4>2 DEF ActivateGeneration, Stage, Whole
    <3>. QED BY <3>1, <3>2
  <2>6. {e \in Files : Deleted(e)}' = {e \in Files : Deleted(e)}
    BY <1>29 DEF ActivateGeneration, Deleted
  <2>7. \A e \in Files : active[e] # a
    BY <2>1, <2>3, ClaimBound DEF IInv, RowsOfClaims, None, Attempt
  <2>8. Publication!Publish(f, a)
    BY <2>1, <2>2, <2>3, <2>4, <2>5, <2>6, <2>7 DEF Publication!Publish
  <2>. QED BY <2>1, <2>8 DEF Publication!Next
<1>30. ASSUME NEW a \in Attempt, StepFails(a) PROVE [Publication!Next]_(Publication!vars)
  <2>1. rag[a] \in Converting => genStatus[a] # "completed"
    BY DEF IInv, PhaseTellsParts
  <2>2. SameStages /\ UNCHANGED <<active, fileStatus>>
    <3>1. CASE UNCHANGED <<genStatus, chunks, index, artifacts>>
      BY <1>30, <3>1, <1>i DEF StepFails, SameStages
    <3>2. CASE rag[a] \in Converting /\ artifacts' = [artifacts EXCEPT ![a] = FALSE]
      BY <1>30, <2>1, <3>2, <1>t DEF StepFails, SameStages, Stage, Whole, TypeOK, Converting
    <3>. QED BY <1>30, <3>1, <3>2 DEF StepFails, Converting
  <2>. QED BY <2>2, StutterStep DEF Deleted
<1>31. ASSUME NEW a \in Attempt, FailConversionGeneration(a) PROVE [Publication!Next]_(Publication!vars)
  <2>1. \A f \in Files : active[f] # a
    BY <1>31 DEF FailConversionGeneration, Advance, IInv, ServedIsFinished, None, Attempt
  <2>2. Stage(a)' = Stage(a) \/ Stage(a)' = "retired"
    BY <1>31, <1>t DEF FailConversionGeneration, TypeOK, Stage, Whole, Retired
  <2>3. \A g \in Attempt \ {a} : Stage(g)' = Stage(g)
    BY <1>31, <1>t DEF FailConversionGeneration, TypeOK, Stage, Whole
  <2>4. \A f \in Files : Deleted(f)' <=> Deleted(f)
    BY <1>31 DEF FailConversionGeneration, Deleted
  <2>. QED BY <1>31, <2>1, <2>2, <2>3, <2>4, AbandonStep DEF FailConversionGeneration
<1>32. ASSUME NEW a \in Attempt, FailIngestionJob(a) PROVE [Publication!Next]_(Publication!vars)
  <2>1. SameStages /\ UNCHANGED active
    BY <1>32, <1>i DEF FailIngestionJob, SameStages
  <2>2. \A e \in Files : Deleted(e)' <=> Deleted(e)
    BY <1>32, <1>t DEF FailIngestionJob, Deleted
  <2>. QED BY <2>1, <2>2, StutterStep
<1>33. ASSUME NEW a \in Attempt, RagStops(a) PROVE [Publication!Next]_(Publication!vars)
  <2>1. SameStages /\ UNCHANGED active
    BY <1>33, <1>i DEF RagStops, SameStages
  <2>2. \A e \in Files : Deleted(e)' <=> Deleted(e)
    BY <1>33, <1>t DEF RagStops, Deleted
  <2>. QED BY <2>1, <2>2, StutterStep
<1>34. ASSUME NEW a \in Attempt, CleanupReadsGeneration(a) PROVE [Publication!Next]_(Publication!vars)
  <2>1. SameStages /\ UNCHANGED active
    BY <1>34, <1>i DEF CleanupReadsGeneration, SameStages
  <2>2. \A e \in Files : Deleted(e)' <=> Deleted(e)
    BY <1>34, <1>t DEF CleanupReadsGeneration, Deleted
  <2>. QED BY <2>1, <2>2, StutterStep
<1>35. ASSUME NEW a \in Attempt, CleanupDeletesIndex(a) PROVE [Publication!Next]_(Publication!vars)
  <2>1. genStatus[a] \in Retired \cup {"deleted"}
    BY <1>35 DEF CleanupDeletesIndex, IInv, PhaseTellsParts
  <2>2. SameStages /\ UNCHANGED <<active, fileStatus>>
    BY <1>35, <2>1, <1>t DEF CleanupDeletesIndex, SameStages, Stage, Whole, TypeOK
  <2>. QED BY <2>2, StutterStep DEF Deleted
<1>36. ASSUME NEW a \in Attempt, CleanupDeletesObjects(a) PROVE [Publication!Next]_(Publication!vars)
  <2>1. genStatus[a] \in Retired \cup {"deleted"}
    BY <1>36 DEF CleanupDeletesObjects, IInv, PhaseTellsParts
  <2>2. SameStages /\ UNCHANGED <<active, fileStatus>>
    BY <1>36, <2>1, <1>t DEF CleanupDeletesObjects, SameStages, Stage, Whole, TypeOK
  <2>. QED BY <2>2, StutterStep DEF Deleted
<1>37. ASSUME NEW a \in Attempt, FinalizeGenerationCleanup(a) PROVE [Publication!Next]_(Publication!vars)
  <2>1. genStatus[a] \in Retired \cup {"deleted"}
    BY <1>37 DEF FinalizeGenerationCleanup
  <2>2. SameStages /\ UNCHANGED <<active, fileStatus>>
    BY <1>37, <2>1, <1>t
      DEF FinalizeGenerationCleanup, SameStages, Stage, Whole, TypeOK, Retired
  <2>. QED BY <2>2, StutterStep DEF Deleted
<1>38. CASE UNCHANGED vars
  BY <1>38, StutterStep DEF vars, SameStages, Stage, Whole, Deleted
<1>. QED
  BY <1>1, <1>2, <1>3, <1>4, <1>5, <1>6, <1>7, <1>8, <1>9, <1>10, <1>11, <1>12, <1>13,
     <1>14, <1>15, <1>16, <1>17, <1>18, <1>19, <1>20, <1>21, <1>22, <1>23, <1>24, <1>25,
     <1>26, <1>27, <1>28, <1>29, <1>30, <1>31, <1>32, <1>33, <1>34, <1>35, <1>36, <1>37,
     <1>38
  DEF Next, ServerStep, UserStep, WorkerStep, RagStep, CleanupStepOf

\* The pipeline implements what DocumentPublication promises its readers.
THEOREM Implements == Spec => ImplementsPublication
<1>1. Init => Publication!Init
  BY DEF Init, Publication!Init, Stage, Whole, Retired, Deleted
<1>. QED
  BY <1>1, RefinementStep, Invariant, PTL DEF Spec, ImplementsPublication, Publication!Spec

=============================================================================
