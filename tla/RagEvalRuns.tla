----------------------------- MODULE RagEvalRuns -----------------------------
(* The evaluation runs of one dataset: their rows in rag_eval_runs, the      *)
(* queue workers that execute them under a lease, the controllers each       *)
(* server keeps to abort an execution, cancellation, deadlines and the       *)
(* maintenance. A worker's job is claimed by its own statement, so a message *)
(* that is lost, repeated or late changes nothing: any worker may try to     *)
(* claim any run at any time. The lease token of a claim is the number of    *)
(* the attempt. Cases and scores are abstracted: an evaluation returns       *)
(* results or fails.                                                         *)
EXTENDS Naturals

CONSTANTS
    Server,         \* server processes
    Worker,         \* concurrent executions
    Home,           \* the server of each worker
    MaxRuns,        \* bound: runs that are ever created
    MaxAttempts     \* RAG_EVAL_QUEUE_MAX_ATTEMPTS

ASSUME RagEvalAssumption ==
    /\ Home \in [Worker -> Server]
    /\ MaxRuns \in Nat \ {0} /\ MaxAttempts \in Nat \ {0}

Run == 1 .. MaxRuns
Token == 1 .. MaxAttempts
None == 0

VARIABLES
    run,        \* the rows of rag_eval_runs
    results,    \* per run: the attempt whose results are stored
    worker,     \* per worker: where it is, its run, its token, its signal
    registry,   \* activeControllers of each server: the token per run
    stopping,   \* the servers that are being stopped
    answer      \* per server: the run whose cancellation it has just stored

vars == <<run, results, worker, registry, stopping, answer>>

Unborn == [status |-> "none", attempts |-> 0, lease |-> None,
           expired |-> FALSE, due |-> FALSE, over |-> FALSE, old |-> FALSE]
Idle == [at |-> "idle", run |-> None, token |-> None, aborted |-> FALSE]

RunRow ==
    [status : {"none", "running", "completed", "failed", "cancelled"},
     attempts : 0 .. MaxAttempts, lease : Token \cup {None},
     expired : BOOLEAN, due : BOOLEAN, over : BOOLEAN, old : BOOLEAN]
Execution ==
    [at : {"idle", "start", "prepare", "evaluate", "complete", "failed"},
     run : Run \cup {None}, token : Token \cup {None}, aborted : BOOLEAN]

TypeOK ==
    /\ run \in [Run -> RunRow]
    /\ results \in [Run -> Token \cup {None}]
    /\ worker \in [Worker -> Execution]
    /\ registry \in [Server -> [Run -> Token \cup {None}]]
    /\ stopping \in SUBSET Server
    /\ answer \in [Server -> Run \cup {None}]

Init ==
    /\ run = [r \in Run |-> Unborn]
    /\ results = [r \in Run |-> None]
    /\ worker = [w \in Worker |-> Idle]
    /\ registry = [s \in Server |-> [r \in Run |-> None]]
    /\ stopping = {}
    /\ answer = [s \in Server |-> None]

Running(r) == run[r].status = "running"
Ended(r) == run[r].status \in {"completed", "failed", "cancelled"}

(* The row without its claim.                                               *)
Unclaimed(row) == [row EXCEPT !.lease = None, !.expired = FALSE]

EndAs(r, status) == run' = [run EXCEPT ![r] = [Unclaimed(@) EXCEPT !.status = status]]

Move(w, at) == worker' = [worker EXCEPT ![w].at = at]
Leave(w) == worker' = [worker EXCEPT ![w] = Idle]
Working(w) == worker[w].at \in {"prepare", "evaluate"}

-----------------------------------------------------------------------------
(* createRunningRagEvalRunForUser; a dataset has one running run.            *)
Create(r) ==
    /\ run[r].status = "none"
    /\ \A q \in Run : ~Running(q) /\ (q < r => run[q].status # "none")
    /\ run' = [run EXCEPT ![r] = [Unborn EXCEPT !.status = "running", !.due = TRUE]]
    /\ UNCHANGED <<results, worker, registry, stopping, answer>>

(* claimNextRagEvalRunJob                                                    *)
Claimable(r) ==
    /\ Running(r) /\ ~run[r].over
    /\ run[r].attempts < MaxAttempts
    /\ IF run[r].lease = None THEN run[r].due ELSE run[r].expired

Claim(w, r) ==
    /\ worker[w].at = "idle" /\ Home[w] \notin stopping
    /\ Claimable(r)
    /\ LET token == run[r].attempts + 1
       IN  /\ run' = [run EXCEPT ![r] =
                        [@ EXCEPT !.attempts = token, !.lease = token,
                                  !.expired = FALSE, !.due = TRUE]]
           /\ worker' = [worker EXCEPT ![w] =
                           [at |-> "start", run |-> r, token |-> token,
                            aborted |-> FALSE]]
    /\ UNCHANGED <<results, registry, stopping, answer>>

-----------------------------------------------------------------------------
(* executeRagEvalRequest. A run past its deadline is not begun; otherwise    *)
(* the controller is registered, in place of any other of the same run.      *)
Start(w) ==
    /\ worker[w].at = "start"
    /\ LET r == worker[w].run
       IN  IF run[r].over
           THEN Move(w, "failed") /\ UNCHANGED registry
           ELSE /\ Move(w, "prepare")
                /\ registry' = [registry EXCEPT ![Home[w]][r] = worker[w].token]
    /\ UNCHANGED <<run, results, stopping, answer>>

(* The execution is over: the heartbeat stops and the controller goes, if    *)
(* it is still this one.                                                     *)
Unregister(w) ==
    registry' = [registry EXCEPT ![Home[w]][worker[w].run] =
                   IF @ = worker[w].token THEN None ELSE @]

Finish(w, at) ==
    /\ Move(w, at)
    /\ Unregister(w)
    /\ UNCHANGED <<run, results, stopping, answer>>

(* Mutant: statements that are not fenced by the token.                      *)
HoldsSomeLease(w) ==
    LET row == run[worker[w].run]
    IN  row.status = "running" /\ row.lease # None /\ ~row.expired /\ ~row.over

(* The worker still holds the run, as every fenced statement and             *)
(* assert_eval_lease_active ask.                                             *)
Holds(w) ==
    LET row == run[worker[w].run]
    IN  /\ row.status = "running" /\ row.lease = worker[w].token
        /\ ~row.expired /\ ~row.over

(* prepareRagEvalCases: the answers are generated.                           *)
Prepare(w) ==
    /\ worker[w].at = "prepare" /\ ~run[worker[w].run].over
    /\ Move(w, "evaluate")
    /\ UNCHANGED <<run, results, registry, stopping, answer>>

(* run_eval_cases in the RAG service checks the lease once more at its end.  *)
EvaluationReturns(w) ==
    /\ worker[w].at = "evaluate" /\ Holds(w)
    /\ Finish(w, "complete")

(* A request that fails, a check that fails or, once aborted, the signal.    *)
ExecutionFails(w) == Working(w) /\ Finish(w, "failed")

Aborts(w) == worker[w].aborted /\ ExecutionFails(w)

(* startRagEvalHeartbeat: a lease that cannot be renewed, or not be asked    *)
(* for, aborts the execution. So does the timer of the deadline.             *)
Signal(w) ==
    /\ Working(w)
    /\ worker' = [worker EXCEPT ![w].aborted = TRUE]
    /\ UNCHANGED <<run, results, registry, stopping, answer>>

LoseLease(w) == Working(w) /\ ~Holds(w) /\ Signal(w)
HeartbeatFails(w) == Signal(w)
DeadlineTimer(w) == Working(w) /\ run[worker[w].run].over /\ Signal(w)

(* completeRagEvalRunWithResults: the run ends and its results are stored,   *)
(* unless the lease was lost; a failed transaction counts as a failed        *)
(* attempt. A run of which some cases failed is "partial", which is taken    *)
(* with "completed" here; one of which all failed is "failed".               *)
Complete(w) ==
    /\ worker[w].at = "complete"
    /\ LET r == worker[w].run
       IN  \/ /\ Holds(w)
              /\ EndAs(r, "completed") \/ EndAs(r, "failed")
              /\ results' = [results EXCEPT ![r] = worker[w].token]
              /\ Leave(w)
           \/ ~Holds(w) /\ Leave(w) /\ UNCHANGED <<run, results>>
           \/ Move(w, "failed") /\ UNCHANGED <<run, results>>
    /\ UNCHANGED <<registry, stopping, answer>>

(* markRagEvalRunAttemptFailed, which may fail itself. It asks for the token *)
(* but not for a lease that is still valid.                                  *)
Exhausted(w) == worker[w].token >= MaxAttempts \/ run[worker[w].run].over

MarkAttemptFailed(w) ==
    /\ worker[w].at = "failed"
    /\ Leave(w)
    /\ LET r == worker[w].run
       IN  \/ /\ Running(r) /\ run[r].lease = worker[w].token
              /\ IF Exhausted(w) THEN EndAs(r, "failed")
                 ELSE run' = [run EXCEPT ![r] = [Unclaimed(@) EXCEPT !.due = FALSE]]
           \/ UNCHANGED run
    /\ UNCHANGED <<results, registry, stopping, answer>>

-----------------------------------------------------------------------------
(* cancelRun: the row first, then the controller of this server, if any.     *)
Cancel(s, r) ==
    /\ answer[s] = None /\ Running(r)
    /\ EndAs(r, "cancelled")
    /\ answer' = [answer EXCEPT ![s] = r]
    /\ UNCHANGED <<results, worker, registry, stopping>>

Registered(w) ==
    worker[w].run # None /\ registry[Home[w]][worker[w].run] = worker[w].token

Executing(s) == {w \in Worker : Home[w] = s /\ Working(w) /\ Registered(w)}

SignalAll(workers) ==
    worker' = [w \in Worker |-> IF w \in workers
                                THEN [worker[w] EXCEPT !.aborted = TRUE]
                                ELSE worker[w]]

AbortRun(s) ==
    /\ answer[s] # None
    /\ SignalAll({w \in Executing(s) : worker[w].run = answer[s]})
    /\ answer' = [answer EXCEPT ![s] = None]
    /\ UNCHANGED <<run, results, registry, stopping>>

(* stop: every controller is aborted and forgotten, and the server waits for *)
(* the executions that have begun.                                           *)
Stop(s) ==
    /\ s \notin stopping
    /\ stopping' = stopping \cup {s}
    /\ SignalAll(Executing(s))
    /\ registry' = [registry EXCEPT ![s] = [r \in Run |-> None]]
    /\ UNCHANGED <<run, results, answer>>

Restart(s) ==
    /\ s \in stopping
    /\ \A w \in Worker : Home[w] = s => worker[w].at = "idle"
    /\ stopping' = stopping \ {s}
    /\ UNCHANGED <<run, results, worker, registry, answer>>

Crash(s) ==
    /\ \E w \in Worker : Home[w] = s /\ worker[w].at # "idle"
    /\ worker' = [w \in Worker |-> IF Home[w] = s THEN Idle ELSE worker[w]]
    /\ registry' = [registry EXCEPT ![s] = [r \in Run |-> None]]
    /\ answer' = [answer EXCEPT ![s] = None]
    /\ stopping' = stopping \ {s}
    /\ UNCHANGED <<run, results>>

-----------------------------------------------------------------------------
(* The clock and the maintenance.                                            *)

OnlyRuns == UNCHANGED <<results, worker, registry, stopping, answer>>

(* A claim is answered, and its execution registered, within its lease.      *)
LeaseExpires(r) ==
    /\ run[r].lease # None /\ ~run[r].expired
    /\ \A w \in Worker : worker[w].run = r /\ worker[w].token = run[r].lease
                            => worker[w].at # "start"
    /\ run' = [run EXCEPT ![r].expired = TRUE]
    /\ OnlyRuns

RetryIsDue(r) ==
    /\ Running(r) /\ ~run[r].due
    /\ run' = [run EXCEPT ![r].due = TRUE]
    /\ OnlyRuns

DeadlinePasses(r) ==
    /\ Running(r) /\ ~run[r].over
    /\ run' = [run EXCEPT ![r].over = TRUE]
    /\ OnlyRuns

(* RAG_EVAL_STALE_RUN_MS, which need not be longer than the deadline.        *)
GetsOld(r) ==
    /\ Running(r) /\ ~run[r].old
    /\ run' = [run EXCEPT ![r].old = TRUE]
    /\ OnlyRuns

(* resetStaleRagEvalRunJobs                                                  *)
ResetStale(r) ==
    /\ Running(r) /\ run[r].lease # None /\ run[r].expired
    /\ ~run[r].over /\ run[r].attempts < MaxAttempts
    /\ run' = [run EXCEPT ![r] = [Unclaimed(@) EXCEPT !.due = TRUE]]
    /\ OnlyRuns

FailStaleExhausted(r) ==
    /\ Running(r)
    /\ run[r].old /\ run[r].attempts >= MaxAttempts
    /\ EndAs(r, "failed")
    /\ OnlyRuns

(* failStaleRunningRagEvalRuns                                               *)
FailStale(r) ==
    /\ Running(r)
    /\ run[r].over \/ (run[r].old /\ run[r].attempts >= MaxAttempts)
    /\ EndAs(r, "failed")
    /\ OnlyRuns

-----------------------------------------------------------------------------
Execute(w) ==
    \/ Start(w) \/ Prepare(w) \/ EvaluationReturns(w) \/ ExecutionFails(w)
    \/ LoseLease(w) \/ HeartbeatFails(w) \/ DeadlineTimer(w)
    \/ Complete(w) \/ MarkAttemptFailed(w)

Administer(s) ==
    \/ \E r \in Run : Cancel(s, r)
    \/ AbortRun(s) \/ Stop(s) \/ Restart(s) \/ Crash(s)

Pass(r) ==
    \/ LeaseExpires(r) \/ RetryIsDue(r) \/ DeadlinePasses(r) \/ GetsOld(r)
    \/ ResetStale(r) \/ FailStale(r)

Next ==
    \/ \E r \in Run : Create(r) \/ Pass(r)
    \/ \E w \in Worker : Execute(w) \/ \E r \in Run : Claim(w, r)
    \/ \E s \in Server : Administer(s)

(* Time passes and the maintenance runs; heartbeats are sent, and an         *)
(* aborted request returns.                                                  *)
Fairness ==
    /\ \A r \in Run : WF_vars(DeadlinePasses(r)) /\ WF_vars(FailStale(r))
    /\ \A w \in Worker : WF_vars(LoseLease(w) /\ ~worker[w].aborted) /\ WF_vars(Aborts(w))

Spec == Init /\ [][Next]_vars
FairSpec == Spec /\ Fairness

-----------------------------------------------------------------------------

(* The results of a run are those of its last attempt: an attempt that was   *)
(* overtaken by another one stores nothing (completeRagEvalRunWithResults).  *)
(* Results are there when the run is completed and never when it was         *)
(* cancelled. And the attempt that holds a run can be aborted: an execution  *)
(* that has the current token and was not told to stop is the one registered *)
(* under the run at its server; an older attempt of the same run, which ends *)
(* later or earlier, does not take the entry away (registerController).      *)
LastAttemptCounts ==
    /\ TypeOK
    /\ \A r \in Run :
        /\ results[r] # None => results[r] = run[r].attempts
                                /\ run[r].status \in {"completed", "failed"}
        /\ run[r].status = "completed" => results[r] # None
        /\ \A w \in Worker :
             /\ Working(w) /\ ~worker[w].aborted
             /\ worker[w].run = r /\ run[r].lease = worker[w].token
             => Registered(w)

(* Every run ends, even if no worker ever returns to it: the dataset can be  *)
(* evaluated again (failStaleRunningRagEvalRuns). And no worker goes on for  *)
(* ever with a run that was cancelled, wherever the cancellation arrived and *)
(* even when its server ends before it has told the worker (cancelRun,       *)
(* startRagEvalHeartbeat).                                                   *)
RunsEnd ==
    /\ \A r \in Run : []<>~Running(r)
    /\ \A w \in Worker : []<>~(Working(w) /\ run[worker[w].run].status = "cancelled")
=============================================================================
