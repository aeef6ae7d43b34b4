---------------------------- MODULE RagEvalProofs ----------------------------
(* The results of an evaluation run are those of its last attempt, for every  *)
(* number of servers, workers, runs and attempts; what its dataset, its cases *)
(* and its locks are while requests and completions meet, for every number of *)
(* cases, runs and requests; and what the page shows of it, for every number  *)
(* of datasets and requests.                                                  *)
EXTENDS RagEvalRuns, EvalLibrary, EvalPage, FiniteSetTheorems, WellFoundedInduction, TLAPS

\* A row that is leased is running, under the token of its latest claim; it has
\* results of that claim or none.
RowAgrees(row, result) ==
    /\ row.lease # None => row.status = "running" /\ row.lease = row.attempts
    /\ result # None => result = row.attempts /\ row.status \in {"completed", "failed"}
    /\ row.status = "completed" => result # None
    /\ row.status = "none" => row.attempts = 0

RowsAgree == \A r \in Run : RowAgrees(run[r], results[r])

\* Each attempt that a worker is at was drawn by a claim.
AttemptsWereDrawn ==
    \A w \in Worker : worker[w].at # "idle" =>
        /\ worker[w].run \in Run
        /\ worker[w].token \in 1 .. run[worker[w].run].attempts

\* And no two workers are at the same attempt.
AttemptsDiffer ==
    \A w, x \in Worker :
        /\ worker[w].at # "idle" /\ worker[x].at # "idle"
        /\ worker[w].run = worker[x].run /\ worker[w].token = worker[x].token
        => w = x

\* An execution is registered within its lease, if the run has not ended.
StartsInTime ==
    \A w \in Worker : worker[w].at = "start" =>
        \/ Ended(worker[w].run)
        \/ run[worker[w].run].lease = worker[w].token /\ ~run[worker[w].run].expired

HoldersAreRegistered ==
    \A w \in Worker :
        /\ Working(w) /\ ~worker[w].aborted
        /\ run[worker[w].run].lease = worker[w].token
        => Registered(w)

IInv ==
    /\ TypeOK /\ RowsAgree
    /\ AttemptsWereDrawn /\ AttemptsDiffer
    /\ StartsInTime /\ HoldersAreRegistered
-----------------------------------------------------------------------------
USE RagEvalAssumption DEF Run, Token, None

\* The initial states satisfy the invariant.
LEMMA InitIInv == Init => IInv
BY DEF RowAgrees, Init, IInv, TypeOK, RowsAgree, AttemptsWereDrawn, AttemptsDiffer,
       StartsInTime, HoldersAreRegistered, Unborn, Idle, Running, Working,
       RunRow, Execution

\* What the actions make of a row is a row.
LEMMA Rows ==
    ASSUME NEW x \in RunRow
    PROVE  /\ Unclaimed(x) \in RunRow
           /\ \A s \in {"completed", "failed", "cancelled"} :
                [Unclaimed(x) EXCEPT !.status = s] \in RunRow
           /\ \A b \in BOOLEAN : [Unclaimed(x) EXCEPT !.due = b] \in RunRow
           /\ [x EXCEPT !.expired = TRUE] \in RunRow
           /\ [x EXCEPT !.due = TRUE] \in RunRow
           /\ [x EXCEPT !.over = TRUE] \in RunRow
           /\ [x EXCEPT !.old = TRUE] \in RunRow
           /\ [Unborn EXCEPT !.status = "running", !.due = TRUE] \in RunRow
           /\ \A n \in Token : [x EXCEPT !.attempts = n, !.lease = n,
                                         !.expired = FALSE, !.due = TRUE] \in RunRow
<1>1. 0 \in 0 .. MaxAttempts /\ 0 \in Token \cup {0} /\ \A n \in Token : n \in 0 .. MaxAttempts
  OBVIOUS
<1>2. Unclaimed(x) \in RunRow
  BY <1>1, Zenon DEF Unclaimed, RunRow
<1>3. \A s \in {"completed", "failed", "cancelled"} : [Unclaimed(x) EXCEPT !.status = s] \in RunRow
  BY <1>2, Zenon DEF RunRow
<1>4. \A b \in BOOLEAN : [Unclaimed(x) EXCEPT !.due = b] \in RunRow
  BY <1>2, Zenon DEF RunRow
<1>5. [x EXCEPT !.expired = TRUE] \in RunRow /\ [x EXCEPT !.due = TRUE] \in RunRow
  BY Zenon DEF RunRow
<1>6. [x EXCEPT !.over = TRUE] \in RunRow /\ [x EXCEPT !.old = TRUE] \in RunRow
  BY Zenon DEF RunRow
<1>7. [Unborn EXCEPT !.status = "running", !.due = TRUE] \in RunRow
  <2>1. Unborn \in RunRow
    BY <1>1 DEF Unborn, RunRow
  <2>2. \A y \in RunRow : [y EXCEPT !.status = "running", !.due = TRUE] \in RunRow
    BY Zenon DEF RunRow
  <2> QED BY <2>1, <2>2
<1>8. \A n \in Token : [x EXCEPT !.attempts = n, !.lease = n,
                                 !.expired = FALSE, !.due = TRUE] \in RunRow
  BY <1>1, Zenon DEF RunRow
<1> QED BY <1>2, <1>3, <1>4, <1>5, <1>6, <1>7, <1>8

\* What the actions make of a worker is a worker.
LEMMA Executions ==
    ASSUME NEW x \in Execution
    PROVE  /\ Idle \in Execution
           /\ \A at \in {"prepare", "evaluate", "complete", "failed"} :
                [x EXCEPT !.at = at] \in Execution
           /\ [x EXCEPT !.aborted = TRUE] \in Execution
           /\ \A r \in Run, n \in Token :
                [at |-> "start", run |-> r, token |-> n, aborted |-> FALSE] \in Execution
<1>1. Idle \in Execution
  BY DEF Idle, Execution
<1>2. \A at \in {"prepare", "evaluate", "complete", "failed"} : [x EXCEPT !.at = at] \in Execution
  BY Zenon DEF Execution
<1>3. [x EXCEPT !.aborted = TRUE] \in Execution
  BY Zenon DEF Execution
<1>4. \A r \in Run, n \in Token :
        [at |-> "start", run |-> r, token |-> n, aborted |-> FALSE] \in Execution
  BY DEF Execution
<1> QED BY <1>1, <1>2, <1>3, <1>4

\* Every variable keeps its type.
LEMMA TypeStep == IInv /\ [Next]_vars => TypeOK'
<1> SUFFICES ASSUME IInv, [Next]_vars PROVE TypeOK'
  OBVIOUS
<1> USE DEF IInv, TypeOK
<1>a. \A r \in Run, x \in RunRow : run' = [run EXCEPT ![r] = x] => run' \in [Run -> RunRow]
  OBVIOUS
<1>b. \A r \in Run, status \in {"completed", "failed", "cancelled"} :
        EndAs(r, status) => run' \in [Run -> RunRow]
  BY <1>a, Rows DEF EndAs
<1>c. \A s \in Server, r \in Run, n \in Token \cup {None} :
        registry' = [registry EXCEPT ![s][r] = n]
        => registry' \in [Server -> [Run -> Token \cup {None}]]
  OBVIOUS
<1>1. ASSUME NEW r \in Run, Create(r) PROVE TypeOK'
  BY <1>1, Rows DEF Create
<1>2. ASSUME NEW r \in Run, Pass(r) PROVE TypeOK'
  <2>1. run' \in [Run -> RunRow]
    <3>1. CASE LeaseExpires(r)
      BY <1>a, <3>1, Rows DEF LeaseExpires
    <3>2. CASE RetryIsDue(r)
      BY <1>a, <3>2, Rows DEF RetryIsDue
    <3>3. CASE DeadlinePasses(r)
      BY <1>a, <3>3, Rows DEF DeadlinePasses
    <3>4. CASE GetsOld(r)
      BY <1>a, <3>4, Rows DEF GetsOld
    <3>5. CASE ResetStale(r)
      BY <1>a, <3>5, Rows DEF ResetStale
    <3>6. CASE FailStale(r)
      BY <1>b, <3>6 DEF FailStale
    <3> QED BY <1>2, <3>1, <3>2, <3>3, <3>4, <3>5, <3>6 DEF Pass
  <2>2. UNCHANGED <<results, worker, registry, stopping, answer>>
    BY <1>2 DEF Pass, LeaseExpires, RetryIsDue, DeadlinePasses, GetsOld, ResetStale,
                FailStale, OnlyRuns
  <2> QED BY <2>1, <2>2
<1>3. ASSUME NEW w \in Worker, NEW r \in Run, Claim(w, r) PROVE TypeOK'
  <2>1. run[r].attempts + 1 \in Token
    BY <1>3 DEF Claim, Claimable, RunRow
  <2>2. run' \in [Run -> RunRow]
    BY <1>3, <2>1, Rows DEF Claim
  <2>3. worker' \in [Worker -> Execution]
    BY <1>3, <2>1, Executions DEF Claim
  <2> QED BY <1>3, <2>2, <2>3 DEF Claim
<1>4. ASSUME NEW w \in Worker, Execute(w) PROVE TypeOK'
  <2>1. worker[w].at # "idle"
    BY <1>4 DEF Execute, Start, Prepare, EvaluationReturns, ExecutionFails, LoseLease,
                HeartbeatFails, DeadlineTimer, Signal, Complete, MarkAttemptFailed, Working
  <2>2. worker[w].run \in Run /\ worker[w].token \in Token
    <3>1. worker[w].run \in Run /\ worker[w].token \in 1 .. run[worker[w].run].attempts
      BY <2>1 DEF AttemptsWereDrawn
    <3>2. \A x \in RunRow : x.attempts \in 0 .. MaxAttempts
      BY DEF RunRow
    <3> QED BY <3>1, <3>2
  <2>3. /\ \A at \in {"prepare", "evaluate", "complete", "failed"} :
             Move(w, at) => worker' \in [Worker -> Execution]
        /\ Leave(w) => worker' \in [Worker -> Execution]
        /\ worker' = [worker EXCEPT ![w].aborted = TRUE] => worker' \in [Worker -> Execution]
    <3>1. \A x \in Execution :
            worker' = [worker EXCEPT ![w] = x] => worker' \in [Worker -> Execution]
      OBVIOUS
    <3> QED BY <3>1, Executions DEF Move, Leave
  <2>4. CASE Start(w)
    BY <1>c, <2>2, <2>3, <2>4 DEF Start
  <2>5. CASE Prepare(w)
    BY <2>3, <2>5 DEF Prepare
  <2>6. CASE EvaluationReturns(w) \/ ExecutionFails(w)
    <3>1. Unregister(w) => registry' \in [Server -> [Run -> Token \cup {None}]]
      BY <1>c, <2>2 DEF Unregister
    <3> QED BY <2>3, <2>6, <3>1 DEF EvaluationReturns, ExecutionFails, Finish
  <2>7. CASE LoseLease(w) \/ HeartbeatFails(w) \/ DeadlineTimer(w)
    BY <2>3, <2>7 DEF LoseLease, HeartbeatFails, DeadlineTimer, Signal
  <2>8. CASE Complete(w)
    BY <1>b, <2>2, <2>3, <2>8 DEF Complete
  <2>9. CASE MarkAttemptFailed(w)
    BY <1>a, <1>b, <2>2, <2>3, <2>9, Rows DEF MarkAttemptFailed
  <2> QED BY <1>4, <2>4, <2>5, <2>6, <2>7, <2>8, <2>9 DEF Execute
<1>5. ASSUME NEW s \in Server, Administer(s) PROVE TypeOK'
  <2>1. CASE \E r \in Run : Cancel(s, r)
    BY <1>b, <2>1 DEF Cancel
  <2>2. ASSUME NEW W, SignalAll(W) PROVE worker' \in [Worker -> Execution]
    BY <2>2, Executions DEF SignalAll
  <2>3. CASE AbortRun(s)
    BY <2>2, <2>3 DEF AbortRun
  <2>4. CASE Stop(s)
    BY <2>2, <2>4 DEF Stop
  <2>5. CASE Restart(s)
    BY <2>5 DEF Restart
  <2>6. CASE Crash(s)
    BY <2>6, Executions DEF Crash
  <2> QED BY <1>5, <2>1, <2>3, <2>4, <2>5, <2>6 DEF Administer
<1>6. CASE UNCHANGED vars
  BY <1>6 DEF vars
<1> QED BY <1>1, <1>2, <1>3, <1>4, <1>5, <1>6 DEF Next

\* A claim counts the attempts of a run up, and nothing counts them down.
LEMMA AttemptsGrow ==
    ASSUME IInv, [Next]_vars, NEW r \in Run
    PROVE  /\ run[r].attempts \in Nat /\ run'[r].attempts \in Nat
           /\ run'[r].attempts >= run[r].attempts
<1> USE DEF IInv, TypeOK
<1>1. \A x \in RunRow : x.attempts \in Nat
  BY DEF RunRow
<1>2. run[r] \in RunRow /\ run'[r] \in RunRow
  BY TypeStep
<1>3. ASSUME NEW q \in Run, NEW x, run' = [run EXCEPT ![q] = x], x.attempts = run[q].attempts
      PROVE  run'[r].attempts = run[r].attempts
  BY <1>3
<1>4. ASSUME NEW q \in Run, NEW y,
             EndAs(q, y) \/ run' = [run EXCEPT ![q] = [Unclaimed(@) EXCEPT !.due = y]]
      PROVE  run'[r].attempts = run[r].attempts
  <2>1. /\ [Unclaimed(run[q]) EXCEPT !.status = y].attempts = run[q].attempts
        /\ [Unclaimed(run[q]) EXCEPT !.due = y].attempts = run[q].attempts
    BY DEF Unclaimed, RunRow
  <2> QED BY <1>3, <1>4, <2>1 DEF EndAs
<1>5. ASSUME NEW q \in Run, Create(q) PROVE run'[r].attempts >= run[r].attempts
  BY <1>1, <1>2, <1>5 DEF Create, Unborn, RowsAgree, RowAgrees
<1>6. ASSUME NEW q \in Run, Pass(q) PROVE run'[r].attempts = run[r].attempts
  <2>1. CASE LeaseExpires(q) \/ RetryIsDue(q)
    BY <1>3, <2>1 DEF LeaseExpires, RetryIsDue, RunRow
  <2>2. CASE DeadlinePasses(q) \/ GetsOld(q)
    BY <1>3, <2>2 DEF DeadlinePasses, GetsOld, RunRow
  <2>3. CASE ResetStale(q) \/ FailStale(q)
    BY <1>4, <2>3 DEF ResetStale, FailStale
  <2> QED BY <1>6, <2>1, <2>2, <2>3 DEF Pass
<1>7. ASSUME NEW w \in Worker, NEW q \in Run, Claim(w, q)
      PROVE  run'[r].attempts >= run[r].attempts
  BY <1>1, <1>2, <1>7 DEF Claim, RunRow
<1>8. ASSUME NEW w \in Worker, Execute(w) PROVE run'[r].attempts = run[r].attempts
  <2>1. CASE Complete(w) \/ MarkAttemptFailed(w)
    BY <1>4, <2>1 DEF Complete, MarkAttemptFailed, AttemptsWereDrawn
  <2>2. CASE ~(Complete(w) \/ MarkAttemptFailed(w))
    BY <1>8, <2>2 DEF Execute, Start, Prepare, EvaluationReturns, ExecutionFails, Finish,
                      LoseLease, HeartbeatFails, DeadlineTimer, Signal
  <2> QED BY <2>1, <2>2
<1>9. ASSUME NEW s \in Server, Administer(s) PROVE run'[r].attempts = run[r].attempts
  BY <1>4, <1>9 DEF Administer, Cancel, AbortRun, Stop, Restart, Crash
<1>10. CASE UNCHANGED vars
  BY <1>2, <1>1, <1>10 DEF vars
<1> QED BY <1>1, <1>2, <1>5, <1>6, <1>7, <1>8, <1>9, <1>10 DEF Next

\* A worker keeps its attempt until it leaves it; only a claim gives it one.
LEMMA AttemptsKept ==
    ASSUME IInv, [Next]_vars, NEW w \in Worker, worker'[w].at # "idle",
           ~\E r \in Run : Claim(w, r)
    PROVE  /\ worker[w].at # "idle"
           /\ worker'[w].at = "start" => worker[w].at = "start"
           /\ worker'[w].run = worker[w].run /\ worker'[w].token = worker[w].token
           /\ worker[w].aborted => worker'[w].aborted
<1> USE DEF IInv, TypeOK
<1>1. CASE \E r \in Run : Create(r) \/ Pass(r)
  BY <1>1 DEF Create, Pass, LeaseExpires, RetryIsDue, DeadlinePasses, GetsOld, ResetStale,
              FailStale, OnlyRuns
<1>2. ASSUME NEW x \in Worker, NEW r \in Run, Claim(x, r), x # w
      PROVE  worker'[w] = worker[w]
  BY <1>2 DEF Claim
<1>3. ASSUME NEW x \in Worker, Execute(x), x # w PROVE worker'[w] = worker[w]
  BY <1>3 DEF Execute, Start, Prepare, EvaluationReturns, ExecutionFails, Finish, LoseLease,
              HeartbeatFails, DeadlineTimer, Signal, Complete, MarkAttemptFailed, Move, Leave
<1>4. CASE Execute(w)
  BY <1>4 DEF Execute, Start, Prepare, EvaluationReturns, ExecutionFails, Finish, LoseLease,
              HeartbeatFails, DeadlineTimer, Signal, Complete, MarkAttemptFailed, Move, Leave,
              Working, Idle, Execution
<1>5. ASSUME NEW s \in Server, Administer(s)
      PROVE  worker'[w] \in {worker[w], [worker[w] EXCEPT !.aborted = TRUE], Idle}
  BY <1>5 DEF Administer, Cancel, AbortRun, SignalAll, Stop, Restart, Crash
<1>6. CASE UNCHANGED vars
  BY <1>6 DEF vars
<1> QED BY <1>1, <1>2, <1>3, <1>4, <1>5, <1>6 DEF Next, Idle, Execution

\* The rows and their results go on to agree.
LEMMA RowsStep == IInv /\ [Next]_vars => RowsAgree'
<1> SUFFICES ASSUME IInv, [Next]_vars PROVE RowsAgree'
  OBVIOUS
<1> USE DEF IInv, TypeOK, RowsAgree
<1>1. ASSUME NEW q \in Run, NEW x, run' = [run EXCEPT ![q] = x], results' = results,
             RowAgrees(x, results[q])
      PROVE  RowsAgree'
  BY <1>1
<1>2. ASSUME NEW q \in Run, run[q].status = "running"
      PROVE  /\ RowAgrees([Unclaimed(run[q]) EXCEPT !.status = "failed"], results[q])
             /\ RowAgrees([Unclaimed(run[q]) EXCEPT !.status = "cancelled"], results[q])
             /\ RowAgrees([Unclaimed(run[q]) EXCEPT !.due = TRUE], results[q])
             /\ RowAgrees([Unclaimed(run[q]) EXCEPT !.due = FALSE], results[q])
             /\ RowAgrees([run[q] EXCEPT !.expired = TRUE], results[q])
             /\ RowAgrees([run[q] EXCEPT !.due = TRUE], results[q])
             /\ RowAgrees([run[q] EXCEPT !.over = TRUE], results[q])
             /\ RowAgrees([run[q] EXCEPT !.old = TRUE], results[q])
  BY <1>2 DEF RowAgrees, Unclaimed, RunRow
<1>3. ASSUME NEW r \in Run, Create(r) PROVE RowsAgree'
  <2>1. RowAgrees([Unborn EXCEPT !.status = "running", !.due = TRUE], results[r])
    BY <1>3 DEF Create, Unborn, RowAgrees
  <2> QED BY <1>1, <1>3, <2>1 DEF Create
<1>4. ASSUME NEW r \in Run, Pass(r) PROVE RowsAgree'
  <2>1. run[r].status = "running"
    BY <1>4 DEF Pass, LeaseExpires, RetryIsDue, DeadlinePasses, GetsOld, ResetStale,
                FailStale, Running, RowAgrees
  <2>2. CASE LeaseExpires(r) \/ RetryIsDue(r) \/ DeadlinePasses(r)
    BY <1>1, <1>2, <2>1, <2>2 DEF LeaseExpires, RetryIsDue, DeadlinePasses, OnlyRuns
  <2>3. CASE GetsOld(r) \/ ResetStale(r) \/ FailStale(r)
    BY <1>1, <1>2, <2>1, <2>3 DEF GetsOld, ResetStale, FailStale, EndAs, OnlyRuns
  <2> QED BY <1>4, <2>2, <2>3 DEF Pass
<1>5. ASSUME NEW w \in Worker, NEW r \in Run, Claim(w, r) PROVE RowsAgree'
  <2>1. \A n \in Token : n = run[r].attempts + 1 =>
          RowAgrees([run[r] EXCEPT !.attempts = n, !.lease = n, !.expired = FALSE,
                                   !.due = TRUE], results[r])
    BY <1>5 DEF Claim, Claimable, Running, RowAgrees, RunRow
  <2>2. run[r].attempts + 1 \in Token
    BY <1>5 DEF Claim, Claimable, RunRow
  <2> QED BY <1>1, <1>5, <2>1, <2>2 DEF Claim
<1>6. ASSUME NEW w \in Worker, Execute(w) PROVE RowsAgree'
  <2>1. CASE Complete(w)
    <3> DEFINE r == worker[w].run
    <3>1. r \in Run /\ worker[w].token \in Token
      BY <2>1, TypeStep, AttemptsGrow DEF Complete, AttemptsWereDrawn, Execution
    <3>2. ASSUME Holds(w), NEW y \in {"completed", "failed"}, EndAs(r, y),
                 results' = [results EXCEPT ![r] = worker[w].token]
          PROVE  RowsAgree'
      <4>1. RowAgrees([Unclaimed(run[r]) EXCEPT !.status = y], worker[w].token)
        BY <3>1, <3>2 DEF Holds, RowAgrees, Unclaimed, RunRow
      <4> QED BY <3>1, <3>2, <4>1 DEF EndAs
    <3> QED BY <2>1, <3>2 DEF Complete
  <2>2. CASE MarkAttemptFailed(w)
    <3>1. worker[w].run \in Run
      BY <2>2 DEF MarkAttemptFailed, AttemptsWereDrawn
    <3> QED BY <1>1, <1>2, <2>2, <3>1 DEF MarkAttemptFailed, EndAs, Running
  <2>3. CASE ~(Complete(w) \/ MarkAttemptFailed(w))
    BY <1>6, <2>3 DEF Execute, Start, Prepare, EvaluationReturns, ExecutionFails, Finish,
                      LoseLease, HeartbeatFails, DeadlineTimer, Signal
  <2> QED BY <2>1, <2>2, <2>3
<1>7. ASSUME NEW s \in Server, Administer(s) PROVE RowsAgree'
  BY <1>1, <1>2, <1>7 DEF Administer, Cancel, Running, EndAs, AbortRun, Stop, Restart, Crash
<1>8. CASE UNCHANGED vars
  BY <1>8 DEF vars
<1> QED BY <1>3, <1>4, <1>5, <1>6, <1>7, <1>8 DEF Next

\* An attempt stays one that was drawn, and is at one worker only.
LEMMA AttemptsStep == IInv /\ [Next]_vars => AttemptsWereDrawn' /\ AttemptsDiffer'
<1> SUFFICES ASSUME IInv, [Next]_vars PROVE AttemptsWereDrawn' /\ AttemptsDiffer'
  OBVIOUS
<1> USE DEF IInv, TypeOK
<1>1. ASSUME NEW w \in Worker, worker'[w].at # "idle", ~\E r \in Run : Claim(w, r)
      PROVE  /\ worker[w].at # "idle"
             /\ worker'[w].run = worker[w].run /\ worker'[w].token = worker[w].token
             /\ worker[w].run \in Run /\ worker[w].token \in 1 .. run[worker[w].run].attempts
  BY <1>1, AttemptsKept DEF AttemptsWereDrawn
<1>2. ASSUME NEW w \in Worker, NEW r \in Run, Claim(w, r)
      PROVE  /\ worker'[w].run = r /\ worker'[w].token = run[r].attempts + 1
             /\ run'[r].attempts = run[r].attempts + 1 /\ run[r].attempts \in Nat
             /\ \A x \in Worker : x # w => worker'[x] = worker[x]
  BY <1>2, AttemptsGrow DEF Claim, RunRow
<1>3. AttemptsWereDrawn'
  <2>1. ASSUME NEW w \in Worker, worker'[w].at # "idle"
        PROVE  /\ worker'[w].run \in Run
               /\ worker'[w].token \in 1 .. run'[worker'[w].run].attempts
    <3>1. CASE \E r \in Run : Claim(w, r)
      BY <1>2, <3>1
    <3>2. CASE ~\E r \in Run : Claim(w, r)
      <4>1. run'[worker[w].run].attempts \in Nat /\ run[worker[w].run].attempts \in Nat
            /\ run'[worker[w].run].attempts >= run[worker[w].run].attempts
        BY <1>1, <2>1, <3>2, AttemptsGrow
      <4> QED BY SMTT(30), <1>1, <2>1, <3>2, <4>1
    <3> QED BY <3>1, <3>2
  <2> QED BY <2>1 DEF AttemptsWereDrawn
<1>4. ASSUME NEW w \in Worker, NEW x \in Worker, w # x, worker'[w].at # "idle",
             worker'[x].at # "idle", worker'[w].run = worker'[x].run,
             worker'[w].token = worker'[x].token
      PROVE  FALSE
  <2> DEFINE Meets(u, v) == /\ u # v /\ worker'[v].at # "idle"
                            /\ worker'[u].run = worker'[v].run
                            /\ worker'[u].token = worker'[v].token
  <2>0. ASSUME NEW u \in Worker, NEW v \in Worker, Meets(u, v), NEW r \in Run, Claim(u, r)
        PROVE  FALSE
    <3>1. /\ worker'[u].run = r /\ worker'[u].token = run[r].attempts + 1
          /\ run[r].attempts \in Nat /\ worker'[v] = worker[v]
      BY <1>2, <2>0
    <3>2. worker[v].token \in 1 .. run[worker[v].run].attempts
      BY <2>0, <3>1 DEF AttemptsWereDrawn
    <3>3. worker[v].run = r /\ worker[v].token = run[r].attempts + 1
      BY <2>0, <3>1
    <3>4. \A n \in Nat : n + 1 \notin 1 .. n
      OBVIOUS
    <3> QED BY <3>1, <3>2, <3>3, <3>4
  <2>1. CASE \E r \in Run : Claim(w, r)
    <3>1. Meets(w, x)
      BY <1>4
    <3> HIDE DEF Meets
    <3> QED BY <2>0, <2>1, <3>1
  <2>2. CASE \E r \in Run : Claim(x, r)
    <3>1. Meets(x, w)
      BY <1>4
    <3> HIDE DEF Meets
    <3> QED BY <2>0, <2>2, <3>1
  <2>3. CASE /\ ~\E r \in Run : Claim(w, r)
             /\ ~\E r \in Run : Claim(x, r)
    BY <1>1, <1>4, <2>3 DEF AttemptsDiffer
  <2> QED BY <2>1, <2>2, <2>3
<1> QED BY <1>3, <1>4 DEF AttemptsDiffer

\* How a step changes a row: it ends it, claims it, gives it back, or keeps its
\* lease. Only a lease whose worker has begun runs out.
LEMMA RowChanges ==
    ASSUME IInv, [Next]_vars, NEW r \in Run
    PROVE  \/ run'[r] = run[r]
           \/ Running(r) /\ Ended(r)' /\ run'[r].lease = None
           \/ ~Ended(r) /\ run'[r].lease = None
              /\ \/ run[r].lease = None \/ run[r].expired
                 \/ \E w \in Worker : MarkAttemptFailed(w) /\ worker[w].run = r
                                      /\ worker[w].token = run[r].lease
           \/ Running(r) /\ Claimable(r) /\ run'[r].lease = run[r].attempts + 1
           \/ Running(r) /\ run'[r].lease = run[r].lease /\ run'[r].expired = run[r].expired
           \/ Running(r) /\ run'[r].lease = run[r].lease /\ LeaseExpires(r)
<1> USE DEF IInv, TypeOK
<1>1. \A q \in Run : \A x : run' = [run EXCEPT ![q] = x] => run'[r] = IF q = r THEN x ELSE run[r]
  OBVIOUS
<1>2. ASSUME NEW q \in Run, NEW y, EndAs(q, y), Running(q), y \in {"completed", "failed", "cancelled"}
      PROVE  \/ run'[r] = run[r]
             \/ Running(r) /\ Ended(r)' /\ run'[r].lease = None
  <2>1. /\ [Unclaimed(run[q]) EXCEPT !.status = y].status = y
        /\ [Unclaimed(run[q]) EXCEPT !.status = y].lease = None
    BY DEF Unclaimed, RunRow
  <2> QED BY <1>2, <2>1 DEF EndAs, Ended
<1>3. ASSUME NEW q \in Run, Create(q)
      PROVE  run'[r] = run[r] \/ (~Ended(r) /\ run'[r].lease = None /\ run[r].lease = None)
  BY <1>3 DEF Create, Unborn, Ended, RowsAgree, RowAgrees
<1>4. ASSUME NEW q \in Run, Pass(q), q # r PROVE run'[r] = run[r]
  BY <1>4 DEF Pass, LeaseExpires, RetryIsDue, DeadlinePasses, GetsOld, ResetStale,
              FailStale, EndAs
<1>5. CASE LeaseExpires(r)
  BY <1>5 DEF LeaseExpires, RowsAgree, RowAgrees, Running, RunRow
<1>6. CASE RetryIsDue(r) \/ DeadlinePasses(r) \/ GetsOld(r)
  BY <1>6 DEF RetryIsDue, DeadlinePasses, GetsOld, RunRow
<1>7. CASE ResetStale(r)
  <2>1. [Unclaimed(run[r]) EXCEPT !.due = TRUE].lease = None
    BY DEF Unclaimed, RunRow
  <2> QED BY <1>7, <2>1 DEF ResetStale, Running, Ended
<1>8. CASE FailStale(r)
  BY <1>2, <1>8 DEF FailStale
<1>9. ASSUME NEW w \in Worker, NEW q \in Run, Claim(w, q)
      PROVE  \/ run'[r] = run[r]
             \/ Running(r) /\ Claimable(r) /\ run'[r].lease = run[r].attempts + 1
  BY <1>9 DEF Claim, Claimable, RunRow
<1>10. ASSUME NEW w \in Worker, Complete(w)
       PROVE  \/ run'[r] = run[r]
              \/ Running(r) /\ Ended(r)' /\ run'[r].lease = None
  <2>1. worker[w].run \in Run
    BY <1>10 DEF Complete, AttemptsWereDrawn
  <2> QED BY <1>2, <1>10, <2>1 DEF Complete, Holds, Running
<1>11. ASSUME NEW w \in Worker, MarkAttemptFailed(w)
       PROVE  \/ run'[r] = run[r]
              \/ Running(r) /\ Ended(r)' /\ run'[r].lease = None
              \/ ~Ended(r) /\ run'[r].lease = None
                 /\ worker[w].run = r /\ worker[w].token = run[r].lease
  <2>1. worker[w].run \in Run
    BY <1>11 DEF MarkAttemptFailed, AttemptsWereDrawn
  <2>2. [Unclaimed(run[worker[w].run]) EXCEPT !.due = FALSE].lease = None
    BY <2>1 DEF Unclaimed, RunRow
  <2> QED BY <1>2, <1>11, <2>1, <2>2 DEF MarkAttemptFailed, Running, Ended
<1>12. ASSUME NEW w \in Worker, Execute(w), ~Complete(w), ~MarkAttemptFailed(w)
       PROVE  run'[r] = run[r]
  BY <1>12 DEF Execute, Start, Prepare, EvaluationReturns, ExecutionFails, Finish,
               LoseLease, HeartbeatFails, DeadlineTimer, Signal
<1>13. ASSUME NEW s \in Server, Administer(s)
       PROVE  \/ run'[r] = run[r]
              \/ Running(r) /\ Ended(r)' /\ run'[r].lease = None
  BY <1>2, <1>13 DEF Administer, Cancel, AbortRun, Stop, Restart, Crash
<1>14. CASE UNCHANGED vars
  BY <1>14 DEF vars
<1>15. CASE \E q \in Run : Create(q) \/ Pass(q)
  BY <1>3, <1>4, <1>5, <1>6, <1>7, <1>8, <1>15 DEF Pass
<1>16. CASE \E w \in Worker : Execute(w) \/ \E q \in Run : Claim(w, q)
  BY <1>9, <1>10, <1>11, <1>12, <1>16
<1> QED BY <1>13, <1>14, <1>15, <1>16 DEF Next

\* An attempt that has not begun keeps its lease.
LEMMA StartsStep == IInv /\ [Next]_vars => StartsInTime'
<1> SUFFICES ASSUME IInv, [Next]_vars, NEW w \in Worker, worker'[w].at = "start"
             PROVE  \/ Ended(worker[w].run)'
                    \/ /\ run'[worker'[w].run].lease = worker'[w].token
                       /\ ~run'[worker'[w].run].expired
  BY DEF StartsInTime, Ended
<1> USE DEF IInv, TypeOK
<1>1. CASE \E r \in Run : Claim(w, r)
  BY <1>1 DEF Claim, RunRow
<1>2. CASE ~\E r \in Run : Claim(w, r)
  <2> DEFINE r == worker[w].run
  <2>1. worker[w].at = "start" /\ worker'[w].run = r /\ worker'[w].token = worker[w].token
    BY <1>2, AttemptsKept
  <2>2. r \in Run /\ worker[w].token \in 1 .. run[r].attempts
    BY <2>1 DEF AttemptsWereDrawn
  <2>3. CASE Ended(r)
    <3>1. ~Running(r)
      BY <2>3 DEF Ended, Running
    <3>2. run'[r] = run[r]
      BY <2>2, <2>3, <3>1, RowChanges
    <3> QED BY <2>1, <2>3, <3>2 DEF Ended
  <2>4. CASE run[r].lease = worker[w].token /\ ~run[r].expired
    <3>1. run[r].lease # None
      BY <2>2, <2>4
    <3>2. ~Claimable(r)
      BY <2>4, <3>1 DEF Claimable
    <3>3. ~LeaseExpires(r)
      BY <2>1, <2>4 DEF LeaseExpires
    <3>4. ASSUME NEW x \in Worker, MarkAttemptFailed(x), worker[x].run = r,
                 worker[x].token = run[r].lease
          PROVE  FALSE
      <4>1. worker[x].at = "failed"
        BY <3>4 DEF MarkAttemptFailed
      <4> QED BY <2>1, <2>4, <3>4, <4>1 DEF AttemptsDiffer
    <3> QED BY <2>1, <2>2, <2>4, <3>1, <3>2, <3>3, <3>4, RowChanges DEF Ended
  <2> QED BY <2>1, <2>3, <2>4 DEF StartsInTime
<1> QED BY <1>1, <1>2

\* An execution that goes on with the lease stays registered: another attempt of
\* the run that begins or ends at the same server has another token.
LEMMA HoldersStep == IInv /\ [Next]_vars => HoldersAreRegistered'
<1> SUFFICES ASSUME IInv, [Next]_vars, NEW w \in Worker,
                    worker'[w].at \in {"prepare", "evaluate"}, ~worker'[w].aborted,
                    run'[worker'[w].run].lease = worker'[w].token
             PROVE  registry'[Home[w]][worker'[w].run] = worker'[w].token
                    /\ worker'[w].run # None
  BY DEF HoldersAreRegistered, Working, Registered
<1> USE DEF IInv, TypeOK
<1> DEFINE r == worker[w].run
<1>1. ~\E q \in Run : Claim(w, q)
  <2>1. ASSUME NEW q \in Run, Claim(w, q) PROVE worker'[w].at = "start"
    BY <2>1 DEF Claim
  <2> QED BY <2>1
<1>2. /\ worker[w].at # "idle" /\ ~worker[w].aborted
      /\ worker'[w].run = r /\ worker'[w].token = worker[w].token
  BY <1>1, AttemptsKept
<1>3. r \in Run /\ worker[w].token \in 1 .. run[r].attempts
  BY <1>2 DEF AttemptsWereDrawn
<1>4. run[r].lease = worker[w].token
  <2>1. run'[r].lease = worker[w].token /\ run'[r].lease # None
    BY <1>2, <1>3
  <2>2. run'[r].lease # run[r].attempts + 1
    BY <1>3, <2>1, AttemptsGrow
  <2> QED BY <1>3, <2>1, <2>2, RowChanges
<1>5. ~Ended(r)
  <2>1. run[r].lease # None
    BY <1>3, <1>4
  <2> QED BY <1>3, <2>1 DEF Ended, RowsAgree, RowAgrees, Running
<1>6. ASSUME NEW x \in Worker, worker[x].at # "idle", worker[x].run = r, x # w
      PROVE  worker[x].token # worker[w].token /\ worker[x].at # "start"
  BY <1>2, <1>4, <1>5, <1>6 DEF AttemptsDiffer, StartsInTime
<1>7. CASE Start(w)
  <2>1. ~run[r].over
    <3>1. Move(w, "failed") => worker'[w].at = "failed"
      BY DEF Move, Execution
    <3> QED BY <1>7, <3>1 DEF Start
  <2>2. registry' = [registry EXCEPT ![Home[w]][r] = worker[w].token]
    BY <1>7, <2>1 DEF Start
  <2> QED BY <1>2, <1>3, <2>2
<1>8. CASE ~Start(w)
  <2>1. worker[w].at \in {"prepare", "evaluate"}
    <3>1. CASE Execute(w)
      BY <1>8, <3>1 DEF Execute, Prepare, EvaluationReturns, ExecutionFails, Finish, Move,
           LoseLease, HeartbeatFails, DeadlineTimer, Signal, Complete, MarkAttemptFailed,
           Leave, Idle, Working, Execution
    <3>2. ASSUME NEW x \in Worker, x # w, Execute(x) \/ \E q \in Run : Claim(x, q)
          PROVE  worker'[w] = worker[w]
      BY <3>2 DEF Execute, Start, Prepare, EvaluationReturns, ExecutionFails, Finish, Move,
           LoseLease, HeartbeatFails, DeadlineTimer, Signal, Complete, MarkAttemptFailed,
           Leave, Claim
    <3>3. ASSUME NEW s \in Server, Administer(s)
          PROVE  worker'[w].at \in {worker[w].at, "idle"}
      <4>1. worker'[w] \in {worker[w], [worker[w] EXCEPT !.aborted = TRUE], Idle}
        BY <3>3 DEF Administer, Cancel, AbortRun, SignalAll, Stop, Restart, Crash
      <4>2. [worker[w] EXCEPT !.aborted = TRUE].at = worker[w].at /\ Idle.at = "idle"
        BY DEF Execution, Idle
      <4> QED BY <4>1, <4>2
    <3>4. CASE \E q \in Run : Create(q) \/ Pass(q)
      BY <3>4 DEF Create, Pass, LeaseExpires, RetryIsDue, DeadlinePasses, GetsOld,
           ResetStale, FailStale, OnlyRuns
    <3>5. CASE UNCHANGED vars
      BY <3>5 DEF vars
    <3> QED BY <1>1, <3>1, <3>2, <3>3, <3>4, <3>5 DEF Next
  <2>2. registry[Home[w]][r] = worker[w].token
    BY <1>2, <1>4, <2>1 DEF HoldersAreRegistered, Working, Registered
  <2>3. registry'[Home[w]][r] = registry[Home[w]][r]
    <3>1. ASSUME NEW x \in Worker, Start(x) PROVE registry'[Home[w]][r] = registry[Home[w]][r]
      <4>1. worker[x].run # r
        BY <1>6, <2>1, <3>1 DEF Start
      <4> QED BY SMTT(30), <1>3, <3>1, <4>1 DEF Start
    <3>2. ASSUME NEW x \in Worker, EvaluationReturns(x) \/ ExecutionFails(x)
          PROVE  registry'[Home[w]][r] = registry[Home[w]][r]
      <4>1. x # w
        BY <1>2, <3>2 DEF EvaluationReturns, ExecutionFails, Finish, Move, Execution
      <4>2. worker[x].at # "idle"
        BY <3>2 DEF EvaluationReturns, ExecutionFails, Working
      <4>3. worker[x].run = r => worker[x].token # worker[w].token
        BY <1>6, <4>1, <4>2
      <4>4. Unregister(x)
        BY <3>2 DEF EvaluationReturns, ExecutionFails, Finish
      <4> QED BY <1>3, <2>2, <4>3, <4>4 DEF Unregister
    <3>3. ASSUME NEW x \in Worker, Execute(x) \/ \E q \in Run : Claim(x, q),
                 ~Start(x), ~EvaluationReturns(x), ~ExecutionFails(x)
          PROVE  UNCHANGED registry
      BY <3>3 DEF Execute, Prepare, LoseLease, HeartbeatFails, DeadlineTimer, Signal,
           Complete, MarkAttemptFailed, Claim
    <3>4. ASSUME NEW s \in Server, Administer(s) PROVE registry'[Home[w]][r] = registry[Home[w]][r]
      <4>1. CASE Stop(s)
        <5>1. Home[w] # s
          BY <1>2, <1>3, <2>1, <2>2, <4>1 DEF Stop, SignalAll, Executing, Working, Registered,
               Execution
        <5> QED BY <4>1, <5>1 DEF Stop
      <4>2. CASE Crash(s)
        <5>1. Home[w] # s
          BY <4>2 DEF Crash, Idle
        <5> QED BY <4>2, <5>1 DEF Crash
      <4>3. CASE ~Stop(s) /\ ~Crash(s)
        BY <3>4, <4>3 DEF Administer, Cancel, AbortRun, Restart
      <4> QED BY <4>1, <4>2, <4>3
    <3>5. CASE \E q \in Run : Create(q) \/ Pass(q)
      BY <3>5 DEF Create, Pass, LeaseExpires, RetryIsDue, DeadlinePasses, GetsOld,
           ResetStale, FailStale, OnlyRuns
    <3>6. CASE UNCHANGED vars
      BY <3>6 DEF vars
    <3> QED BY <3>1, <3>2, <3>3, <3>4, <3>5, <3>6 DEF Next
  <2> QED BY <1>2, <1>3, <2>2, <2>3
<1> QED BY <1>7, <1>8
-----------------------------------------------------------------------------
\* Every reachable state satisfies the invariant.
THEOREM RunsInvariant == Spec => []IInv
<1>1. IInv /\ [Next]_vars => IInv'
  BY TypeStep, RowsStep, AttemptsStep, StartsStep, HoldersStep DEF IInv
<1> QED BY InitIInv, <1>1, PTL DEF Spec

\* The results of a run are those of its last attempt, and the attempt that holds
\* a run can be aborted (completeRagEvalRunWithResults, registerController).
THEOREM LastCounts == Spec => []LastAttemptCounts
<1>1. IInv => LastAttemptCounts
  BY DEF IInv, LastAttemptCounts, RowsAgree, RowAgrees, HoldersAreRegistered
<1> QED BY RunsInvariant, <1>1, PTL

\* How a run has ended does not change: no late statement of an attempt, no
\* cancellation and no maintenance reopens it or ends it otherwise, and its
\* results stay (the conditions on the status in ragEval.ts).
THEOREM EndedStays == Spec => [][\A r \in Run : Ended(r) => run'[r] = run[r]
                                                         /\ results'[r] = results[r]]_vars
<1>1. ASSUME IInv, [Next]_vars, NEW r \in Run, Ended(r)
      PROVE  run'[r] = run[r] /\ results'[r] = results[r]
  <2> USE DEF IInv, TypeOK
  <2>1. run'[r] = run[r]
    <3>1. ~Running(r) /\ run[r].lease = None
      BY <1>1 DEF Ended, Running, RowsAgree, RowAgrees
    <3>2. ~LeaseExpires(r)
      BY <3>1 DEF LeaseExpires
    <3> QED BY <1>1, <3>1, <3>2, RowChanges
  <2>2. results'[r] = results[r]
    <3>1. ASSUME NEW w \in Worker, Complete(w) PROVE results'[r] = results[r]
      BY <1>1, <3>1 DEF Complete, Holds, Ended
    <3>2. ASSUME NEW w \in Worker, Execute(w) \/ \E q \in Run : Claim(w, q), ~Complete(w)
          PROVE  UNCHANGED results
      BY <3>2 DEF Execute, Start, Prepare, EvaluationReturns, ExecutionFails, Finish,
           LoseLease, HeartbeatFails, DeadlineTimer, Signal, MarkAttemptFailed, Claim
    <3>3. CASE \E q \in Run : Create(q) \/ Pass(q)
      BY <3>3 DEF Create, Pass, LeaseExpires, RetryIsDue, DeadlinePasses, GetsOld,
           ResetStale, FailStale, OnlyRuns
    <3>4. ASSUME NEW s \in Server, Administer(s) PROVE UNCHANGED results
      BY <3>4 DEF Administer, Cancel, AbortRun, Stop, Restart, Crash
    <3>5. CASE UNCHANGED vars
      BY <3>5 DEF vars
    <3> QED BY <1>1, <3>1, <3>2, <3>3, <3>4, <3>5 DEF Next
  <2> QED BY <2>1, <2>2
<1>2. IInv /\ [Next]_vars => [\A r \in Run : Ended(r) => run'[r] = run[r]
                                                      /\ results'[r] = results[r]]_vars
  BY <1>1
<1> QED BY RunsInvariant, <1>2, PTL DEF Spec

-----------------------------------------------------------------------------
(* The dataset, its cases and its locks. *)

HIDE RagEvalAssumption DEF Run, Token, None

DatasetRow == [there : BOOLEAN, lock : Asking \cup {Free}]
EvalRow == [status : {"none", "running", "completed", "failed", "ended"},
            count : 0 .. Cardinality(Case), snapshot : SUBSET Case,
            baseline : Eval \cup {Nil}, ok : SUBSET Case]
TxRow == [at : {"idle", "asked", "locked", "counted", "deleted"},
          kind : {"none", "add", "remove", "run", "drop"},
          of : SUBSET Case, count : 0 .. Cardinality(Case)]
StoringRow == [eval : Eval \cup {Nil}, stored : SUBSET Case, waits : SUBSET Case]

LibraryTypes ==
    /\ dataset \in DatasetRow /\ cases \in [Case -> {"new", "stored", "gone"}]
    /\ evals \in [Eval -> EvalRow] /\ tx \in [Asking -> TxRow] /\ storing \in StoringRow

\* Exactly the request that has gone on past the lock has the row.
Holding == {"locked", "counted", "deleted"}
LocksAreRight == \A r \in Asking : tx[r].at \in Holding <=> dataset.lock = r

\* A request that has counted the cases has counted those that there are.
TxIsRight(t) ==
    /\ t.kind = "add" => \E c \in Case : t.of = {c}
    /\ t.at = "counted" /\ t.kind = "add" => Cardinality(Stored) < MaxCases
    /\ t.at = "counted" /\ t.kind = "run" => t.count = Cardinality(Stored) /\ t.count > 0

TxsAreRight ==
    /\ \A r \in Asking : TxIsRight(tx[r])
    /\ Cardinality(Stored) <= MaxCases

\* A run is of cases that there were, and compared with one completed before.
EvalIsRight(e) ==
    /\ evals[e].status # "none" =>
         evals[e].count = Cardinality(evals[e].snapshot) /\ evals[e].count > 0
    /\ evals[e].ok \subseteq evals[e].snapshot
    /\ \A c \in evals[e].snapshot : cases[c] # "new"
    /\ evals[e].baseline # Nil =>
         evals[e].baseline < e /\ evals[evals[e].baseline].status = "completed"

\* Runs are created one after the other, and one is under way at a time.
EvalsAreRight ==
    /\ \A e \in Eval : EvalIsRight(e)
    /\ \A e, f \in Eval : e < f /\ evals[f].status # "none" => evals[e].status # "none"
    /\ \A e, f \in In({"running"}) : e = f
    /\ storing.eval # Nil => evals[storing.eval].status = "running"

LibraryInv == LibraryTypes /\ LocksAreRight /\ TxsAreRight /\ EvalsAreRight

\* The cases that are stored are finitely many, and numbered by the constants.
LEMMA StoredAreFew ==
    /\ IsFiniteSet(Stored) /\ Cardinality(Stored) \in 0 .. Cardinality(Case)
    /\ Cardinality(Case) \in Nat /\ MaxCases \in Nat /\ MaxCases > 0 /\ MaxEval \in Nat
<1>1. Stored \in SUBSET Case /\ IsFiniteSet(Case)
  BY EvalLibraryAssumption DEF Stored
<1>2. IsFiniteSet(Stored) /\ Cardinality(Stored) <= Cardinality(Case)
  BY <1>1, FS_Subset
<1>3. Cardinality(Stored) \in Nat /\ Cardinality(Case) \in Nat
  BY <1>1, <1>2, FS_CardinalityType
<1>4. MaxCases \in Nat /\ MaxCases > 0 /\ MaxEval \in Nat
  BY EvalLibraryAssumption
<1> QED BY <1>1, <1>2, <1>3, <1>4

\* Who holds and who waits are told apart.
LEMMA FreeIsNobody == Free \notin Asking /\ Completion \notin Asking
BY EvalLibraryAssumption DEF Free, Completion

\* A request ends, and with it its lock.
LEMMA EndingFreesTheLock ==
    ASSUME LibraryInv, NEW r \in Asking, Ends(r)
    PROVE  /\ dataset' \in DatasetRow /\ tx' \in [Asking -> TxRow] /\ LocksAreRight'
           /\ tx'[r] = NoTx /\ \A q \in Asking : q # r => tx'[q] = tx[q]
<1>1. PICK none : none = NoTx
  OBVIOUS
<1>2. none \in TxRow /\ none.at = "idle"
  BY <1>1, StoredAreFew DEF NoTx, TxRow
<1>3. tx' = [tx EXCEPT ![r] = none] /\ tx \in [Asking -> TxRow] /\ dataset \in DatasetRow
  BY <1>1 DEF Ends, LibraryInv, LibraryTypes
<1>4. tx' \in [Asking -> TxRow] /\ tx'[r] = none /\ \A q \in Asking : q # r => tx'[q] = tx[q]
  BY <1>2, <1>3
<1>5. CASE dataset.lock = r
  <2>1. dataset' = [dataset EXCEPT !.lock = Free]
    BY <1>5 DEF Ends, Unlocked
  <2>2. dataset' \in DatasetRow /\ dataset'.lock = Free
    BY <1>3, <2>1 DEF DatasetRow
  <2>3. \A q \in Asking : q # r => tx[q].at \notin Holding
    BY <1>5 DEF LibraryInv, LocksAreRight
  <2>4. LocksAreRight'
    BY <1>2, <1>4, <2>2, <2>3, FreeIsNobody DEF LocksAreRight, Holding
  <2> QED BY <1>1, <1>4, <2>2, <2>4
<1>6. CASE dataset.lock # r
  <2>1. dataset' = dataset
    BY <1>6 DEF Ends, Unlocked
  <2>2. LocksAreRight'
    BY <1>2, <1>4, <1>6, <2>1 DEF LibraryInv, LocksAreRight, Holding
  <2> QED BY <1>1, <1>3, <1>4, <2>1, <2>2
<1> QED BY <1>5, <1>6

\* What the runs say goes on when the runs and the completion do, whatever
\* cases are added and removed.
LEMMA EvalsGoOn ==
    ASSUME LibraryInv, UNCHANGED <<evals, storing>>,
           \A c \in Case : cases'[c] = "new" => cases[c] = "new"
    PROVE  EvalsAreRight'
<1>1. \A e \in Eval : evals[e].snapshot \subseteq Case
  BY DEF LibraryInv, LibraryTypes, EvalRow
<1>2. ASSUME NEW e \in Eval PROVE EvalIsRight(e)'
  BY <1>1 DEF LibraryInv, EvalsAreRight, EvalIsRight
<1>3. In({"running"})' = In({"running"})
  BY DEF In
<1> QED BY <1>2, <1>3 DEF LibraryInv, EvalsAreRight

\* One request goes on, and what it has counted is right.
LEMMA RequestGoesOnInLibrary ==
    ASSUME LibraryInv, NEW r \in Asking, NEW t \in TxRow, UNCHANGED <<cases, evals, storing>>,
           tx' = [tx EXCEPT ![r] = t], dataset' \in DatasetRow, LocksAreRight', TxIsRight(t)
    PROVE  LibraryInv'
<1>1. LibraryTypes'
  BY DEF LibraryInv, LibraryTypes
<1>2. Stored' = Stored
  BY DEF Stored
<1>3. tx'[r] = t /\ \A q \in Asking : q # r => tx'[q] = tx[q]
  BY DEF LibraryInv, LibraryTypes
<1>4. TxsAreRight'
  BY <1>2, <1>3 DEF LibraryInv, TxsAreRight, TxIsRight
<1>5. EvalsAreRight'
  BY EvalsGoOn
<1> QED BY <1>1, <1>4, <1>5 DEF LibraryInv

\* A request ends, and the cases are as they were.
LEMMA EndingGoesOn ==
    ASSUME LibraryInv, NEW r \in Asking, Ends(r), UNCHANGED <<cases, evals, storing>>
    PROVE  LibraryInv'
<1>1. PICK none : none = NoTx
  OBVIOUS
<1>2. none \in TxRow /\ TxIsRight(none)
  BY <1>1, StoredAreFew DEF NoTx, TxRow, TxIsRight
<1>3. tx' = [tx EXCEPT ![r] = none]
  BY <1>1 DEF Ends
<1> QED BY <1>2, <1>3, EndingFreesTheLock, RequestGoesOnInLibrary

\* A request is made.
LEMMA AskingGoesOn ==
    ASSUME LibraryInv, NEW r \in Asking, NEW kind \in {"add", "remove", "run", "drop"},
           NEW of \in SUBSET Case, kind = "add" => \E c \in Case : of = {c}, Asks(r, kind, of)
    PROVE  LibraryInv'
<1>1. PICK t : t = [NoTx EXCEPT !.at = "asked", !.kind = kind, !.of = of]
  OBVIOUS
<1>2. t \in TxRow /\ t.at = "asked" /\ t.kind = kind /\ t.of = of
  <2>1. t = [at |-> "asked", kind |-> kind, of |-> of, count |-> 0]
    BY <1>1 DEF NoTx
  <2>2. 0 \in 0 .. Cardinality(Case)
    BY StoredAreFew
  <2> QED BY <2>1, <2>2 DEF TxRow
<1>3. tx' = [tx EXCEPT ![r] = t] /\ tx[r].at = "idle" /\ UNCHANGED <<dataset, cases, evals, storing>>
  BY <1>1 DEF Asks
<1>4. LocksAreRight'
  BY <1>2, <1>3 DEF LibraryInv, LibraryTypes, LocksAreRight, Holding
<1>5. TxIsRight(t) /\ dataset' \in DatasetRow
  BY <1>2, <1>3 DEF TxIsRight, LibraryInv, LibraryTypes
<1> QED BY <1>2, <1>3, <1>4, <1>5, RequestGoesOnInLibrary

\* A request goes on under its lock, or takes it.
LEMMA LockedGoesOn ==
    ASSUME LibraryInv, NEW r \in Asking, NEW t \in TxRow, UNCHANGED <<cases, evals, storing>>,
           tx' = [tx EXCEPT ![r] = t], t.at \in Holding, TxIsRight(t),
           \/ dataset.lock = r /\ dataset' = dataset
           \/ dataset.lock = Free /\ dataset' = [dataset EXCEPT !.lock = r]
    PROVE  LibraryInv'
<1>1. dataset \in DatasetRow
  BY DEF LibraryInv, LibraryTypes
<1>2. dataset' \in DatasetRow /\ dataset'.lock = r
  BY <1>1 DEF DatasetRow
<1>3. tx'[r] = t /\ \A q \in Asking : q # r => tx'[q] = tx[q]
  BY DEF LibraryInv, LibraryTypes
<1>4. \A q \in Asking : q # r => tx[q].at \notin Holding
  BY FreeIsNobody DEF LibraryInv, LocksAreRight
<1>5. LocksAreRight'
  BY <1>2, <1>3, <1>4 DEF LocksAreRight
<1> QED BY <1>2, <1>5, RequestGoesOnInLibrary

\* The dataset is locked.
LEMMA LockingGoesOn ==
    ASSUME LibraryInv, NEW r \in Asking, LockDataset(r)
    PROVE  LibraryInv'
<1>1. UNCHANGED <<cases, evals, storing>> /\ tx[r].at = "asked" /\ dataset.lock = Free
  BY DEF LockDataset
<1>2. CASE Ends(r)
  BY <1>1, <1>2, EndingGoesOn
<1>3. CASE Goes(r, "locked") /\ dataset' = [dataset EXCEPT !.lock = r]
  <2>1. PICK t : t = [tx[r] EXCEPT !.at = "locked"]
    OBVIOUS
  <2>2. tx[r] \in TxRow /\ TxIsRight(tx[r])
    BY DEF LibraryInv, LibraryTypes, TxsAreRight
  <2>3. t \in TxRow /\ t.at = "locked" /\ t.kind = tx[r].kind /\ t.of = tx[r].of
    BY <2>1, <2>2 DEF TxRow
  <2>4. TxIsRight(t)
    BY <2>2, <2>3 DEF TxIsRight
  <2>5. tx' = [tx EXCEPT ![r] = t]
    BY <1>3, <2>1 DEF Goes
  <2>6. t.at \in Holding
    BY <2>3 DEF Holding
  <2> QED BY <1>1, <1>3, <2>3, <2>4, <2>5, <2>6, LockedGoesOn
<1> QED BY <1>2, <1>3 DEF LockDataset

\* The cases are counted.
LEMMA CountingGoesOn ==
    ASSUME LibraryInv, NEW r \in Asking, CountCases(r)
    PROVE  LibraryInv'
<1>1. UNCHANGED <<cases, evals, storing>> /\ tx[r].at = "locked" /\ tx[r].kind \in {"add", "run"}
  BY DEF CountCases
<1>2. CASE Ends(r)
  BY <1>1, <1>2, EndingGoesOn
<1>3. CASE ~Ends(r)
  <2>1. PICK n : n = Cardinality(Stored)
    OBVIOUS
  <2>2. PICK m, t : /\ m = IF tx[r].kind = "run" THEN n ELSE 0
                    /\ t = [tx[r] EXCEPT !.at = "counted", !.count = m]
    OBVIOUS
  <2>3. tx[r] \in TxRow /\ TxIsRight(tx[r]) /\ n \in 0 .. Cardinality(Case) /\ Cardinality(Case) \in Nat
        /\ MaxCases \in Nat
    BY <2>1, StoredAreFew DEF LibraryInv, LibraryTypes, TxsAreRight
  <2>4. t \in TxRow /\ t.at = "counted" /\ t.kind = tx[r].kind /\ t.of = tx[r].of
        /\ (t.kind = "run" => t.count = n)
    <3>1. m \in 0 .. Cardinality(Case) /\ (tx[r].kind = "run" => m = n)
      BY <2>2, <2>3
    <3>2. t = [tx[r] EXCEPT !.at = "counted", !.count = m]
      BY <2>2
    <3>3. t \in TxRow /\ t.at = "counted" /\ t.kind = tx[r].kind /\ t.of = tx[r].of /\ t.count = m
      BY <2>3, <3>1, <3>2 DEF TxRow
    <3> QED BY <3>1, <3>3
  <2>5. /\ ~((tx[r].kind = "add" /\ n >= MaxCases) \/ (tx[r].kind = "run" /\ n = 0))
        /\ tx' = [tx EXCEPT ![r].at = "counted", ![r].count = IF tx[r].kind = "run" THEN n ELSE 0]
        /\ dataset' = dataset
    BY <1>3, <2>1 DEF CountCases
  <2>6. tx' = [tx EXCEPT ![r] = t]
    BY <2>2, <2>3, <2>5 DEF LibraryInv, LibraryTypes, TxRow
  <2>7. TxIsRight(t)
    BY <1>1, <2>1, <2>3, <2>4, <2>5 DEF TxIsRight
  <2>8. t.at \in Holding /\ dataset.lock = r
    BY <1>1, <2>4 DEF Holding, LibraryInv, LocksAreRight
  <2> QED BY <1>1, <2>4, <2>5, <2>6, <2>7, <2>8, LockedGoesOn
<1> QED BY <1>2, <1>3

\* The request that has the lock ends with other cases than there were.
LEMMA CasesGoOn ==
    ASSUME LibraryInv, NEW r \in Asking, dataset.lock = r, Ends(r), UNCHANGED <<evals, storing>>,
           cases' \in [Case -> {"new", "stored", "gone"}],
           \A c \in Case : cases'[c] = "new" => cases[c] = "new",
           Cardinality(Stored)' <= MaxCases
    PROVE  LibraryInv'
<1>1. /\ dataset' \in DatasetRow /\ tx' \in [Asking -> TxRow] /\ LocksAreRight'
      /\ tx'[r] = NoTx /\ \A q \in Asking : q # r => tx'[q] = tx[q]
  BY EndingFreesTheLock
<1>2. \A q \in Asking : q # r => tx[q].at \notin Holding
  BY DEF LibraryInv, LocksAreRight
<1>3. ASSUME NEW q \in Asking PROVE TxIsRight(tx[q])'
  <2>1. CASE q = r
    BY <1>1, <2>1 DEF TxIsRight, NoTx
  <2>2. CASE q # r
    BY <1>1, <1>2, <2>2 DEF TxIsRight, LibraryInv, TxsAreRight, Holding
  <2> QED BY <2>1, <2>2
<1>4. EvalsAreRight'
  BY EvalsGoOn
<1>5. LibraryTypes'
  BY <1>1 DEF LibraryInv, LibraryTypes
<1> QED BY <1>1, <1>3, <1>4, <1>5 DEF LibraryInv, TxsAreRight

\* A case is added.
LEMMA AddingGoesOn ==
    ASSUME LibraryInv, NEW r \in Asking, AddCase(r)
    PROVE  LibraryInv'
<1>1. PICK c \in Case : tx[r].of = {c}
  BY DEF LibraryInv, TxsAreRight, TxIsRight, AddCase
<1>2. Cardinality(Stored) < MaxCases /\ dataset.lock = r
  BY DEF LibraryInv, TxsAreRight, TxIsRight, LocksAreRight, Holding, AddCase
<1>3. cases' = [d \in Case |-> IF d \in {c} THEN "stored" ELSE cases[d]]
  BY <1>1 DEF AddCase
<1>4. /\ cases' \in [Case -> {"new", "stored", "gone"}]
      /\ \A d \in Case : cases'[d] = "new" => cases[d] = "new"
  BY <1>3 DEF LibraryInv, LibraryTypes
<1>5. Stored' = Stored \cup {c}
  BY <1>3 DEF Stored
<1>6. Cardinality(Stored)' <= Cardinality(Stored) + 1
  <2>1. Cardinality(Stored \cup {c}) = IF c \in Stored THEN Cardinality(Stored) ELSE Cardinality(Stored) + 1
    BY StoredAreFew, FS_AddElement
  <2>2. Cardinality(Stored) \in Nat
    BY StoredAreFew
  <2> QED BY <1>5, <2>1, <2>2
<1>7. Cardinality(Stored)' \in Nat
  BY <1>5, StoredAreFew, FS_AddElement, FS_CardinalityType
<1>8. Cardinality(Stored)' <= MaxCases
  BY <1>2, <1>6, <1>7, StoredAreFew
<1>9. Ends(r) /\ UNCHANGED <<evals, storing>>
  BY DEF AddCase
<1> QED BY <1>2, <1>4, <1>8, <1>9, CasesGoOn

\* A row of a case is deleted, and the deletion committed.
LEMMA RemovingGoesOn ==
    ASSUME LibraryInv, NEW r \in Asking, DeleteRow(r) \/ RemoveCase(r)
    PROVE  LibraryInv'
<1>1. CASE DeleteRow(r)
  <2>1. PICK t : t = [tx[r] EXCEPT !.at = "deleted"]
    OBVIOUS
  <2>2. tx[r] \in TxRow /\ TxIsRight(tx[r])
    BY DEF LibraryInv, LibraryTypes, TxsAreRight
  <2>3. t \in TxRow /\ t.at = "deleted" /\ t.kind = tx[r].kind /\ t.of = tx[r].of
    BY <2>1, <2>2 DEF TxRow
  <2>4. TxIsRight(t)
    BY <2>2, <2>3 DEF TxIsRight
  <2>5. tx' = [tx EXCEPT ![r] = t] /\ UNCHANGED <<dataset, cases, evals, storing>> /\ tx[r].at = "locked"
    BY <1>1, <2>1 DEF DeleteRow, Goes
  <2>6. t.at \in Holding /\ dataset.lock = r
    BY <2>3, <2>5 DEF Holding, LibraryInv, LocksAreRight
  <2> QED BY <2>3, <2>4, <2>5, <2>6, LockedGoesOn
<1>2. CASE RemoveCase(r)
  <2>1. dataset.lock = r
    BY <1>2 DEF RemoveCase, LibraryInv, LocksAreRight, Holding
  <2>2. cases' = [d \in Case |-> IF d \in tx[r].of THEN "gone" ELSE cases[d]]
    BY <1>2 DEF RemoveCase
  <2>3. /\ cases' \in [Case -> {"new", "stored", "gone"}]
        /\ \A d \in Case : cases'[d] = "new" => cases[d] = "new"
    BY <2>2 DEF LibraryInv, LibraryTypes
  <2>4. Stored' \in SUBSET Stored
    BY <2>2 DEF Stored
  <2>5. Cardinality(Stored)' <= Cardinality(Stored) /\ Cardinality(Stored)' \in Nat
    BY <2>4, StoredAreFew, FS_Subset, FS_CardinalityType
  <2>6. Cardinality(Stored)' <= MaxCases
    BY <2>5, StoredAreFew DEF LibraryInv, TxsAreRight
  <2>7. Ends(r) /\ UNCHANGED <<evals, storing>>
    BY <1>2 DEF RemoveCase
  <2> QED BY <2>1, <2>3, <2>6, <2>7, CasesGoOn
<1> QED BY <1>1, <1>2

\* A run that exists is the latest of those, or none is.
LEMMA OneOfSome ==
    ASSUME NEW T
    PROVE  OneOf(Latest(T)) = Nil \/ OneOf(Latest(T)) \in T
<1>1. Latest(T) \subseteq T
  BY DEF Latest
<1>2. CASE Latest(T) = {}
  BY <1>2 DEF OneOf
<1>3. CASE Latest(T) # {}
  <2>1. (CHOOSE x \in Latest(T) : TRUE) \in Latest(T)
    BY <1>3
  <2>2. OneOf(Latest(T)) = CHOOSE x \in Latest(T) : TRUE
    BY <1>3 DEF OneOf
  <2> QED BY <1>1, <2>1, <2>2
<1> QED BY <1>2, <1>3

\* A run is started, of the cases that were counted.
LEMMA StartingGoesOn ==
    ASSUME LibraryInv, NEW r \in Asking, StartRun(r)
    PROVE  LibraryInv'
<1>1. Ends(r) /\ UNCHANGED <<cases, storing>> /\ storing.eval = Nil
      /\ tx[r].count = Cardinality(Stored) /\ tx[r].count > 0
  BY DEF StartRun, LibraryInv, TxsAreRight, TxIsRight
<1>2. CASE UNCHANGED evals
  BY <1>1, <1>2, EndingGoesOn
<1>3. CASE ~UNCHANGED evals
  <2>1. PICK base : base = OneOf(Latest(In({"completed"})))
    OBVIOUS
  <2>2. PICK e \in Eval :
          /\ evals[e].status = "none" /\ In({"running"}) = {}
          /\ evals' = [evals EXCEPT ![e] =
               [NoEval EXCEPT !.status = "running", !.count = tx[r].count, !.snapshot = Stored, !.baseline = base]]
          /\ \A f \in 1 .. e - 1 : evals[f].status # "none"
    BY <1>3, <2>1 DEF StartRun
  <2>3. PICK new : new = [NoEval EXCEPT !.status = "running", !.count = tx[r].count,
                                        !.snapshot = Stored, !.baseline = base]
    OBVIOUS
  <2>4. base = Nil \/ (base \in Eval /\ evals[base].status = "completed")
    BY <2>1, OneOfSome DEF In
  <2>5. new = [status |-> "running", count |-> tx[r].count, snapshot |-> Stored, baseline |-> base, ok |-> {}]
    BY <2>3 DEF NoEval
  <2>6. tx[r].count \in 0 .. Cardinality(Case) /\ Stored \subseteq Case
    BY <1>1, StoredAreFew DEF Stored
  <2>7. new \in EvalRow
    BY <2>4, <2>5, <2>6 DEF EvalRow
  <2>8. evals' \in [Eval -> EvalRow] /\ evals'[e] = new /\ \A f \in Eval : f # e => evals'[f] = evals[f]
    BY <2>2, <2>3, <2>7 DEF LibraryInv, LibraryTypes
  <2>9. \A f \in Eval : f < e => evals[f].status # "none"
    BY <2>2 DEF Eval
  <2>10. base # Nil => base < e
    <3> SUFFICES ASSUME base # Nil PROVE base < e
      OBVIOUS
    <3>1. base \in Eval /\ evals[base].status = "completed"
      BY <2>4
    <3>2. base # e /\ ~(e < base)
      BY <2>2, <3>1 DEF LibraryInv, EvalsAreRight
    <3>3. base \in Nat /\ e \in Nat
      BY <3>1 DEF Eval
    <3> QED BY <3>2, <3>3
  <2>11. ASSUME NEW f \in Eval PROVE EvalIsRight(f)'
    <3>1. \A c \in Stored : cases'[c] # "new"
      BY <1>1 DEF Stored
    <3>2. CASE f = e
      <4>1. /\ evals'[f].status = "running" /\ evals'[f].count = tx[r].count /\ evals'[f].snapshot = Stored
            /\ evals'[f].baseline = base /\ evals'[f].ok = {}
        BY <2>5, <2>8, <3>2
      <4>2. base # Nil => base < f /\ evals'[base].status = "completed"
        BY <2>2, <2>4, <2>8, <2>10, <3>2
      <4> QED BY <1>1, <3>1, <4>1, <4>2 DEF EvalIsRight
    <3>3. CASE f # e
      <4>1. evals'[f] = evals[f] /\ EvalIsRight(f) /\ evals[f] \in EvalRow
        BY <2>8, <3>3 DEF LibraryInv, EvalsAreRight, LibraryTypes
      <4>2. evals[f].baseline # Nil => evals'[evals[f].baseline].status = "completed"
        BY <2>2, <2>8, <4>1 DEF EvalIsRight, EvalRow
      <4> QED BY <1>1, <4>1, <4>2 DEF EvalIsRight
    <3> QED BY <3>2, <3>3
  <2>12. ASSUME NEW f \in Eval, NEW g \in Eval, f < g, evals'[g].status # "none" PROVE evals'[f].status # "none"
    <3>1. CASE f = e
      BY <2>5, <2>8, <3>1
    <3>2. CASE f # e /\ g = e
      BY <2>8, <2>9, <2>12, <3>2
    <3>3. CASE f # e /\ g # e
      BY <2>8, <2>12, <3>3 DEF LibraryInv, EvalsAreRight
    <3> QED BY <3>1, <3>2, <3>3
  <2>13. In({"running"})' \subseteq {e}
    BY <2>2, <2>8 DEF In
  <2>14. EvalsAreRight'
    BY <1>1, <2>11, <2>12, <2>13 DEF EvalsAreRight
  <2>15. /\ dataset' \in DatasetRow /\ tx' \in [Asking -> TxRow] /\ LocksAreRight'
         /\ tx'[r] = NoTx /\ \A q \in Asking : q # r => tx'[q] = tx[q]
    BY <1>1, EndingFreesTheLock
  <2>16. Stored' = Stored
    BY <1>1 DEF Stored
  <2>17. ASSUME NEW q \in Asking PROVE TxIsRight(tx[q])'
    <3>1. CASE q = r
      BY <2>15, <3>1 DEF TxIsRight, NoTx
    <3>2. CASE q # r
      BY <2>15, <2>16, <3>2 DEF TxIsRight, LibraryInv, TxsAreRight
    <3> QED BY <3>1, <3>2
  <2>18. TxsAreRight'
    BY <2>16, <2>17 DEF LibraryInv, TxsAreRight
  <2>19. LibraryTypes'
    BY <1>1, <2>8, <2>15 DEF LibraryInv, LibraryTypes
  <2> QED BY <2>14, <2>15, <2>18, <2>19 DEF LibraryInv
<1> QED BY <1>2, <1>3

\* The dataset is deleted with all that is its.
LEMMA DroppingGoesOn ==
    ASSUME LibraryInv, NEW r \in Asking, DropDataset(r)
    PROVE  LibraryInv'
<1>1. PICK none, new : none = NoTx /\ new = NoEval
  OBVIOUS
<1>2. none \in TxRow /\ none.at = "idle" /\ none.kind = "none"
  BY <1>1, StoredAreFew DEF NoTx, TxRow
<1>3. new \in EvalRow /\ new.status = "none" /\ new.ok = {} /\ new.snapshot = {} /\ new.baseline = Nil
  BY <1>1, StoredAreFew DEF NoEval, EvalRow, Nil
<1>4. /\ tx' = [tx EXCEPT ![r] = none] /\ dataset' = [there |-> FALSE, lock |-> Free]
      /\ cases' = [c \in Case |-> "gone"] /\ evals' = [e \in Eval |-> new] /\ storing' = storing
      /\ storing.eval = Nil /\ tx[r].at = "locked"
  BY <1>1 DEF DropDataset
<1>5. tx' \in [Asking -> TxRow] /\ tx'[r] = none /\ \A q \in Asking : q # r => tx'[q] = tx[q]
  BY <1>2, <1>4 DEF LibraryInv, LibraryTypes
<1>6. \A q \in Asking : q # r => tx[q].at \notin Holding
  BY <1>4 DEF LibraryInv, LocksAreRight, Holding
<1>7. LocksAreRight'
  BY <1>2, <1>4, <1>5, <1>6, FreeIsNobody DEF LocksAreRight, Holding
<1>8. ASSUME NEW q \in Asking PROVE TxIsRight(tx[q])'
  <2>1. CASE q = r
    BY <1>2, <1>5, <2>1 DEF TxIsRight
  <2>2. CASE q # r
    BY <1>5, <1>6, <2>2 DEF TxIsRight, LibraryInv, TxsAreRight, Holding
  <2> QED BY <2>1, <2>2
<1>9. Cardinality(Stored)' <= MaxCases
  <2>1. Stored' = {}
    BY <1>4 DEF Stored
  <2> QED BY <2>1, FS_EmptySet, StoredAreFew
<1>10. EvalsAreRight'
  BY <1>3, <1>4 DEF EvalsAreRight, EvalIsRight, In
<1>11. LibraryTypes'
  <2>1. dataset' \in DatasetRow
    BY <1>4 DEF DatasetRow
  <2>2. cases' \in [Case -> {"new", "stored", "gone"}] /\ evals' \in [Eval -> EvalRow]
    BY <1>3, <1>4
  <2> QED BY <1>4, <1>5, <2>1, <2>2 DEF LibraryInv, LibraryTypes
<1> QED BY <1>7, <1>8, <1>9, <1>10, <1>11 DEF LibraryInv, TxsAreRight

\* A run that was under way ends.
LEMMA EvalEnds ==
    ASSUME LibraryInv, NEW e \in Eval, evals[e].status = "running", NEW new \in EvalRow,
           new.status \in {"completed", "failed", "ended"}, new.count = evals[e].count,
           new.snapshot = evals[e].snapshot, new.baseline = evals[e].baseline,
           new.ok \subseteq new.snapshot, evals' = [evals EXCEPT ![e] = new],
           storing' \in StoringRow, storing'.eval = Nil, UNCHANGED <<dataset, cases, tx>>
    PROVE  LibraryInv'
<1>1. evals' \in [Eval -> EvalRow] /\ evals'[e] = new /\ \A f \in Eval : f # e => evals'[f] = evals[f]
  BY DEF LibraryInv, LibraryTypes
<1>2. ASSUME NEW f \in Eval PROVE EvalIsRight(f)'
  <2>1. EvalIsRight(f) /\ evals[f] \in EvalRow
    BY DEF LibraryInv, EvalsAreRight, LibraryTypes
  <2>2. evals[f].baseline # Nil =>
          evals[f].baseline < f /\ evals'[evals[f].baseline].status = "completed"
    BY <1>1, <2>1 DEF EvalIsRight, EvalRow
  <2>3. CASE f = e
    BY <1>1, <2>1, <2>2, <2>3 DEF EvalIsRight
  <2>4. CASE f # e
    BY <1>1, <2>1, <2>2, <2>4 DEF EvalIsRight
  <2> QED BY <2>3, <2>4
<1>3. \A f, g \in Eval : f < g /\ evals'[g].status # "none" => evals'[f].status # "none"
  <2>1. \A f \in Eval : evals'[f].status = "none" <=> evals[f].status = "none"
    BY <1>1
  <2> QED BY <2>1 DEF LibraryInv, EvalsAreRight
<1>4. In({"running"})' \subseteq In({"running"})
  BY <1>1 DEF In
<1>5. EvalsAreRight'
  BY <1>2, <1>3, <1>4 DEF LibraryInv, EvalsAreRight
<1>6. LibraryTypes'
  BY <1>1 DEF LibraryInv, LibraryTypes
<1>7. LocksAreRight' /\ TxsAreRight'
  BY DEF LibraryInv, LocksAreRight, TxsAreRight, TxIsRight, Stored
<1> QED BY <1>5, <1>6, <1>7 DEF LibraryInv

\* The completion goes on, or gives up.
LEMMA StoringGoesOn ==
    ASSUME LibraryInv, UNCHANGED <<dataset, cases, evals, tx>>, storing' \in StoringRow,
           storing'.eval # Nil => evals[storing'.eval].status = "running"
    PROVE  LibraryInv'
<1>1. EvalsAreRight'
  <2>1. \A e \in Eval : EvalIsRight(e)'
    BY DEF LibraryInv, EvalsAreRight, EvalIsRight
  <2>2. In({"running"})' = In({"running"})
    BY DEF In
  <2> QED BY <2>1, <2>2 DEF LibraryInv, EvalsAreRight
<1>2. LibraryTypes'
  BY DEF LibraryInv, LibraryTypes
<1>3. LocksAreRight' /\ TxsAreRight'
  BY DEF LibraryInv, LocksAreRight, TxsAreRight, TxIsRight, Stored
<1> QED BY <1>1, <1>2, <1>3 DEF LibraryInv

\* A completion that is over is right.
LEMMA RolledBack ==
    ASSUME RollsBack
    PROVE  storing' \in StoringRow /\ storing'.eval = Nil
BY DEF RollsBack, NotStoring, StoringRow

\* The completion begins, stores results, waits and fails.
LEMMA CompletionGoesOn ==
    ASSUME LibraryInv,
           \/ \E e \in Eval : BeginCompletion(e)
           \/ \E c \in Case : StoreResult(c)
           \/ ReferenceFails
    PROVE  LibraryInv'
<1>1. storing \in StoringRow /\ (storing.eval # Nil => evals[storing.eval].status = "running")
  BY DEF LibraryInv, LibraryTypes, EvalsAreRight
<1>2. ASSUME NEW e \in Eval, BeginCompletion(e) PROVE LibraryInv'
  <2>1. storing' = [eval |-> e, stored |-> {}, waits |-> {}]
    BY <1>2 DEF BeginCompletion, NotStoring
  <2>2. storing' \in StoringRow /\ storing'.eval = e
    BY <2>1 DEF StoringRow
  <2> QED BY <1>2, <2>2, StoringGoesOn DEF BeginCompletion
<1>3. ASSUME NEW c \in Case, StoreResult(c) PROVE LibraryInv'
  <2>1. storing' \in StoringRow /\ storing'.eval = storing.eval
    <3>1. CASE storing' = [storing EXCEPT !.waits = {c}]
      BY <1>1, <3>1 DEF StoringRow
    <3>2. CASE storing' = [storing EXCEPT !.stored = @ \cup {c}]
      BY <1>1, <3>2 DEF StoringRow
    <3> QED BY <1>3, <3>1, <3>2 DEF StoreResult
  <2> QED BY <1>1, <1>3, <2>1, StoringGoesOn DEF StoreResult
<1>4. CASE ReferenceFails
  <2>1. CASE RollsBack
    BY <1>4, <2>1, RolledBack, StoringGoesOn DEF ReferenceFails
  <2>2. CASE storing' = [storing EXCEPT !.stored = @ \cup storing.waits, !.waits = {}]
    <3>1. storing' \in StoringRow /\ storing'.eval = storing.eval
      BY <1>1, <2>2 DEF StoringRow
    <3> QED BY <1>1, <1>4, <3>1, StoringGoesOn DEF ReferenceFails
  <2> QED BY <1>4, <2>1, <2>2 DEF ReferenceFails
<1> QED BY <1>2, <1>3, <1>4

\* The completion commits, and a run ends otherwise.
LEMMA EndingRunsGoesOn ==
    ASSUME LibraryInv,
           \/ \E ok \in SUBSET Case : CommitCompletion(ok)
           \/ \E e \in Eval : EndRun(e)
    PROVE  LibraryInv'
<1>1. storing \in StoringRow
  BY DEF LibraryInv, LibraryTypes
<1>2. ASSUME NEW ok \in SUBSET Case, CommitCompletion(ok) PROVE LibraryInv'
  <2>1. PICK e : e = storing.eval
    OBVIOUS
  <2>2. e \in Eval /\ evals[e].status = "running" /\ evals[e] \in EvalRow /\ ok \subseteq evals[e].snapshot
    BY <1>1, <1>2, <2>1 DEF CommitCompletion, StoringRow, LibraryInv, LibraryTypes, EvalsAreRight
  <2>3. PICK end \in {"failed", "completed"} :
          evals' = [evals EXCEPT ![e].ok = ok, ![e].status = end]
    BY <1>2, <2>1 DEF CommitCompletion
  <2>4. PICK new : new = [evals[e] EXCEPT !.ok = ok, !.status = end]
    OBVIOUS
  <2>5. /\ new \in EvalRow /\ new.status = end /\ new.count = evals[e].count
        /\ new.snapshot = evals[e].snapshot /\ new.baseline = evals[e].baseline /\ new.ok = ok
    BY <2>2, <2>4 DEF EvalRow
  <2>6. evals' = [evals EXCEPT ![e] = new]
    BY <2>2, <2>3, <2>4 DEF LibraryInv, LibraryTypes, EvalRow
  <2>7. storing' \in StoringRow /\ storing'.eval = Nil /\ UNCHANGED <<dataset, cases, tx>>
    BY <1>2, RolledBack DEF CommitCompletion
  <2> QED BY <2>2, <2>5, <2>6, <2>7, EvalEnds
<1>3. ASSUME NEW e \in Eval, EndRun(e) PROVE LibraryInv'
  <2>1. evals[e].status = "running" /\ evals[e] \in EvalRow /\ EvalIsRight(e)
    BY <1>3 DEF EndRun, LibraryInv, LibraryTypes, EvalsAreRight
  <2>2. PICK new : new = [evals[e] EXCEPT !.status = "ended"]
    OBVIOUS
  <2>3. /\ new \in EvalRow /\ new.status = "ended" /\ new.count = evals[e].count /\ new.ok = evals[e].ok
        /\ new.snapshot = evals[e].snapshot /\ new.baseline = evals[e].baseline
    BY <2>1, <2>2 DEF EvalRow
  <2>4. /\ evals' = [evals EXCEPT ![e] = new] /\ UNCHANGED <<dataset, cases, tx>>
        /\ storing' \in StoringRow /\ storing'.eval = Nil
    BY <1>1, <1>3, <2>2 DEF EndRun
  <2>5. new.ok \subseteq new.snapshot
    BY <2>1, <2>3 DEF EvalIsRight
  <2> QED BY <2>1, <2>3, <2>4, <2>5, EvalEnds
<1> QED BY <1>2, <1>3

\* A circle is broken.
LEMMA BreakingGoesOn ==
    ASSUME LibraryInv, BreakDeadlock
    PROVE  LibraryInv'
<1>1. PICK p \in Asking \cup {Completion} :
        /\ IF p = Completion THEN RollsBack /\ UNCHANGED <<tx, dataset>> ELSE Ends(p) /\ UNCHANGED storing
        /\ UNCHANGED <<cases, evals>>
  BY DEF BreakDeadlock, Cycles
<1>2. CASE p = Completion
  BY <1>1, <1>2, RolledBack, StoringGoesOn
<1>3. CASE p # Completion
  <2>1. p \in Asking
    BY <1>3
  <2> QED BY <1>1, <1>3, <2>1, EndingGoesOn
<1> QED BY <1>2, <1>3

\* The invariant holds at the start.
LEMMA LibraryStarts == LibraryInit => LibraryInv
<1>. SUFFICES ASSUME LibraryInit PROVE LibraryInv
  OBVIOUS
<1>1. PICK none, new : none = NoTx /\ new = NoEval
  OBVIOUS
<1>2. none \in TxRow /\ none.at = "idle" /\ none.kind = "none"
  BY <1>1, StoredAreFew DEF NoTx, TxRow
<1>3. new \in EvalRow /\ new.status = "none" /\ new.ok = {} /\ new.snapshot = {} /\ new.baseline = Nil
  BY <1>1, StoredAreFew DEF NoEval, EvalRow, Nil
<1>4. /\ tx = [r \in Asking |-> none] /\ dataset = [there |-> TRUE, lock |-> Free]
      /\ cases = [c \in Case |-> "new"] /\ evals = [e \in Eval |-> new]
  BY <1>1 DEF LibraryInit
<1>5. storing \in StoringRow /\ storing.eval = Nil
  BY DEF LibraryInit, NotStoring, StoringRow
<1>6. dataset \in DatasetRow
  BY <1>4 DEF DatasetRow
<1>7. cases \in [Case -> {"new", "stored", "gone"}] /\ evals \in [Eval -> EvalRow] /\ tx \in [Asking -> TxRow]
  BY <1>2, <1>3, <1>4
<1>8. LocksAreRight
  BY <1>2, <1>4, FreeIsNobody DEF LocksAreRight, Holding
<1>9. Cardinality(Stored) <= MaxCases
  <2>1. Stored = {}
    BY <1>4 DEF Stored
  <2> QED BY <2>1, FS_EmptySet, StoredAreFew
<1>10. TxsAreRight
  BY <1>2, <1>4, <1>9 DEF TxsAreRight, TxIsRight
<1>11. EvalsAreRight
  BY <1>3, <1>4, <1>5 DEF EvalsAreRight, EvalIsRight, In
<1> QED BY <1>5, <1>6, <1>7, <1>8, <1>10, <1>11 DEF LibraryInv, LibraryTypes

\* Every step keeps the invariant.
LEMMA LibraryGoesOn == LibraryInv /\ [LibraryNext]_libraryVars => LibraryInv'
<1>. SUFFICES ASSUME LibraryInv, [LibraryNext]_libraryVars PROVE LibraryInv'
  OBVIOUS
<1>1. ASSUME NEW r \in Asking, NEW c \in Case, AskAdd(r, c) \/ AskRemove(r, c) PROVE LibraryInv'
  <2>1. {c} \in SUBSET Case /\ (Asks(r, "add", {c}) \/ Asks(r, "remove", {c}))
    BY <1>1 DEF AskAdd, AskRemove
  <2> QED BY <2>1, AskingGoesOn
<1>2. ASSUME NEW r \in Asking, AskRun(r) \/ AskDrop(r) PROVE LibraryInv'
  <2>1. {} \in SUBSET Case /\ (Asks(r, "run", {}) \/ Asks(r, "drop", {}))
    BY <1>2 DEF AskRun, AskDrop
  <2> QED BY <2>1, AskingGoesOn
<1>3. ASSUME NEW r \in Asking, LockDataset(r) \/ CountCases(r) PROVE LibraryInv'
  BY <1>3, LockingGoesOn, CountingGoesOn
<1>4. ASSUME NEW r \in Asking, AddCase(r) \/ DeleteRow(r) \/ RemoveCase(r) PROVE LibraryInv'
  BY <1>4, AddingGoesOn, RemovingGoesOn
<1>5. ASSUME NEW r \in Asking, StartRun(r) \/ DropDataset(r) PROVE LibraryInv'
  BY <1>5, StartingGoesOn, DroppingGoesOn
<1>6. ASSUME NEW e \in Eval, BeginCompletion(e) \/ EndRun(e) PROVE LibraryInv'
  BY <1>6, CompletionGoesOn, EndingRunsGoesOn
<1>7. ASSUME NEW c \in Case, StoreResult(c) PROVE LibraryInv'
  BY <1>7, CompletionGoesOn
<1>8. ASSUME NEW ok \in SUBSET Case, CommitCompletion(ok) PROVE LibraryInv'
  BY <1>8, EndingRunsGoesOn
<1>9. CASE ReferenceFails \/ BreakDeadlock
  BY <1>9, CompletionGoesOn, BreakingGoesOn
<1>10. CASE UNCHANGED libraryVars
  <2>1. UNCHANGED <<dataset, cases, evals, tx, storing>>
    BY <1>10 DEF libraryVars
  <2> QED BY <2>1, StoringGoesOn DEF LibraryInv, LibraryTypes, EvalsAreRight
<1> QED BY <1>1, <1>2, <1>3, <1>4, <1>5, <1>6, <1>7, <1>8, <1>9, <1>10 DEF LibraryNext

\* What the invariant says of the runs and of the waiting.
LEMMA LibraryInvTells == LibraryInv => RunsAreWhole /\ CirclesPassTheCompletion
<1>. SUFFICES ASSUME LibraryInv PROVE RunsAreWhole /\ CirclesPassTheCompletion
  OBVIOUS
<1>1. LibraryTypeOK
  BY DEF LibraryInv, LibraryTypes, LibraryTypeOK, DatasetRow, EvalRow, TxRow, StoringRow
<1>2. Cardinality(In({"running"})) <= 1
  <2>1. CASE In({"running"}) = {}
    BY <2>1, FS_EmptySet
  <2>2. CASE In({"running"}) # {}
    <3>1. PICK e : e \in In({"running"})
      BY <2>2
    <3>2. In({"running"}) = {e}
      <4>1. \A f \in In({"running"}) : f = e
        BY <3>1 DEF LibraryInv, EvalsAreRight
      <4> QED BY <3>1, <4>1
    <3> QED BY <3>2, FS_Singleton
  <2> QED BY <2>1, <2>2
<1>3. ASSUME NEW e \in In({"running", "completed", "failed", "ended"})
      PROVE  /\ evals[e].count = Cardinality(evals[e].snapshot) /\ evals[e].count > 0
             /\ evals[e].baseline # Nil =>
                  evals[e].baseline < e /\ evals[evals[e].baseline].status = "completed"
  BY <1>3 DEF In, LibraryInv, EvalsAreRight, EvalIsRight
<1>4. RunsAreWhole
  BY <1>1, <1>2, <1>3 DEF RunsAreWhole, LibraryInv, TxsAreRight
<1>5. ASSUME NEW party \in Cycles, Completion \notin party PROVE FALSE
  <2>1. party \subseteq Asking /\ party # {} /\ \A p \in party : WaitsFor(p) \cap party # {}
    BY <1>5 DEF Cycles, InCycle
  <2>2. ASSUME NEW q \in party, tx[q].at \in Holding PROVE FALSE
    <3>1. q \in Asking /\ dataset.lock = q /\ q # Completion
      BY <2>1, <2>2, FreeIsNobody DEF LibraryInv, LocksAreRight
    <3>2. \A p \in party : tx[p].at = "deleted" => p = q
      BY <2>1, <3>1 DEF LibraryInv, LocksAreRight, Holding
    <3>3. CASE tx[q].at = "deleted"
      <4>1. WaitsFor(q) = {dataset.lock} \ {q, Free}
        BY <3>1, <3>3 DEF WaitsFor
      <4> QED BY <2>1, <3>1, <4>1
    <3>4. CASE tx[q].at = "counted"
      <4>1. WaitsFor(q) \subseteq {Completion}
        BY <3>1, <3>4 DEF WaitsFor
      <4> QED BY <1>5, <2>1, <4>1
    <3>5. CASE tx[q].at = "locked"
      <4>1. WaitsFor(q) \subseteq {r \in Asking : tx[r].at = "deleted"} \cup {Completion}
        BY <3>1, <3>5 DEF WaitsFor
      <4>2. PICK p \in party : p \in WaitsFor(q)
        BY <2>1
      <4>3. tx[p].at = "deleted"
        BY <1>5, <4>1, <4>2
      <4> QED BY <3>2, <3>5, <4>3
    <3> QED BY <2>2, <3>3, <3>4, <3>5 DEF Holding
  <2>3. PICK p : p \in party
    BY <2>1
  <2>4. p \in Asking /\ p # Completion /\ tx[p].at \notin Holding
    BY <2>1, <2>2, <2>3, FreeIsNobody
  <2>5. tx[p].at \in {"idle", "asked"}
    BY <2>4 DEF LibraryInv, LibraryTypes, TxRow, Holding
  <2>6. WaitsFor(p) \subseteq {dataset.lock} \ {Free}
    BY <2>4, <2>5 DEF WaitsFor
  <2>7. dataset.lock \in party
    BY <2>1, <2>3, <2>6
  <2>8. tx[dataset.lock].at \in Holding
    BY <2>1, <2>7 DEF LibraryInv, LocksAreRight
  <2> QED BY <2>2, <2>7, <2>8
<1>6. CirclesPassTheCompletion
  BY <1>5 DEF CirclesPassTheCompletion
<1> QED BY <1>4, <1>6

\* A run is about the cases that its dataset had at one moment, a dataset never
\* holds more cases than it may, and a run is compared with one that was completed
\* before it, for every number of cases, requests and runs and every limit
\* (createRunningRagEvalRunForUser, createRagEvalCaseForUser).
THEOREM EveryRunIsWhole == LibrarySpec => []RunsAreWhole
<1>1. LibraryInit => LibraryInv
  BY LibraryStarts
<1>2. LibraryInv /\ [LibraryNext]_libraryVars => LibraryInv'
  BY LibraryGoesOn
<1>3. LibraryInv => RunsAreWhole
  BY LibraryInvTells
<1> QED BY <1>1, <1>2, <1>3, PTL DEF LibrarySpec

\* Requests never wait for each other in a circle: every circle passes through
\* the completion of a run, however many requests there are (for update of the
\* dataset against the order of completeRagEvalRunWithResults).
THEOREM EveryCirclePassesTheCompletion == LibrarySpec => []CirclesPassTheCompletion
<1>1. LibraryInit => LibraryInv
  BY LibraryStarts
<1>2. LibraryInv /\ [LibraryNext]_libraryVars => LibraryInv'
  BY LibraryGoesOn
<1>3. LibraryInv => CirclesPassTheCompletion
  BY LibraryInvTells
<1> QED BY <1>1, <1>2, <1>3, PTL DEF LibrarySpec

-----------------------------------------------------------------------------
(* The page of the evaluations in the web client. *)

\* What is true of a dataset, or was: a run of it that has begun or ended.
Known == {e \in Entry : evaluated[e.of] # Absent /\ e.run <= evaluated[e.of]}

PollerShape(p) ==
    /\ p = [running |-> p.running, timer |-> p.timer, again |-> p.again, task |-> p.task]
    /\ p.running \in BOOLEAN /\ p.timer \in BOOLEAN /\ p.again \in BOOLEAN
    /\ p.timer => p.running

\* A request, and what was found for it of the entries of K.
RequestShape(r, k, K) ==
    /\ r = [at |-> r.at, of |-> r.of, found |-> r.found, polled |-> r.polled]
    /\ r.at \in {"none", "asked", "served"} /\ r.found \in Seq(K) /\ r.polled \in BOOLEAN
    /\ k # "datasets" /\ r.at = "served" => Len(r.found) = 1 /\ r.found[1].of = r.of
    /\ k = "quality" => ~r.polled

ModalShape(m, K) ==
    /\ m = [open |-> m.open, run |-> m.run, loading |-> m.loading]
    /\ m.open \in BOOLEAN /\ m.loading \in BOOLEAN /\ m.run \in K \cup {NoEntry}

PageShape(p, K) ==
    /\ p = [list |-> p.list, chosen |-> p.chosen, summary |-> p.summary, modal |-> p.modal,
            poller |-> p.poller]
    /\ p.list \in Seq(K) /\ p.chosen \in Dataset \cup {NoDataset}
    /\ p.summary \in Entry \cup {NoEntry} /\ ModalShape(p.modal, K)
    /\ p.poller = [k \in Polled |-> p.poller[k]] /\ \A k \in Polled : PollerShape(p.poller[k])

Ready(s, K) ==
    /\ s = [page |-> s.page, asked |-> s.asked] /\ PageShape(s.page, K)
    /\ s.asked = [k \in Ticket |-> s.asked[k]] /\ \A k \in Ticket : RequestShape(s.asked[k], k, K)

\* The summary is of what is shown, or will be.
Summed(s) ==
    LET r == s.asked["quality"] IN
    IF r.at = "none"
    THEN s.page.summary # NoEntry =>
           s.page.summary.of = Shown(s).of /\ s.page.summary.run >= Shown(s).run
    ELSE /\ Shown(s) # NoEntry /\ r.of = Shown(s).of
         /\ r.at = "served" => r.found[1].run >= Shown(s).run

\* A change that the server made.
EditShape(c, K) ==
    /\ c = [kind |-> c.kind, of |-> c.of, at |-> c.at, run |-> c.run]
    /\ c.kind \in {"create", "edit", "delete", "run"} /\ c.of \in Dataset
    /\ c.at \in {"asked", "served"} /\ c.run \in Progress
    /\ c.at = "served" /\ c.kind = "create" => [of |-> c.of, run |-> 0] \in K
    /\ c.at = "served" /\ c.kind = "run" => [of |-> c.of, run |-> c.run] \in K

PageInv ==
    /\ evaluated \in [Dataset -> Progress \cup {Absent, Deleted}]
    /\ Ready(Here, Known) /\ Summed(Here)
    /\ \A c \in edits : EditShape(c, Known)
    /\ left \in [asks : 0 .. MaxAsks, lost : 0 .. MaxLost]


\* f follows the recursion of Without up to m.
Filters(s, gone, m, f) ==
    f = [n \in 0 .. m |-> IF n = 0 THEN <<>>
                          ELSE IF n \in gone THEN f[n - 1] ELSE Append(f[n - 1], s[n])]

\* A nonempty set of numbers has a least one.
LEMMA LeastNumber ==
    ASSUME NEW T, T \subseteq Nat, T # {}
    PROVE  \E n \in T : \A m \in T : n <= m
<1>1. \E n \in T : \A m \in T : ~(<<m, n>> \in OpToRel(<, Nat))
  BY NatLessThanWellFounded, WFMin
<1>2. PICK n \in T : \A m \in T : ~(<<m, n>> \in OpToRel(<, Nat))
  BY <1>1
<1>3. ASSUME NEW m \in T PROVE n <= m
  <2>1. m \in Nat /\ n \in Nat
    OBVIOUS
  <2>2. ~ (m < n)
    BY <1>2, <2>1 DEF OpToRel
  <2> QED BY <2>1, <2>2
<1> QED BY <1>3

\* The recursion has a solution.
LEMMA FiltersThere ==
    ASSUME NEW s, NEW gone, NEW m \in Nat
    PROVE  \E f : Filters(s, gone, m, f)
<1> DEFINE T == {n \in Nat : ~ \E f : Filters(s, gone, n, f)}
<1>1. T = {}
  <2> SUFFICES ASSUME T # {} PROVE FALSE
    OBVIOUS
  <2>1. \E n \in T : \A k \in T : n <= k
    <3>1. T \subseteq Nat
      OBVIOUS
    <3> HIDE DEF T
    <3> QED BY <3>1, LeastNumber
  <2>2. PICK n \in T : \A k \in T : n <= k
    BY <2>1
  <2>3. n # 0
    <3>1. Filters(s, gone, 0, [k \in 0 .. 0 |-> <<>>])
      BY DEF Filters
    <3> QED BY <2>2, <3>1
  <2>4. n - 1 \in Nat /\ n - 1 \notin T
    BY <2>2, <2>3
  <2>5. PICK f : Filters(s, gone, n - 1, f)
    BY <2>4
  <2>6. PICK g : g = [k \in 0 .. n |-> IF k = n
                                       THEN IF k \in gone THEN f[k - 1] ELSE Append(f[k - 1], s[k])
                                       ELSE f[k]]
    OBVIOUS
  <2>7. Filters(s, gone, n, g)
    <3>1. \A k \in 0 .. n : k # n => k \in 0 .. (n - 1) /\ g[k] = f[k]
      BY <2>2, <2>4, <2>6
    <3>2. \A k \in 0 .. n : k # 0 => k - 1 \in 0 .. n /\ k - 1 # n
      BY <2>2
    <3>3. \A k \in 0 .. n : g[k] = IF k = 0 THEN <<>>
                                   ELSE IF k \in gone THEN g[k - 1] ELSE Append(g[k - 1], s[k])
      BY <2>3, <2>5, <2>6, <3>1, <3>2 DEF Filters
    <3> QED BY <2>6, <3>3 DEF Filters
  <2> QED BY <2>2, <2>7
<1> QED BY <1>1

\* What is left of a list is of its kind.
LEMMA FilterKeeps ==
    ASSUME NEW T, NEW s \in Seq(T), NEW gone
    PROVE  Without(s, gone) \in Seq(T)
<1>1. Len(s) \in Nat /\ DOMAIN s = 1 .. Len(s)
  OBVIOUS
<1>2. \E f : Filters(s, gone, Len(s), f)
  BY <1>1, FiltersThere
<1>3. PICK f : f = CHOOSE g : Filters(s, gone, Len(s), g)
  OBVIOUS
<1>4. Filters(s, gone, Len(s), f)
  BY <1>2, <1>3
<1>5. Without(s, gone) = f[Len(s)]
  BY <1>3 DEF Without, Filters
<1> DEFINE U == {n \in Nat : n <= Len(s) /\ f[n] \notin Seq(T)}
<1>6. U = {}
  <2> SUFFICES ASSUME U # {} PROVE FALSE
    OBVIOUS
  <2>1. \E n \in U : \A k \in U : n <= k
    <3>1. U \subseteq Nat
      OBVIOUS
    <3> HIDE DEF U
    <3> QED BY <3>1, LeastNumber
  <2>2. PICK n \in U : \A k \in U : n <= k
    BY <2>1
  <2>3. n # 0
    <3>1. f[0] = <<>>
      BY <1>1, <1>4 DEF Filters
    <3>2. <<>> \in Seq(T)
      OBVIOUS
    <3>3. f[n] \notin Seq(T)
      BY <2>2
    <3> QED BY <3>1, <3>2, <3>3
  <2>4. n - 1 \in Nat /\ n - 1 <= Len(s) /\ n \in DOMAIN s /\ n \in 0 .. Len(s)
    BY <1>1, <2>2, <2>3
  <2>5. f[n - 1] \in Seq(T)
    BY <2>2, <2>4
  <2>6. f[n] = IF n \in gone THEN f[n - 1] ELSE Append(f[n - 1], s[n])
    BY <1>4, <2>3, <2>4 DEF Filters
  <2>7. s[n] \in T
    BY <2>4
  <2>8. f[n] \in Seq(T)
    BY <2>5, <2>6, <2>7
  <2> QED BY <2>2, <2>8
<1>7. f[Len(s)] \in Seq(T)
  BY <1>1, <1>6
<1> QED BY <1>5, <1>7

\* No entry is of a dataset; the tickets; what was found before nothing.
LEMMA Kinds ==
    /\ NoDataset \notin Dataset /\ NoEntry \notin Entry /\ NoEntry.of = NoDataset
    /\ Quiet.at = "none" /\ Quiet.polled = FALSE /\ Quiet.found = <<>> /\ Quiet.of = NoDataset
    /\ Polled \subseteq Ticket /\ "quality" \in Ticket /\ "quality" \notin Polled
    /\ \A e \in Entry : e = [of |-> e.of, run |-> e.run] /\ e.of \in Dataset /\ e.run \in Progress
BY EvalPageAssumption DEF NoEntry, Entry, Quiet, Polled, Ticket

\* What is shown is in the list.
LEMMA ShownIs ==
    ASSUME NEW K, NEW s, s.page.list \in Seq(K)
    PROVE  Shown(s) \in K \cup {NoEntry}
<1>1. PICK all : all = s.page.list
  OBVIOUS
<1>2. PICK w : w = Without(all, {i \in DOMAIN all : all[i].of # s.page.chosen})
  OBVIOUS
<1>3. w \in Seq(K) /\ all \in Seq(K)
  BY <1>1, <1>2, FilterKeeps
<1>4. PICK l : l = w \o all
  OBVIOUS
<1>5. l \in Seq(K)
  BY <1>3, <1>4
<1>6. l # <<>> => Head(l) \in K
  BY <1>5
<1>7. Shown(s) = IF l = <<>> THEN NoEntry ELSE Head(l)
  BY <1>1, <1>2, <1>4 DEF Shown
<1> QED BY <1>6, <1>7

\* What is shown is a matter of the list and the choice.
LEMMA ShownSame ==
    ASSUME NEW s, NEW t, t.page.list = s.page.list, t.page.chosen = s.page.chosen
    PROVE  Shown(t) = Shown(s)
BY DEF Shown

\* The pollers stay pollers.
LEMMA PollersStay ==
    ASSUME NEW p, PollerShape(p)
    PROVE  /\ PollerShape(TaskSettled(p)) /\ PollerShape(RunTask([p EXCEPT !.timer = FALSE]))
           /\ PollerShape(NewPoller) /\ PollerShape(Started(NewPoller))
<1>1. PollerShape(NewPoller) /\ PollerShape(Started(NewPoller))
  BY DEF PollerShape, NewPoller, Started, Scheduled
<1>2. PICK q : q = [p EXCEPT !.task = "none"]
  OBVIOUS
<1>3. PollerShape(q)
  BY <1>2 DEF PollerShape
<1>4. \A r : PollerShape(r) => PollerShape(Scheduled(r)) /\ PollerShape(RunTask(r))
  BY DEF PollerShape, Scheduled, RunTask
<1>5. PICK a : a = [q EXCEPT !.again = FALSE]
  OBVIOUS
<1>6. PollerShape(a)
  BY <1>3, <1>5 DEF PollerShape
<1>7. PollerShape(TaskSettled(p))
  BY <1>2, <1>3, <1>4, <1>5, <1>6 DEF TaskSettled
<1>8. PICK b : b = [p EXCEPT !.timer = FALSE]
  OBVIOUS
<1>9. PollerShape(b)
  BY <1>8 DEF PollerShape
<1> QED BY <1>1, <1>4, <1>7, <1>8, <1>9

\* The same is shown, with the same summary and the same details.
Alike(s, t) ==
    /\ t.page.list = s.page.list /\ t.page.chosen = s.page.chosen
    /\ t.page.summary = s.page.summary /\ t.page.modal = s.page.modal

\* The request k becomes r, and the pollers f.
Becomes(s, t, k, r, f) ==
    t = [page |-> [s.page EXCEPT !.poller = f], asked |-> [s.asked EXCEPT ![k] = r]]

\* A state of the page whose requests change, and its pollers.
LEMMA RequestsChange ==
    ASSUME NEW K, NEW s, Ready(s, K), NEW k \in Ticket, NEW r, RequestShape(r, k, K),
           NEW f, f = [j \in Polled |-> f[j]], \A j \in Polled : PollerShape(f[j]),
           NEW t, Becomes(s, t, k, r, f)
    PROVE  /\ Ready(t, K) /\ Alike(s, t) /\ t.asked[k] = r /\ t.page.poller = f
           /\ \A j \in Ticket : j # k => t.asked[j] = s.asked[j]
<1>1. PICK p : p = s.page
  OBVIOUS
<1>2. PICK a : a = s.asked
  OBVIOUS
<1>3. PICK q : q = [p EXCEPT !.poller = f]
  OBVIOUS
<1>4. PICK b : b = [a EXCEPT ![k] = r]
  OBVIOUS
<1>5. PageShape(p, K) /\ a = [j \in Ticket |-> a[j]] /\ \A j \in Ticket : RequestShape(a[j], j, K)
  BY <1>1, <1>2 DEF Ready
<1>6. /\ q = [list |-> p.list, chosen |-> p.chosen, summary |-> p.summary, modal |-> p.modal,
              poller |-> f]
  BY <1>3, <1>5 DEF PageShape
<1>7. PageShape(q, K)
  BY <1>5, <1>6 DEF PageShape
<1>8. /\ b = [j \in Ticket |-> b[j]] /\ b[k] = r /\ \A j \in Ticket : j # k => b[j] = a[j]
  BY <1>4, <1>5
<1>9. \A j \in Ticket : RequestShape(b[j], j, K)
  BY <1>5, <1>8
<1>10. t = [page |-> q, asked |-> b]
  BY <1>1, <1>2, <1>3, <1>4 DEF Becomes
<1>11. t.page = q /\ t.asked = b /\ t = [page |-> t.page, asked |-> t.asked]
  BY <1>10
<1>12. Ready(t, K)
  BY <1>7, <1>8, <1>9, <1>11 DEF Ready
<1>13. Alike(s, t)
  BY <1>1, <1>6, <1>11 DEF Alike
<1> QED BY <1>2, <1>6, <1>8, <1>11, <1>12, <1>13

\* What ends a request leaves the page as it is.
LEMMA OverIs ==
    ASSUME NEW K, NEW s, Ready(s, K), NEW k \in Ticket
    PROVE  LET t == Over(s, k) IN
           /\ Ready(t, K) /\ Alike(s, t) /\ t.asked[k] = Quiet
           /\ \A j \in Ticket : j # k => t.asked[j] = s.asked[j]
<1>1. PICK p : p = s.page
  OBVIOUS
<1>2. PICK a : a = s.asked
  OBVIOUS
<1>3. PICK h : h = p.poller
  OBVIOUS
<1>4. /\ s = [page |-> p, asked |-> a] /\ h = [j \in Polled |-> h[j]]
      /\ \A j \in Polled : PollerShape(h[j])
      /\ p = [list |-> p.list, chosen |-> p.chosen, summary |-> p.summary, modal |-> p.modal,
              poller |-> h]
  BY <1>1, <1>2, <1>3 DEF Ready, PageShape
<1>5. RequestShape(Quiet, k, K)
  BY DEF RequestShape, Quiet
<1>6. PICK b : b = [a EXCEPT ![k] = Quiet]
  OBVIOUS
<1>7. PICK t : t = [s EXCEPT !.asked[k] = Quiet]
  OBVIOUS
<1>8. t = [page |-> p, asked |-> b]
  BY <1>4, <1>6, <1>7
<1>9. PICK f : f = IF a[k].polled THEN [h EXCEPT ![k] = TaskSettled(h[k])] ELSE h
  OBVIOUS
<1>10. f = [j \in Polled |-> f[j]] /\ \A j \in Polled : PollerShape(f[j])
  BY <1>4, <1>9, PollersStay
<1>11. Over(s, k) = [page |-> [p EXCEPT !.poller = f], asked |-> b]
  <2>1. CASE a[k].polled
    <3>1. Over(s, k) = [t EXCEPT !.page.poller[k] = TaskSettled(t.page.poller[k])]
      BY <1>2, <1>7, <2>1 DEF Over
    <3>2. f = [h EXCEPT ![k] = TaskSettled(h[k])]
      BY <1>9, <2>1
    <3>3. t.page = p /\ t.page.poller = h /\ t.asked = b
      BY <1>3, <1>8
    <3> QED BY <1>8, <3>1, <3>2, <3>3
  <2>2. CASE ~a[k].polled
    <3>1. Over(s, k) = t
      BY <1>2, <1>7, <2>2 DEF Over
    <3>2. p = [p EXCEPT !.poller = f]
      BY <1>4, <1>9, <2>2
    <3> QED BY <1>8, <3>1, <3>2
  <2> QED BY <2>1, <2>2
<1>12. PICK u : u = Over(s, k)
  OBVIOUS
<1>13. Becomes(s, u, k, Quiet, f)
  BY <1>1, <1>2, <1>6, <1>11, <1>12 DEF Becomes
<1>14. /\ Ready(u, K) /\ Alike(s, u) /\ u.asked[k] = Quiet
       /\ \A j \in Ticket : j # k => u.asked[j] = s.asked[j]
  BY <1>5, <1>10, <1>13, RequestsChange
<1> QED BY <1>12, <1>14

\* The same request for the summary.
SummaryAsked(s, t) == t.asked["quality"] = s.asked["quality"]

\* So does what begins one.
LEMMA BegunIs ==
    ASSUME NEW K, NEW s, Ready(s, K), NEW k \in Ticket, NEW d, NEW t, t = Begun(s, k, d)
    PROVE  /\ Ready(t, K) /\ Alike(s, t)
           /\ t.asked[k] = [at |-> "asked", of |-> d, found |-> <<>>, polled |-> FALSE]
           /\ k # "quality" => SummaryAsked(s, t)
<1>1. PICK u : u = Over(s, k)
  OBVIOUS
<1>2. /\ Ready(u, K) /\ Alike(s, u) /\ \A j \in Ticket : j # k => u.asked[j] = s.asked[j]
  BY <1>1, OverIs
<1>3. PICK r : r = [at |-> "asked", of |-> d, found |-> <<>>, polled |-> FALSE]
  OBVIOUS
<1>4. RequestShape(r, k, K)
  BY <1>3 DEF RequestShape
<1>5. t = Begun(s, k, d)
  OBVIOUS
<1>6. t = [u EXCEPT !.asked[k] = r]
  <2>1. PICK q : q = Quiet
    OBVIOUS
  <2>2. q = [at |-> "none", of |-> NoDataset, found |-> <<>>, polled |-> FALSE]
    BY <2>1 DEF Quiet
  <2>3. PICK w : w = [q EXCEPT !.at = "asked", !.of = d]
    OBVIOUS
  <2>4. w = [at |-> w.at, of |-> w.of, found |-> w.found, polled |-> w.polled]
    BY <2>2, <2>3
  <2>5. w.at = "asked" /\ w.of = d /\ w.found = <<>> /\ w.polled = FALSE
    BY <2>2, <2>3
  <2>6. w = r
    BY <1>3, <2>4, <2>5
  <2> QED BY <1>1, <1>5, <2>1, <2>3, <2>6 DEF Begun
<1>7. PICK p : p = u.page
  OBVIOUS
<1>8. /\ p.poller = [j \in Polled |-> p.poller[j]] /\ \A j \in Polled : PollerShape(p.poller[j])
      /\ p = [p EXCEPT !.poller = p.poller] /\ u = [page |-> p, asked |-> u.asked]
  BY <1>2, <1>7 DEF Ready, PageShape
<1>9. Becomes(u, t, k, r, p.poller)
  BY <1>6, <1>7, <1>8 DEF Becomes
<1>10. /\ Ready(t, K) /\ Alike(u, t) /\ t.asked[k] = r
       /\ \A j \in Ticket : j # k => t.asked[j] = u.asked[j]
  BY <1>2, <1>4, <1>8, <1>9, RequestsChange
<1>11. Alike(s, t)
  BY <1>2, <1>10 DEF Alike
<1>12. "quality" \in Ticket
  BY Kinds
<1> QED BY <1>2, <1>3, <1>10, <1>11, <1>12 DEF SummaryAsked

\* A poller changes.
LEMMA PollerWritten ==
    ASSUME NEW K, NEW s, Ready(s, K), NEW k \in Polled, NEW x, PollerShape(x),
           NEW t, t = [s EXCEPT !.page.poller[k] = x]
    PROVE  Ready(t, K) /\ Alike(s, t) /\ t.asked = s.asked
<1>1. PICK p : p = s.page
  OBVIOUS
<1>2. PICK a : a = s.asked
  OBVIOUS
<1>3. PICK h : h = p.poller
  OBVIOUS
<1>4. /\ s = [page |-> p, asked |-> a] /\ h = [j \in Polled |-> h[j]] /\ k \in Ticket
      /\ a = [j \in Ticket |-> a[j]] /\ RequestShape(a[k], k, K)
      /\ \A j \in Polled : PollerShape(h[j])
  BY <1>1, <1>2, <1>3, Kinds DEF Ready, PageShape
<1>5. PICK f : f = [h EXCEPT ![k] = x]
  OBVIOUS
<1>6. f = [j \in Polled |-> f[j]] /\ \A j \in Polled : PollerShape(f[j])
  BY <1>4, <1>5
<1>7. a = [a EXCEPT ![k] = a[k]]
  BY <1>4
<1>8. t = [page |-> [p EXCEPT !.poller = f], asked |-> a]
  BY <1>3, <1>4, <1>5
<1>9. Becomes(s, t, k, a[k], f)
  BY <1>1, <1>2, <1>7, <1>8 DEF Becomes
<1>10. Ready(t, K) /\ Alike(s, t)
  BY <1>4, <1>6, <1>9, RequestsChange
<1> QED BY <1>2, <1>8, <1>10

\* A request is polled, or no longer.
Repolled(s, t, k, b) == t = [s EXCEPT !.asked[k].polled = b]

\* That is all that changes.
LEMMA PolledWritten ==
    ASSUME NEW K, NEW s, Ready(s, K), NEW k \in Polled, NEW b \in BOOLEAN,
           NEW t, Repolled(s, t, k, b)
    PROVE  /\ Ready(t, K) /\ Alike(s, t)
           /\ \A j \in Ticket : j # k => t.asked[j] = s.asked[j]
<1>1. PICK p : p = s.page
  OBVIOUS
<1>2. PICK a : a = s.asked
  OBVIOUS
<1>3. PICK h : h = p.poller
  OBVIOUS
<1>4. /\ s = [page |-> p, asked |-> a] /\ h = [j \in Polled |-> h[j]] /\ k \in Ticket
      /\ \A j \in Polled : PollerShape(h[j])
      /\ p = [list |-> p.list, chosen |-> p.chosen, summary |-> p.summary, modal |-> p.modal,
              poller |-> h]
      /\ a = [j \in Ticket |-> a[j]] /\ RequestShape(a[k], k, K)
  BY <1>1, <1>2, <1>3, Kinds DEF Ready, PageShape
<1>5. PICK q : q = a[k]
  OBVIOUS
<1>6. PICK r : r = [q EXCEPT !.polled = b]
  OBVIOUS
<1>7. r = [at |-> q.at, of |-> q.of, found |-> q.found, polled |-> b]
  BY <1>4, <1>5, <1>6 DEF RequestShape
<1>8. RequestShape(r, k, K)
  BY <1>4, <1>5, <1>7, Kinds DEF RequestShape
<1>9. p = [p EXCEPT !.poller = h]
  BY <1>4
<1>10. t = [page |-> p, asked |-> [a EXCEPT ![k] = r]]
  BY <1>4, <1>5, <1>6 DEF Repolled
<1>11. Becomes(s, t, k, r, h)
  BY <1>1, <1>2, <1>9, <1>10 DEF Becomes
<1>12. Ready(t, K) /\ Alike(s, t) /\ \A j \in Ticket : j # k => t.asked[j] = s.asked[j]
  BY <1>4, <1>8, <1>11, RequestsChange
<1> QED BY <1>12

\* An effect of a poller is about its own request only.
LEMMA PollerEffectIs ==
    ASSUME NEW K, NEW s, NEW t, Ready(t, K), NEW k \in Polled
    PROVE  LET u == PollerEffect(s, t, k) IN
           Ready(u, K) /\ Alike(t, u) /\ u.asked["quality"] = t.asked["quality"]
<1>1. k \in Ticket /\ "quality" # k /\ "quality" \in Ticket
  BY Kinds
<1>2. PICK e : e = PollerEffect(s, t, k)
  OBVIOUS
<1>3. CASE Follows(s, k) = Follows(t, k)
  <2>1. e = t
    BY <1>2, <1>3 DEF PollerEffect
  <2> QED BY <1>2, <2>1 DEF Alike
<1>4. CASE Follows(s, k) # Follows(t, k) /\ Follows(t, k)
  <2>1. e = [t EXCEPT !.page.poller[k] = Started(NewPoller)]
    BY <1>2, <1>4 DEF PollerEffect
  <2>2. PollerShape(Started(NewPoller))
    BY DEF PollerShape, NewPoller, Started, Scheduled
  <2>3. Ready(e, K) /\ Alike(t, e) /\ e.asked = t.asked
    BY <2>1, <2>2, PollerWritten
  <2> QED BY <1>2, <2>3
<1>5. CASE Follows(s, k) # Follows(t, k) /\ ~Follows(t, k)
  <2>1. PICK v : v = [t EXCEPT !.page.poller[k] = NewPoller]
    OBVIOUS
  <2>2. PICK u : u = [v EXCEPT !.asked[k].polled = FALSE]
    OBVIOUS
  <2>3. PollerShape(NewPoller)
    BY DEF PollerShape, NewPoller
  <2>4. Ready(v, K) /\ Alike(t, v) /\ v.asked = t.asked
    BY <2>1, <2>3, PollerWritten
  <2>5. Ready(u, K) /\ Alike(v, u) /\ u.asked["quality"] = v.asked["quality"]
    <3>1. PICK b \in BOOLEAN : b = FALSE
      OBVIOUS
    <3>2. Repolled(v, u, k, b)
      BY <2>2, <3>1 DEF Repolled
    <3>3. /\ Ready(u, K) /\ Alike(v, u)
          /\ \A j \in Ticket : j # k => u.asked[j] = v.asked[j]
      BY <2>4, <3>2, PolledWritten
    <3> QED BY <1>1, <3>3
  <2>6. /\ Ready(Over(u, k), K) /\ Alike(u, Over(u, k))
        /\ Over(u, k).asked["quality"] = u.asked["quality"]
    BY <1>1, <2>5, OverIs
  <2>7. u = [t EXCEPT !.page.poller[k] = NewPoller, !.asked[k].polled = FALSE]
    BY <2>1, <2>2
  <2>8. e = IF k = "details" THEN Over(u, k) ELSE u
    BY <1>2, <1>5, <2>7 DEF PollerEffect
  <2>9. Alike(t, u) /\ Alike(t, Over(u, k))
    BY <2>4, <2>5, <2>6 DEF Alike
  <2> QED BY <1>2, <2>4, <2>5, <2>6, <2>8, <2>9
<1> QED BY <1>3, <1>4, <1>5

\* Only what is kept of the page changes, to p.
Rewritten(s, t, p) == t = [page |-> p, asked |-> s.asked]

\* The summary becomes x.
SummaryIs(s, t, x) == t = [s EXCEPT !.page.summary = x]

\* Another summary.
LEMMA SummaryWritten ==
    ASSUME NEW K, NEW s, Ready(s, K), NEW x \in Entry \cup {NoEntry},
           NEW t, SummaryIs(s, t, x)
    PROVE  /\ Ready(t, K) /\ t.asked = s.asked /\ t.page.summary = x
           /\ t.page.list = s.page.list /\ t.page.chosen = s.page.chosen
<1>1. PICK p : p = s.page
  OBVIOUS
<1>2. /\ p = [list |-> p.list, chosen |-> p.chosen, summary |-> p.summary, modal |-> p.modal,
              poller |-> p.poller]
      /\ PageShape(p, K) /\ s = [page |-> p, asked |-> s.asked]
  BY <1>1 DEF Ready, PageShape
<1>3. PICK q : q = [p EXCEPT !.summary = x]
  OBVIOUS
<1>4. /\ q = [list |-> p.list, chosen |-> p.chosen, summary |-> x, modal |-> p.modal,
              poller |-> p.poller]
  BY <1>2, <1>3
<1>5. PageShape(q, K)
  BY <1>2, <1>4 DEF PageShape
<1>6. Rewritten(s, t, q)
  BY <1>1, <1>2, <1>3 DEF Rewritten, SummaryIs
<1>7. Ready(t, K) /\ t.page = q /\ t.asked = s.asked
  BY <1>5, <1>6 DEF Ready, Rewritten
<1> QED BY <1>1, <1>4, <1>7

\* Whether the summary fits is a matter of its request, itself, the list and the
\* choice.
LEMMA SummedSame ==
    ASSUME NEW s, NEW t, Summed(s), t.asked["quality"] = s.asked["quality"],
           t.page.summary = s.page.summary, Shown(t) = Shown(s)
    PROVE  Summed(t)
BY DEF Summed

\* The summary is read again when something else is shown.
LEMMA QualityEffectIs ==
    ASSUME NEW K, NEW s, NEW t, Ready(t, K), Shown(t) = Shown(s) => Summed(t)
    PROVE  Ready(QualityEffect(s, t), K) /\ Summed(QualityEffect(s, t))
<1>1. PICK q : q = QualityEffect(s, t)
  OBVIOUS
<1>2. "quality" \in Ticket
  BY Kinds
<1>3. CASE Shown(t) = Shown(s)
  BY <1>3 DEF QualityEffect
<1>4. CASE Shown(t) # Shown(s) /\ Shown(t) = NoEntry
  <2>1. PICK v : v = Over(t, "quality")
    OBVIOUS
  <2>2. Ready(v, K) /\ v.asked["quality"] = Quiet
    BY <1>2, <2>1, OverIs
  <2>3. q = [v EXCEPT !.page.summary = NoEntry]
    BY <1>1, <1>4, <2>1 DEF QualityEffect
  <2>4. Ready(q, K) /\ q.asked = v.asked /\ q.page.summary = NoEntry
    <3>1. NoEntry \in Entry \cup {NoEntry} /\ SummaryIs(v, q, NoEntry)
      BY <2>3 DEF SummaryIs
    <3> QED BY <2>2, <3>1, SummaryWritten
  <2>5. Summed(q)
    BY <2>2, <2>4, Kinds DEF Summed
  <2> QED BY <1>1, <2>4, <2>5
<1>5. CASE Shown(t) # Shown(s) /\ Shown(t) # NoEntry
  <2>1. q = Begun(t, "quality", Shown(t).of)
    BY <1>1, <1>5 DEF QualityEffect
  <2>2. /\ Ready(q, K) /\ Alike(t, q)
        /\ q.asked["quality"] = [at |-> "asked", of |-> Shown(t).of, found |-> <<>>,
                                 polled |-> FALSE]
    BY <1>2, <2>1, BegunIs
  <2>3. Shown(q) = Shown(t)
    BY <2>2, ShownSame DEF Alike
  <2>4. Summed(q)
    BY <1>5, <2>2, <2>3 DEF Summed
  <2> QED BY <1>1, <2>2, <2>4
<1> QED BY <1>3, <1>4, <1>5

\* What is rendered, and the effects.
LEMMA RendersRight ==
    ASSUME NEW K, NEW t, Ready(t, K), Shown(t) = Shown(Here) => Summed(t), Renders(t)
    PROVE  Ready(Here', K) /\ Summed(Here')
<1>1. PICK q : q = QualityEffect(Here, t)
  OBVIOUS
<1>2. PICK l : l = PollerEffect(Here, q, "datasets")
  OBVIOUS
<1>3. PICK u : u = PollerEffect(Here, l, "details")
  OBVIOUS
<1>4. Ready(q, K) /\ Summed(q)
  BY <1>1, QualityEffectIs
<1>5. "datasets" \in Polled /\ "details" \in Polled
  BY DEF Polled
<1>6. Ready(l, K) /\ Alike(q, l) /\ l.asked["quality"] = q.asked["quality"]
  BY <1>2, <1>4, <1>5, PollerEffectIs
<1>7. Ready(u, K) /\ Alike(l, u) /\ u.asked["quality"] = l.asked["quality"]
  BY <1>3, <1>5, <1>6, PollerEffectIs
<1>8. Shown(l) = Shown(q) /\ Shown(u) = Shown(l)
  BY <1>6, <1>7, ShownSame DEF Alike
<1>9. Summed(l)
  BY <1>4, <1>6, <1>8, SummedSame DEF Alike
<1>10. Summed(u)
  BY <1>7, <1>8, <1>9, SummedSame DEF Alike
<1>11. page' = u.page /\ asked' = u.asked
  BY <1>1, <1>2, <1>3 DEF Renders
<1>12. Here' = u
  BY <1>7, <1>11 DEF Here, Ready
<1> QED BY <1>7, <1>10, <1>12

\* The list, the choice and the details of the page become l, c and m.
PageWith(s, t, l, c, m) ==
    t = [page |-> [list |-> l, chosen |-> c, summary |-> s.page.summary, modal |-> m,
                   poller |-> s.page.poller],
         asked |-> s.asked]

\* Another list, another choice, other details.
LEMMA PageWritten ==
    ASSUME NEW K, NEW s, Ready(s, K), NEW l \in Seq(K), NEW c \in Dataset \cup {NoDataset},
           NEW m, ModalShape(m, K), NEW t, PageWith(s, t, l, c, m)
    PROVE  Ready(t, K)
<1>1. PICK p : p = [list |-> l, chosen |-> c, summary |-> s.page.summary, modal |-> m,
                    poller |-> s.page.poller]
  OBVIOUS
<1>2. PageShape(p, K)
  BY <1>1 DEF Ready, PageShape
<1>3. t = [page |-> p, asked |-> s.asked]
  BY <1>1 DEF PageWith
<1> QED BY <1>1, <1>2, <1>3 DEF Ready

\* What is known stays known.
LEMMA KnownGrows ==
    ASSUME PageInv,
           \A d \in Dataset : evaluated[d] # Absent =>
              evaluated'[d] # Absent /\ evaluated[d] <= evaluated'[d],
           evaluated' \in [Dataset -> Progress \cup {Absent, Deleted}]
    PROVE  Known \subseteq Known'
<1>1. SUFFICES ASSUME NEW e \in Known PROVE e \in Known'
  OBVIOUS
<1>2. /\ e \in Entry /\ e.of \in Dataset /\ e.run \in Progress
      /\ evaluated[e.of] # Absent /\ e.run <= evaluated[e.of]
  BY Kinds DEF Known
<1>3. /\ evaluated'[e.of] # Absent /\ evaluated[e.of] <= evaluated'[e.of]
      /\ evaluated[e.of] \in Int /\ evaluated'[e.of] \in Int /\ e.run \in Int
  BY <1>2, EvalPageAssumption DEF PageInv, Progress, Absent, Deleted
<1>4. e.run <= evaluated'[e.of]
  BY <1>2, <1>3
<1> QED BY <1>2, <1>3, <1>4 DEF Known

\* What is right of fewer entries is right of more.
LEMMA ReadyGrows ==
    ASSUME NEW K, NEW L, K \subseteq L, NEW s, Ready(s, K)
    PROVE  Ready(s, L)
<1>1. Seq(K) \subseteq Seq(L)
  OBVIOUS
<1>2. PageShape(s.page, L)
  BY <1>1 DEF Ready, PageShape, ModalShape
<1>3. \A k \in Ticket : RequestShape(s.asked[k], k, L)
  BY <1>1 DEF Ready, RequestShape
<1> QED BY <1>2, <1>3 DEF Ready

\* Edits, too.
LEMMA EditsGrow ==
    ASSUME NEW K, NEW L, K \subseteq L, NEW c, EditShape(c, K)
    PROVE  EditShape(c, L)
BY DEF EditShape

\* A step that renders the page.
LEMMA Rendering ==
    ASSUME PageInv, NEW t, Ready(t, Known), Shown(t) = Shown(Here) => Summed(t), Renders(t),
           UNCHANGED evaluated, edits' \subseteq edits,
           left' \in [asks : 0 .. MaxAsks, lost : 0 .. MaxLost]
    PROVE  PageInv'
<1>1. Ready(Here', Known) /\ Summed(Here')
  BY RendersRight
<1>2. Known' = Known
  BY DEF Known, Absent
<1>3. Ready(Here, Known)' /\ Summed(Here)'
  BY <1>1, <1>2 DEF Here, Ready, Summed, Shown, PageShape, RequestShape
<1> QED BY <1>2, <1>3 DEF PageInv, EditShape

\* A step that renders the page, and leaves the summary and its request alone.
LEMMA RenderingBesides ==
    ASSUME PageInv, NEW t, Ready(t, Known), t.asked["quality"] = asked["quality"],
           t.page.summary = page.summary, Renders(t),
           UNCHANGED evaluated, edits' \subseteq edits,
           left' \in [asks : 0 .. MaxAsks, lost : 0 .. MaxLost]
    PROVE  PageInv'
<1>1. Shown(t) = Shown(Here) => Summed(t)
  BY SummedSame DEF PageInv, Here
<1> QED BY <1>1, Rendering

\* What the page has, and its requests.
LEMMA HereIs ==
    ASSUME PageInv
    PROVE  /\ Ready(Here, Known) /\ Here.page = page /\ Here.asked = asked
           /\ page.list \in Seq(Known) /\ page.chosen \in Dataset \cup {NoDataset}
           /\ ModalShape(page.modal, Known)
           /\ \A k \in Ticket : RequestShape(asked[k], k, Known)
           /\ \A k \in Ticket : asked[k].at = "served" /\ k # "datasets" =>
                /\ asked[k].found[1] \in Known /\ asked[k].found[1].of = asked[k].of
           /\ Shown(Here) \in Known \cup {NoEntry}
<1>1. /\ Ready(Here, Known) /\ Here.page = page /\ Here.asked = asked
      /\ page.list \in Seq(Known) /\ page.chosen \in Dataset \cup {NoDataset}
      /\ ModalShape(page.modal, Known)
      /\ \A k \in Ticket : RequestShape(asked[k], k, Known)
  BY DEF PageInv, Here, Ready, PageShape
<1>2. ASSUME NEW k \in Ticket, asked[k].at = "served", k # "datasets"
      PROVE  asked[k].found[1] \in Known /\ asked[k].found[1].of = asked[k].of
  <2>1. asked[k].found \in Seq(Known) /\ Len(asked[k].found) = 1
    BY <1>1, <1>2 DEF RequestShape
  <2>2. asked[k].found[1].of = asked[k].of
    BY <1>1, <1>2 DEF RequestShape
  <2>3. asked[k].found[1] \in Known
    BY <2>1
  <2> QED BY <2>2, <2>3
<1> QED BY <1>1, <1>2, ShownIs

\* What a request leaves when it is over.
LEMMA OverHere ==
    ASSUME PageInv, NEW k \in Ticket
    PROVE  LET s == Over(Here, k) IN
           /\ Ready(s, Known) /\ s.page.list = page.list /\ s.page.chosen = page.chosen
           /\ s.page.summary = page.summary /\ s.page.modal = page.modal
           /\ s.asked[k] = Quiet /\ \A j \in Ticket : j # k => s.asked[j] = asked[j]
BY HereIs, OverIs DEF Alike

\* A state of the page is a record of records.
LEMMA StateIs ==
    ASSUME NEW K, NEW s, Ready(s, K)
    PROVE  /\ s = [page |-> s.page, asked |-> s.asked]
           /\ s.page = [list |-> s.page.list, chosen |-> s.page.chosen,
                        summary |-> s.page.summary, modal |-> s.page.modal,
                        poller |-> s.page.poller]
           /\ s.page.list \in Seq(K) /\ s.page.chosen \in Dataset \cup {NoDataset}
           /\ ModalShape(s.page.modal, K)
BY DEF Ready, PageShape

\* An answer for a run is put into the list.
LEMMA MergedIs ==
    ASSUME NEW K, NEW l \in Seq(K), NEW found, found[1] \in K
    PROVE  Merged(l, found) \in Seq(K)
BY DEF Merged

\* A step that renders another list, another choice or other details.
LEMMA PageRendered ==
    ASSUME PageInv, NEW s, Ready(s, Known), s.asked["quality"] = asked["quality"],
           s.page.summary = page.summary, NEW l \in Seq(Known),
           NEW c \in Dataset \cup {NoDataset}, NEW m, ModalShape(m, Known),
           NEW t, PageWith(s, t, l, c, m), Renders(t),
           UNCHANGED evaluated, edits' \subseteq edits,
           left' \in [asks : 0 .. MaxAsks, lost : 0 .. MaxLost]
    PROVE  PageInv'
<1>1. Ready(t, Known)
  BY PageWritten
<1>2. t.asked["quality"] = asked["quality"] /\ t.page.summary = page.summary
  BY DEF PageWith
<1> QED BY <1>1, <1>2, RenderingBesides

\* The list and the choice change.
LEMMA Relisted ==
    ASSUME NEW K, NEW s, Ready(s, K), NEW l, NEW c,
           NEW t, t = [s EXCEPT !.page.list = l, !.page.chosen = c]
    PROVE  PageWith(s, t, l, c, s.page.modal)
<1>1. PICK p : p = s.page
  OBVIOUS
<1>2. PICK q : q = [p EXCEPT !.list = l, !.chosen = c]
  OBVIOUS
<1>3. /\ s = [page |-> p, asked |-> s.asked]
      /\ p = [list |-> p.list, chosen |-> p.chosen, summary |-> p.summary, modal |-> p.modal,
              poller |-> p.poller]
  BY <1>1, StateIs
<1>4. q = [list |-> l, chosen |-> c, summary |-> p.summary, modal |-> p.modal,
           poller |-> p.poller]
  BY <1>2, <1>3
<1>5. t = [page |-> q, asked |-> s.asked]
  BY <1>1, <1>2, <1>3
<1> QED BY <1>1, <1>4, <1>5 DEF PageWith

\* The list arrives.
LEMMA DatasetsArrive == PageInv /\ DatasetsAnswer => PageInv'
<1> SUFFICES ASSUME PageInv, DatasetsAnswer PROVE PageInv'
  OBVIOUS
<1>1. PICK s : s = Over(Here, "datasets")
  OBVIOUS
<1>2. PICK l : l = asked["datasets"].found
  OBVIOUS
<1>3. PICK c : c = IF s.page.chosen = NoDataset /\ l # <<>> THEN l[1].of ELSE s.page.chosen
  OBVIOUS
<1>4. PICK t : t = [s EXCEPT !.page.list = l, !.page.chosen = c]
  OBVIOUS
<1>5. "datasets" \in Ticket /\ "quality" \in Ticket
  BY DEF Ticket
<1>6. /\ Ready(s, Known) /\ s.page.summary = page.summary /\ s.asked["quality"] = asked["quality"]
  BY <1>1, <1>5, OverHere
<1>7. l \in Seq(Known)
  BY <1>2, <1>5, HereIs DEF RequestShape
<1>8. c \in Dataset \cup {NoDataset} /\ ModalShape(s.page.modal, Known)
  <2>1. l # <<>> => l[1] \in Known
    BY <1>7
  <2>2. \A e \in Known : e.of \in Dataset
    BY Kinds DEF Known
  <2> QED BY <1>3, <1>6, <2>1, <2>2, StateIs
<1>9. PageWith(s, t, l, c, s.page.modal)
  BY <1>4, <1>6, Relisted
<1>10. Renders(t) /\ UNCHANGED <<evaluated, edits, left>>
  BY <1>1, <1>2, <1>3, <1>4 DEF DatasetsAnswer
<1>11. edits' \subseteq edits /\ left' \in [asks : 0 .. MaxAsks, lost : 0 .. MaxLost]
  BY <1>10 DEF PageInv
<1> QED BY <1>6, <1>7, <1>8, <1>9, <1>10, <1>11, PageRendered

\* The summary arrives.
LEMMA QualityArrives == PageInv /\ QualityAnswer => PageInv'
<1> SUFFICES ASSUME PageInv, QualityAnswer PROVE PageInv'
  OBVIOUS
<1>1. PICK s : s = Over(Here, "quality")
  OBVIOUS
<1>2. PICK x : x = asked["quality"].found[1]
  OBVIOUS
<1>3. PICK t : t = [s EXCEPT !.page.summary = x]
  OBVIOUS
<1>4. "quality" \in Ticket /\ asked["quality"].at = "served"
  BY DEF Ticket, QualityAnswer
<1>5. /\ Ready(s, Known) /\ s.page.list = page.list /\ s.page.chosen = page.chosen
      /\ s.asked["quality"] = Quiet
  BY <1>1, <1>4, OverHere
<1>6. x \in Known /\ x.of = asked["quality"].of
  BY <1>2, <1>4, HereIs
<1>7. x \in Entry \cup {NoEntry} /\ SummaryIs(s, t, x)
  BY <1>3, <1>6 DEF Known, SummaryIs
<1>8. /\ Ready(t, Known) /\ t.asked = s.asked /\ t.page.summary = x
      /\ t.page.list = s.page.list /\ t.page.chosen = s.page.chosen
  BY <1>5, <1>7, SummaryWritten
<1>9. Shown(t) = Shown(Here)
  BY <1>5, <1>8, HereIs, ShownSame
<1>10. asked["quality"].of = Shown(Here).of /\ x.run >= Shown(Here).run
  BY <1>2, <1>4, HereIs DEF PageInv, Summed
<1>11. Summed(t)
  BY <1>5, <1>6, <1>8, <1>9, <1>10, Kinds DEF Summed
<1>12. Renders(t) /\ UNCHANGED <<evaluated, edits, left>>
  BY <1>1, <1>2, <1>3 DEF QualityAnswer
<1> QED BY <1>8, <1>11, <1>12, Rendering DEF PageInv

\* The details of a run arrive.
LEMMA DetailsArrive == PageInv /\ DetailsAnswer => PageInv'
<1> SUFFICES ASSUME PageInv, DetailsAnswer PROVE PageInv'
  OBVIOUS
<1>1. PICK s : s = Over(Here, "details")
  OBVIOUS
<1>2. PICK f : f = asked["details"].found
  OBVIOUS
<1>3. "details" \in Ticket /\ "quality" \in Ticket /\ asked["details"].at = "served"
  BY DEF Ticket, DetailsAnswer
<1>4. /\ Ready(s, Known) /\ s.page.summary = page.summary /\ s.asked["quality"] = asked["quality"]
  BY <1>1, <1>3, OverHere
<1>5. f[1] \in Known /\ asked["details"].polled \in BOOLEAN
  BY <1>2, <1>3, HereIs DEF RequestShape
<1>6. PICK l : l = Merged(s.page.list, f)
  OBVIOUS
<1>7. l \in Seq(Known) /\ s.page.chosen \in Dataset \cup {NoDataset}
  BY <1>4, <1>5, <1>6, StateIs, MergedIs
<1>8. PICK t : t = [s EXCEPT !.page.modal.run = f[1],
                             !.page.modal.loading = @ /\ asked["details"].polled,
                             !.page.list = Merged(@, f)]
  OBVIOUS
<1>9. PICK d : d = s.page.modal
  OBVIOUS
<1>10. PICK m : m = [d EXCEPT !.run = f[1], !.loading = @ /\ asked["details"].polled]
  OBVIOUS
<1>11. ModalShape(m, Known)
  <2>1. ModalShape(d, Known)
    BY <1>4, <1>9, StateIs
  <2> QED BY <1>5, <1>10, <2>1 DEF ModalShape
<1>12. PageWith(s, t, l, s.page.chosen, m)
  <2>1. PICK p : p = s.page
    OBVIOUS
  <2>2. PICK q : q = [p EXCEPT !.modal = m, !.list = l]
    OBVIOUS
  <2>3. /\ s = [page |-> p, asked |-> s.asked]
        /\ p = [list |-> p.list, chosen |-> p.chosen, summary |-> p.summary, modal |-> p.modal,
                poller |-> p.poller]
    BY <1>4, <2>1, StateIs
  <2>4. q = [list |-> l, chosen |-> p.chosen, summary |-> p.summary, modal |-> m,
             poller |-> p.poller]
    BY <2>2, <2>3
  <2>5. t = [page |-> q, asked |-> s.asked]
    BY <1>6, <1>8, <1>9, <1>10, <2>1, <2>2, <2>3
  <2> QED BY <2>1, <2>4, <2>5 DEF PageWith
<1>13. Renders(t) /\ UNCHANGED <<evaluated, edits, left>>
  BY <1>1, <1>2, <1>8 DEF DetailsAnswer
<1>14. edits' \subseteq edits /\ left' \in [asks : 0 .. MaxAsks, lost : 0 .. MaxLost]
  BY <1>13 DEF PageInv
<1> QED BY <1>4, <1>7, <1>11, <1>12, <1>13, <1>14, PageRendered

\* The answer to a cancellation arrives.
LEMMA CancelArrives == PageInv /\ CancelAnswer => PageInv'
<1> SUFFICES ASSUME PageInv, CancelAnswer PROVE PageInv'
  OBVIOUS
<1>1. PICK r : r = Over(Here, "cancel")
  OBVIOUS
<1>2. PICK s : s = Over(r, "datasets")
  OBVIOUS
<1>3. PICK f : f = asked["cancel"].found
  OBVIOUS
<1>4. /\ {"cancel", "datasets", "quality"} \subseteq Ticket /\ asked["cancel"].at = "served"
  BY DEF Ticket, CancelAnswer
<1>5. /\ Ready(r, Known) /\ r.page.summary = page.summary /\ r.asked["quality"] = asked["quality"]
  BY <1>1, <1>4, OverHere
<1>6. /\ Ready(s, Known) /\ Alike(r, s) /\ s.asked["quality"] = r.asked["quality"]
  BY <1>2, <1>4, <1>5, OverIs
<1>7. s.page.summary = page.summary /\ s.asked["quality"] = asked["quality"]
  BY <1>5, <1>6 DEF Alike
<1>8. f[1] \in Known
  BY <1>3, <1>4, HereIs
<1>9. PICK l : l = Merged(s.page.list, f)
  OBVIOUS
<1>10. l \in Seq(Known) /\ s.page.chosen \in Dataset \cup {NoDataset}
  BY <1>6, <1>8, <1>9, StateIs, MergedIs
<1>11. PICK d : d = s.page.modal
  OBVIOUS
<1>12. PICK e : e = IF d.run.of = f[1].of /\ SameRun(d.run.run, f[1].run) THEN f[1] ELSE d.run
  OBVIOUS
<1>13. PICK m : m = [d EXCEPT !.run = e]
  OBVIOUS
<1>14. ModalShape(m, Known)
  <2>1. ModalShape(d, Known)
    BY <1>6, <1>11, StateIs
  <2>2. e \in Known \cup {NoEntry}
    BY <1>8, <1>12, <2>1 DEF ModalShape
  <2> QED BY <1>13, <2>1, <2>2 DEF ModalShape
<1>15. PICK t : t = [s EXCEPT !.page.list = Merged(@, f),
                  !.page.modal.run = IF @.of = f[1].of /\ SameRun(@.run, f[1].run)
                                     THEN f[1] ELSE @]
  OBVIOUS
<1>16. PageWith(s, t, l, s.page.chosen, m)
  <2>1. PICK p : p = s.page
    OBVIOUS
  <2>2. PICK q : q = [p EXCEPT !.list = l, !.modal = m]
    OBVIOUS
  <2>3. /\ s = [page |-> p, asked |-> s.asked]
        /\ p = [list |-> p.list, chosen |-> p.chosen, summary |-> p.summary, modal |-> p.modal,
                poller |-> p.poller]
    BY <1>6, <2>1, StateIs
  <2>4. q = [list |-> l, chosen |-> p.chosen, summary |-> p.summary, modal |-> m,
             poller |-> p.poller]
    BY <2>2, <2>3
  <2>5. t = [page |-> q, asked |-> s.asked]
    BY <1>9, <1>11, <1>12, <1>13, <1>15, <2>1, <2>2, <2>3
  <2> QED BY <2>1, <2>4, <2>5 DEF PageWith
<1>17. Renders(t) /\ UNCHANGED <<evaluated, edits, left>>
  BY <1>1, <1>2, <1>3, <1>15 DEF CancelAnswer, Invalidated
<1>18. edits' \subseteq edits /\ left' \in [asks : 0 .. MaxAsks, lost : 0 .. MaxLost]
  BY <1>17 DEF PageInv
<1> QED BY <1>6, <1>7, <1>10, <1>14, <1>16, <1>17, <1>18, PageRendered

\* A request fails.
LEMMA FailsRight ==
    ASSUME PageInv, NEW k \in Ticket, Fails(k)
    PROVE  PageInv'
<1>1. PICK s : s = Over(Here, k)
  OBVIOUS
<1>2. "quality" \in Ticket
  BY Kinds
<1>3. /\ Ready(s, Known) /\ s.page.list = page.list /\ s.page.chosen = page.chosen
      /\ s.page.summary = page.summary /\ s.asked[k] = Quiet
      /\ k # "quality" => s.asked["quality"] = asked["quality"]
  BY <1>1, <1>2, OverHere
<1>4. UNCHANGED evaluated /\ edits' \subseteq edits
  BY DEF Fails
<1>5. left' \in [asks : 0 .. MaxAsks, lost : 0 .. MaxLost]
  <2>1. left \in [asks : 0 .. MaxAsks, lost : 0 .. MaxLost]
    BY DEF PageInv
  <2>2. left' = left \/ (left.lost > 0 /\ left' = [left EXCEPT !.lost = @ - 1])
    BY DEF Fails
  <2> QED BY <2>1, <2>2, EvalPageAssumption
<1>6. CASE k = "quality"
  <2>1. PICK t : t = [s EXCEPT !.page.summary = NoEntry]
    OBVIOUS
  <2>2. Renders(t)
    BY <1>1, <1>6, <2>1 DEF Fails
  <2>3. NoEntry \in Entry \cup {NoEntry} /\ SummaryIs(s, t, NoEntry)
    BY <2>1 DEF SummaryIs
  <2>4. Ready(t, Known) /\ t.asked = s.asked /\ t.page.summary = NoEntry
    BY <1>3, <2>3, SummaryWritten
  <2>5. Summed(t)
    BY <1>3, <1>6, <2>4, Kinds DEF Summed
  <2> QED BY <1>4, <1>5, <2>2, <2>4, <2>5, Rendering
<1>7. CASE k = "details" /\ ~asked[k].polled
  <2>1. PICK t : t = [s EXCEPT !.page.modal.open = FALSE, !.page.modal.loading = FALSE]
    OBVIOUS
  <2>2. Renders(t)
    BY <1>1, <1>7, <2>1 DEF Fails
  <2>3. PICK d : d = s.page.modal
    OBVIOUS
  <2>4. PICK m : m = [d EXCEPT !.open = FALSE, !.loading = FALSE]
    OBVIOUS
  <2>5. ModalShape(m, Known) /\ s.page.list \in Seq(Known)
        /\ s.page.chosen \in Dataset \cup {NoDataset}
    <3>1. ModalShape(d, Known)
      BY <1>3, <2>3, StateIs
    <3> QED BY <1>3, <2>4, <3>1, StateIs DEF ModalShape
  <2>6. PageWith(s, t, s.page.list, s.page.chosen, m)
    <3>1. PICK p : p = s.page
      OBVIOUS
    <3>2. PICK q : q = [p EXCEPT !.modal = m]
      OBVIOUS
    <3>3. /\ s = [page |-> p, asked |-> s.asked]
          /\ p = [list |-> p.list, chosen |-> p.chosen, summary |-> p.summary,
                  modal |-> p.modal, poller |-> p.poller]
      BY <1>3, <3>1, StateIs
    <3>4. q = [list |-> p.list, chosen |-> p.chosen, summary |-> p.summary, modal |-> m,
               poller |-> p.poller]
      BY <3>2, <3>3
    <3>5. t = [page |-> q, asked |-> s.asked]
      BY <2>1, <2>3, <2>4, <3>1, <3>2, <3>3
    <3> QED BY <3>1, <3>4, <3>5 DEF PageWith
  <2> QED BY <1>3, <1>4, <1>5, <1>7, <2>2, <2>5, <2>6, PageRendered
<1>8. CASE k # "quality" /\ ~(k = "details" /\ ~asked[k].polled)
  <2>1. Renders(s)
    BY <1>1, <1>8 DEF Fails
  <2> QED BY <1>3, <1>4, <1>5, <1>8, <2>1, RenderingBesides
<1> QED BY <1>6, <1>7, <1>8

\* A poller runs its task again.
LEMMA PollsAgain ==
    ASSUME PageInv, NEW k \in Polled, PollAgain(k)
    PROVE  PageInv'
<1>1. PICK x : x = RunTask([page.poller[k] EXCEPT !.timer = FALSE])
  OBVIOUS
<1>2. PICK s : s = [Here EXCEPT !.page.poller[k] = x]
  OBVIOUS
<1>3. PICK d : d = IF k = "details" THEN page.modal.run.of ELSE NoDataset
  OBVIOUS
<1>4. PICK r : r = Begun(s, k, d)
  OBVIOUS
<1>5. PICK t : t = [r EXCEPT !.asked[k].polled = TRUE]
  OBVIOUS
<1>6. k \in Ticket /\ k # "quality" /\ "quality" \in Ticket
  BY Kinds
<1>7. PollerShape(x)
  <2>1. PollerShape(page.poller[k])
    BY DEF PageInv, Here, Ready, PageShape
  <2> QED BY <1>1, <2>1, PollersStay
<1>8. Ready(s, Known) /\ Alike(Here, s) /\ s.asked = Here.asked
  BY <1>2, <1>7, HereIs, PollerWritten
<1>9. Ready(r, Known) /\ Alike(s, r) /\ r.asked["quality"] = s.asked["quality"]
  <2>1. Ready(s, Known)
    BY <1>8
  <2>2. Ready(r, Known) /\ Alike(s, r) /\ SummaryAsked(s, r)
    BY <1>4, <1>6, <2>1, BegunIs
  <2> QED BY <2>2 DEF SummaryAsked
<1>10. Ready(t, Known) /\ Alike(r, t) /\ t.asked["quality"] = r.asked["quality"]
  <2>1. PICK b \in BOOLEAN : b = TRUE
    OBVIOUS
  <2>2. Repolled(r, t, k, b)
    BY <1>5, <2>1 DEF Repolled
  <2>3. /\ Ready(t, Known) /\ Alike(r, t)
        /\ \A j \in Ticket : j # k => t.asked[j] = r.asked[j]
    BY <1>9, <2>2, PolledWritten
  <2> QED BY <1>6, <2>3
<1>11. t.asked["quality"] = asked["quality"] /\ t.page.summary = page.summary
  BY <1>8, <1>9, <1>10 DEF Alike, Here
<1>12. Renders(t) /\ UNCHANGED <<evaluated, edits, left>>
  BY <1>1, <1>2, <1>3, <1>4, <1>5 DEF PollAgain
<1>13. edits' \subseteq edits /\ left' \in [asks : 0 .. MaxAsks, lost : 0 .. MaxLost]
  BY <1>12 DEF PageInv
<1> QED BY <1>10, <1>11, <1>12, <1>13, RenderingBesides

\* Another dataset is chosen.
LEMMA Chooses ==
    ASSUME PageInv, NEW d \in Dataset, Choose(d)
    PROVE  PageInv'
<1>1. PICK s : s = Here
  OBVIOUS
<1>2. PICK t : t = [s EXCEPT !.page.chosen = d]
  OBVIOUS
<1>3. /\ Ready(s, Known) /\ s.asked["quality"] = asked["quality"] /\ s.page.summary = page.summary
      /\ s.page.list \in Seq(Known) /\ ModalShape(s.page.modal, Known)
  BY <1>1, HereIs
<1>4. PageWith(s, t, s.page.list, d, s.page.modal)
  <2>1. PICK p : p = s.page
    OBVIOUS
  <2>2. PICK q : q = [p EXCEPT !.chosen = d]
    OBVIOUS
  <2>3. /\ s = [page |-> p, asked |-> s.asked]
        /\ p = [list |-> p.list, chosen |-> p.chosen, summary |-> p.summary, modal |-> p.modal,
                poller |-> p.poller]
    BY <1>3, <2>1, StateIs
  <2>4. q = [list |-> p.list, chosen |-> d, summary |-> p.summary, modal |-> p.modal,
             poller |-> p.poller]
    BY <2>2, <2>3
  <2>5. t = [page |-> q, asked |-> s.asked]
    BY <1>2, <2>1, <2>2, <2>3
  <2> QED BY <2>1, <2>4, <2>5 DEF PageWith
<1>5. Renders(t) /\ UNCHANGED <<evaluated, edits, left>>
  BY <1>1, <1>2 DEF Choose
<1>6. edits' \subseteq edits /\ left' \in [asks : 0 .. MaxAsks, lost : 0 .. MaxLost]
  BY <1>5 DEF PageInv
<1>7. d \in Dataset \cup {NoDataset}
  OBVIOUS
<1> QED BY <1>3, <1>4, <1>5, <1>6, <1>7, PageRendered

\* The details become m.
Detailed(s, t, m) == t = [s EXCEPT !.page.modal = m]

\* Nothing else changes.
LEMMA DetailsWritten ==
    ASSUME NEW K, NEW s, Ready(s, K), NEW m, ModalShape(m, K), NEW t, Detailed(s, t, m)
    PROVE  /\ Ready(t, K) /\ t.asked = s.asked /\ t.page.list = s.page.list
           /\ t.page.chosen = s.page.chosen /\ t.page.summary = s.page.summary
           /\ t.page.modal = m
<1>1. PICK p : p = s.page
  OBVIOUS
<1>2. PICK q : q = [p EXCEPT !.modal = m]
  OBVIOUS
<1>3. /\ s = [page |-> p, asked |-> s.asked]
      /\ p = [list |-> p.list, chosen |-> p.chosen, summary |-> p.summary, modal |-> p.modal,
              poller |-> p.poller]
      /\ p.list \in Seq(K) /\ p.chosen \in Dataset \cup {NoDataset}
  BY <1>1, StateIs
<1>4. q = [list |-> p.list, chosen |-> p.chosen, summary |-> p.summary, modal |-> m,
           poller |-> p.poller]
  BY <1>2, <1>3
<1>5. t = [page |-> q, asked |-> s.asked]
  BY <1>1, <1>2, <1>3 DEF Detailed
<1>6. PageWith(s, t, p.list, p.chosen, m)
  BY <1>1, <1>4, <1>5 DEF PageWith
<1>7. Ready(t, K)
  BY <1>3, <1>6, PageWritten
<1> QED BY <1>1, <1>4, <1>5, <1>7

\* The details of a run are opened.
LEMMA DetailsOpen == PageInv /\ ViewDetails => PageInv'
<1> SUFFICES ASSUME PageInv, ViewDetails PROVE PageInv'
  OBVIOUS
<1>1. PICK e : e = Shown(Here)
  OBVIOUS
<1>2. PICK o : o = Over(Here, "details")
  OBVIOUS
<1>3. PICK s : s = [o EXCEPT !.page.modal.open = TRUE, !.page.modal.run = e]
  OBVIOUS
<1>4. PICK v : v = [s EXCEPT !.page.modal.loading = TRUE]
  OBVIOUS
<1>5. PICK w : w = [s EXCEPT !.page.modal.loading = FALSE]
  OBVIOUS
<1>6. /\ Renders(Begun(v, "details", e.of)) \/ Renders(w)
      /\ UNCHANGED <<evaluated, edits, left>>
  BY <1>1, <1>2, <1>3, <1>4, <1>5 DEF ViewDetails
<1>7. edits' \subseteq edits /\ left' \in [asks : 0 .. MaxAsks, lost : 0 .. MaxLost]
  BY <1>6 DEF PageInv
<1>8. "details" \in Ticket /\ "quality" \in Ticket
  BY DEF Ticket
<1>9. /\ Ready(o, Known) /\ o.page.summary = page.summary /\ o.asked["quality"] = asked["quality"]
  BY <1>2, <1>8, OverHere
<1>10. PICK d : d = o.page.modal
  OBVIOUS
<1>11. ModalShape(d, Known) /\ e \in Known \cup {NoEntry}
  BY <1>1, <1>9, <1>10, HereIs, StateIs
<1>12. PICK m : m = [open |-> TRUE, run |-> e, loading |-> TRUE]
  OBVIOUS
<1>13. PICK n : n = [open |-> TRUE, run |-> e, loading |-> FALSE]
  OBVIOUS
<1>14. ModalShape(m, Known) /\ ModalShape(n, Known)
  BY <1>11, <1>12, <1>13 DEF ModalShape
<1>15. Detailed(o, v, m) /\ Detailed(o, w, n)
  <2>1. PICK p : p = o.page
    OBVIOUS
  <2>2. /\ o = [page |-> p, asked |-> o.asked]
        /\ p = [list |-> p.list, chosen |-> p.chosen, summary |-> p.summary, modal |-> d,
                poller |-> p.poller]
        /\ d = [open |-> d.open, run |-> d.run, loading |-> d.loading]
    BY <1>9, <1>10, <1>11, <2>1, StateIs DEF ModalShape
  <2>3. PICK a : a = [d EXCEPT !.open = TRUE, !.run = e]
    OBVIOUS
  <2>4. a = [open |-> TRUE, run |-> e, loading |-> d.loading]
    BY <2>2, <2>3
  <2>5. PICK b : b = [p EXCEPT !.modal = a]
    OBVIOUS
  <2>6. b.modal = a /\ \A x : [b EXCEPT !.modal = x] = [p EXCEPT !.modal = x]
    BY <2>2, <2>5
  <2>7. s = [page |-> b, asked |-> o.asked]
    BY <1>3, <1>10, <2>1, <2>2, <2>3, <2>5
  <2>8. [a EXCEPT !.loading = TRUE] = m /\ [a EXCEPT !.loading = FALSE] = n
    <3>1. PICK x : x = [a EXCEPT !.loading = TRUE]
      OBVIOUS
    <3>2. PICK y : y = [a EXCEPT !.loading = FALSE]
      OBVIOUS
    <3>3. x = [open |-> TRUE, run |-> e, loading |-> TRUE]
      BY <2>4, <3>1
    <3>4. y = [open |-> TRUE, run |-> e, loading |-> FALSE]
      BY <2>4, <3>2
    <3> QED BY <1>12, <1>13, <3>1, <3>2, <3>3, <3>4
  <2>9. /\ v = [page |-> [p EXCEPT !.modal = m], asked |-> o.asked]
        /\ w = [page |-> [p EXCEPT !.modal = n], asked |-> o.asked]
    BY <1>4, <1>5, <2>6, <2>7, <2>8
  <2> QED BY <2>1, <2>2, <2>9 DEF Detailed
<1>16. Ready(v, Known) /\ v.asked = o.asked /\ v.page.summary = o.page.summary
  BY <1>9, <1>14, <1>15, DetailsWritten
<1>17. Ready(w, Known) /\ w.asked = o.asked /\ w.page.summary = o.page.summary
  BY <1>9, <1>14, <1>15, DetailsWritten
<1>18. CASE Renders(w)
  BY <1>6, <1>7, <1>9, <1>17, <1>18, RenderingBesides
<1>19. CASE Renders(Begun(v, "details", e.of))
  <2>1. PICK u : u = Begun(v, "details", e.of)
    OBVIOUS
  <2>2. /\ Ready(u, Known) /\ Alike(v, u)
        /\ SummaryAsked(v, u)
    BY <1>8, <1>16, <2>1, BegunIs
  <2>3. u.asked["quality"] = asked["quality"] /\ u.page.summary = page.summary
    BY <1>8, <1>9, <1>16, <2>2 DEF Alike, SummaryAsked
  <2> QED BY <1>6, <1>7, <1>19, <2>1, <2>2, <2>3, RenderingBesides
<1> QED BY <1>6, <1>18, <1>19

\* They are closed.
LEMMA DetailsClose == PageInv /\ CloseDetails => PageInv'
<1> SUFFICES ASSUME PageInv, CloseDetails PROVE PageInv'
  OBVIOUS
<1>1. PICK s : s = Over(Here, "details")
  OBVIOUS
<1>2. PICK t : t = [s EXCEPT !.page.modal = Closed]
  OBVIOUS
<1>3. Renders(t) /\ UNCHANGED <<evaluated, edits, left>>
  BY <1>1, <1>2 DEF CloseDetails
<1>4. edits' \subseteq edits /\ left' \in [asks : 0 .. MaxAsks, lost : 0 .. MaxLost]
  BY <1>3 DEF PageInv
<1>5. "details" \in Ticket /\ "quality" \in Ticket
  BY DEF Ticket
<1>6. /\ Ready(s, Known) /\ s.page.summary = page.summary /\ s.asked["quality"] = asked["quality"]
  BY <1>1, <1>5, OverHere
<1>7. ModalShape(Closed, Known)
  BY DEF ModalShape, Closed
<1>8. Detailed(s, t, Closed)
  BY <1>2 DEF Detailed
<1>9. Ready(t, Known) /\ t.asked = s.asked /\ t.page.summary = s.page.summary
  BY <1>6, <1>7, <1>8, DetailsWritten
<1> QED BY <1>3, <1>4, <1>6, <1>9, RenderingBesides

\* A run is cancelled.
LEMMA Cancels == PageInv /\ CancelRun => PageInv'
<1> SUFFICES ASSUME PageInv, CancelRun PROVE PageInv'
  OBVIOUS
<1>1. PICK d : d = (IF page.modal.open THEN page.modal.run ELSE Shown(Here)).of
  OBVIOUS
<1>2. PICK s : s = Over(Here, "details")
  OBVIOUS
<1>3. PICK t : t = Begun(s, "cancel", d)
  OBVIOUS
<1>4. /\ Renders(t) /\ UNCHANGED <<evaluated, edits>>
      /\ left.asks > 0 /\ left' = [left EXCEPT !.asks = @ - 1]
  BY <1>1, <1>2, <1>3 DEF CancelRun
<1>5. edits' \subseteq edits /\ left' \in [asks : 0 .. MaxAsks, lost : 0 .. MaxLost]
  BY <1>4, EvalPageAssumption DEF PageInv
<1>6. {"details", "cancel", "quality"} \subseteq Ticket
  BY DEF Ticket
<1>7. /\ Ready(s, Known) /\ s.page.summary = page.summary /\ s.asked["quality"] = asked["quality"]
  BY <1>2, <1>6, OverHere
<1>8. /\ Ready(t, Known) /\ Alike(s, t)
      /\ SummaryAsked(s, t)
  BY <1>3, <1>6, <1>7, BegunIs
<1>9. t.asked["quality"] = asked["quality"] /\ t.page.summary = page.summary
  BY <1>6, <1>7, <1>8 DEF Alike, SummaryAsked
<1> QED BY <1>4, <1>5, <1>8, <1>9, RenderingBesides

\* A change that the server made reaches the page.
LEMMA EditArrives ==
    ASSUME PageInv, NEW c \in edits, EditAnswers(c)
    PROVE  PageInv'
<1>1. PICK s : s = Over(Here, "datasets")
  OBVIOUS
<1>2. UNCHANGED evaluated /\ edits' \subseteq edits /\ c.at = "served"
      /\ left' \in [asks : 0 .. MaxAsks, lost : 0 .. MaxLost]
  BY DEF EditAnswers, PageInv
<1>3. EditShape(c, Known)
  BY DEF PageInv
<1>4. "datasets" \in Ticket /\ "quality" \in Ticket
  BY DEF Ticket
<1>5. /\ Ready(s, Known) /\ s.page.summary = page.summary /\ s.asked["quality"] = asked["quality"]
  BY <1>1, <1>4, OverHere
<1>6. PICK list : list = s.page.list
  OBVIOUS
<1>7. /\ list \in Seq(Known) /\ s.page.chosen \in Dataset \cup {NoDataset}
      /\ ModalShape(s.page.modal, Known)
  BY <1>5, <1>6, StateIs
<1>8. CASE c.kind = "create"
  <2>1. PICK e : e = [of |-> c.of, run |-> 0]
    OBVIOUS
  <2>2. e \in Known /\ c.of \in Dataset \cup {NoDataset}
    BY <1>2, <1>3, <1>8, <2>1 DEF EditShape
  <2>3. PICK l : l = <<e>> \o list
    OBVIOUS
  <2>4. l \in Seq(Known)
    BY <1>7, <2>2, <2>3
  <2>5. PICK t : t = [s EXCEPT !.page.list = l, !.page.chosen = c.of]
    OBVIOUS
  <2>6. PageWith(s, t, l, c.of, s.page.modal)
    BY <1>5, <2>5, Relisted
  <2>7. Renders([s EXCEPT !.page.list = <<[of |-> c.of, run |-> 0]>> \o @,
                          !.page.chosen = c.of])
    BY <1>1, <1>8 DEF EditAnswers, Invalidated
  <2>8. Renders(t)
    BY <1>6, <2>1, <2>3, <2>5, <2>7
  <2> QED BY <1>2, <1>5, <1>7, <2>2, <2>4, <2>6, <2>8, PageRendered
<1>9. CASE c.kind = "delete"
  <2>1. PICK l : l = Without(list, {i \in DOMAIN list : list[i].of = c.of})
    OBVIOUS
  <2>2. PICK d : d = IF s.page.chosen = c.of THEN NoDataset ELSE s.page.chosen
    OBVIOUS
  <2>3. l \in Seq(Known) /\ d \in Dataset \cup {NoDataset}
    BY <1>7, <2>1, <2>2, FilterKeeps
  <2>4. PICK t : t = [s EXCEPT !.page.list = l, !.page.chosen = d]
    OBVIOUS
  <2>5. PageWith(s, t, l, d, s.page.modal)
    BY <1>5, <2>4, Relisted
  <2>6. Renders([s EXCEPT !.page.list = Without(@, {i \in DOMAIN @ : @[i].of = c.of}),
                          !.page.chosen = IF @ = c.of THEN NoDataset ELSE @])
    BY <1>1, <1>9 DEF EditAnswers, Invalidated
  <2>7. Renders(t)
    BY <1>6, <2>1, <2>2, <2>4, <2>6
  <2> QED BY <1>2, <1>5, <1>7, <2>3, <2>5, <2>7, PageRendered
<1>10. CASE c.kind = "run"
  <2>1. PICK e : e = [of |-> c.of, run |-> c.run]
    OBVIOUS
  <2>2. e \in Known
    BY <1>2, <1>3, <1>10, <2>1 DEF EditShape
  <2>3. PICK l : l = [i \in DOMAIN list |-> IF list[i].of = c.of THEN e ELSE list[i]]
    OBVIOUS
  <2>4. l \in Seq(Known)
    BY <1>7, <2>2, <2>3
  <2>5. PICK t : t = [s EXCEPT !.page.list = l]
    OBVIOUS
  <2>6. PICK d : d = s.page.chosen
    OBVIOUS
  <2>7. t = [s EXCEPT !.page.list = l, !.page.chosen = d]
    BY <1>5, <2>5, <2>6, StateIs
  <2>8. PageWith(s, t, l, d, s.page.modal)
    BY <1>5, <2>7, Relisted
  <2>9. Renders([s EXCEPT !.page.list = [i \in DOMAIN @ |->
                   IF @[i].of = c.of THEN [of |-> c.of, run |-> c.run] ELSE @[i]]])
    BY <1>1, <1>10 DEF EditAnswers, Invalidated
  <2>10. Renders(t)
    BY <1>6, <2>1, <2>3, <2>5, <2>9
  <2> QED BY <1>2, <1>5, <1>7, <2>4, <2>6, <2>8, <2>10, PageRendered
<1>11. CASE c.kind = "edit"
  <2>1. Renders(s)
    BY <1>1, <1>11 DEF EditAnswers, Invalidated
  <2> QED BY <1>2, <1>5, <2>1, RenderingBesides
<1> QED BY <1>3, <1>8, <1>9, <1>10, <1>11 DEF EditShape

\* The invariant, of the page and the server after a step.
LEMMA InvAfter ==
    ASSUME NEW h, h = [page |-> page', asked |-> asked'], NEW L, L = Known',
           Ready(h, L), Summed(h), evaluated' \in [Dataset -> Progress \cup {Absent, Deleted}],
           \A c \in edits' : EditShape(c, L),
           left' \in [asks : 0 .. MaxAsks, lost : 0 .. MaxLost]
    PROVE  PageInv'
<1>1. Ready(Here, Known)'
  BY DEF Here, Ready, PageShape, RequestShape
<1>2. Summed(Here)'
  BY DEF Here, Summed, Shown
<1>3. (\A c \in edits : EditShape(c, Known))'
  BY DEF EditShape
<1> QED BY <1>1, <1>2, <1>3 DEF PageInv, Absent, Deleted, Progress

\* Numbers of runs.
LEMMA Runs ==
    /\ Progress \subseteq Int /\ Absent \in Int /\ Deleted \in Int /\ RunsEach \in Nat
    /\ \A n \in Progress : n >= 0 /\ n < Absent /\ n < Deleted
    /\ \A n \in Progress : IsRunning(n) => n + 1 \in Progress
    /\ \A n \in Progress : n < 2 * RunsEach => n + 1 \in Progress
BY EvalPageAssumption DEF Progress, Absent, Deleted, IsRunning

\* What the server tells of its datasets is known.
LEMMA NowKnown ==
    ASSUME PageInv, NEW d \in Exists
    PROVE  NowAt(d) \in Known
<1>1. d \in Dataset /\ evaluated[d] \in Progress
  BY DEF Exists
<1>2. evaluated[d] # Absent /\ evaluated[d] <= evaluated[d]
  <2>1. PICK n \in Progress : n = evaluated[d]
    BY <1>1
  <2>2. n \in Int /\ Absent \in Int /\ n < Absent
    BY Runs
  <2> QED BY <2>1, <2>2
<1>3. PICK e : e = NowAt(d)
  OBVIOUS
<1>4. e \in Entry /\ e.of = d /\ e.run = evaluated[d]
  BY <1>1, <1>3 DEF NowAt, Entry
<1> QED BY <1>2, <1>3, <1>4 DEF Known

\* The server only goes on.
GoesOn ==
    /\ evaluated' \in [Dataset -> Progress \cup {Absent, Deleted}]
    /\ \A d \in Dataset : evaluated[d] # Absent =>
         evaluated'[d] # Absent /\ evaluated[d] <= evaluated'[d]

\* Steps of the server that end a run, or do nothing.
LEMMA ServerGoesOn ==
    ASSUME PageInv, NEW d \in Exists,
           \/ evaluated' = evaluated
           \/ IsRunning(evaluated[d]) /\ evaluated' = [evaluated EXCEPT ![d] = @ + 1]
    PROVE  GoesOn
<1>1. d \in Dataset /\ evaluated[d] \in Progress
  BY DEF Exists
<1>2. evaluated \in [Dataset -> Progress \cup {Absent, Deleted}]
  BY DEF PageInv
<1>3. \A e \in Dataset : evaluated[e] <= evaluated[e]
  <2>1. \A e \in Dataset : evaluated[e] \in Int
    BY <1>2, Runs
  <2> QED BY <2>1
<1>4. CASE evaluated' = evaluated
  BY <1>2, <1>3, <1>4 DEF GoesOn
<1>5. CASE IsRunning(evaluated[d]) /\ evaluated' = [evaluated EXCEPT ![d] = @ + 1]
  <2>1. PICK n : n = evaluated[d] + 1
    OBVIOUS
  <2>2. n \in Progress /\ n # Absent /\ evaluated[d] <= n
    <3>1. PICK m \in Progress : m = evaluated[d]
      BY <1>1
    <3>2. m \in Int /\ m + 1 \in Progress
      BY <1>5, <3>1, Runs
    <3>3. n = m + 1 /\ n \in Progress /\ n \in Int /\ n < Absent /\ Absent \in Int
      BY <2>1, <3>1, <3>2, Runs
    <3> QED BY <3>1, <3>2, <3>3
  <2>3. \A e \in Dataset : evaluated'[e] = IF e = d THEN n ELSE evaluated[e]
    BY <1>2, <1>5, <2>1
  <2>4. evaluated' \in [Dataset -> Progress \cup {Absent, Deleted}]
    BY <1>2, <1>5, <2>1, <2>2
  <2> QED BY <1>3, <2>2, <2>3, <2>4 DEF GoesOn
<1> QED BY <1>4, <1>5

\* What is right of the page before a step of the server is right after it.
LEMMA StaysKnown ==
    ASSUME PageInv, GoesOn, NEW L, L = Known'
    PROVE  Known \subseteq L /\ Ready(Here, L) /\ \A c \in edits : EditShape(c, L)
<1>1. Known \subseteq L
  BY KnownGrows DEF GoesOn
<1> QED BY <1>1, ReadyGrows, EditsGrow DEF PageInv

\* A run ends.
LEMMA RunsEndRight ==
    ASSUME PageInv, NEW d \in Dataset, RunEnds(d)
    PROVE  PageInv'
<1>1. GoesOn
  BY ServerGoesOn DEF RunEnds
<1>2. PICK L : L = Known'
  OBVIOUS
<1>3. Ready(Here, L) /\ \A c \in edits : EditShape(c, L)
  BY <1>1, <1>2, StaysKnown
<1>4. UNCHANGED <<page, asked, edits, left>> /\ Here = [page |-> page', asked |-> asked']
  BY DEF RunEnds, Here
<1>5. Summed(Here) /\ left' \in [asks : 0 .. MaxAsks, lost : 0 .. MaxLost]
  BY <1>4 DEF PageInv
<1> QED BY <1>1, <1>2, <1>3, <1>4, <1>5, InvAfter DEF GoesOn


\* The request k is answered with f.
Answers(k, f) == asked' = [asked EXCEPT ![k].at = "served", ![k].found = f]

\* The server answers a request with what it knows.
LEMMA ServedRight ==
    ASSUME PageInv, GoesOn, NEW k \in Ticket, asked[k].at = "asked",
           NEW L, L = Known', NEW f \in Seq(L), Answers(k, f),
           k # "datasets" => Len(f) = 1 /\ f[1].of = asked[k].of,
           k = "quality" => f[1].run >= Shown(Here).run,
           UNCHANGED <<page, edits, left>>
    PROVE  PageInv'
<1>1. Ready(Here, L) /\ \A c \in edits : EditShape(c, L)
  BY StaysKnown
<1>2. PICK q : q = asked[k]
  OBVIOUS
<1>3. RequestShape(q, k, L)
  BY <1>1, <1>2 DEF Ready, Here
<1>4. PICK r : r = [at |-> "served", of |-> q.of, found |-> f, polled |-> q.polled]
  OBVIOUS
<1>5. RequestShape(r, k, L)
  BY <1>2, <1>3, <1>4 DEF RequestShape
<1>6. asked = [j \in Ticket |-> asked[j]]
  BY <1>1 DEF Ready, Here
<1>7. asked' = [asked EXCEPT ![k] = r]
  <2>1. PICK x : x = [q EXCEPT !.at = "served", !.found = f]
    OBVIOUS
  <2>2. x = r
    <3>1. q = [at |-> q.at, of |-> q.of, found |-> q.found, polled |-> q.polled]
      BY <1>3 DEF RequestShape
    <3>2. x = [at |-> "served", of |-> q.of, found |-> f, polled |-> q.polled]
      BY <2>1, <3>1
    <3> QED BY <1>4, <3>2
  <2>3. asked' = [asked EXCEPT ![k] = x]
    BY <1>2, <1>6, <2>1 DEF Answers
  <2> QED BY <2>2, <2>3
<1>8. PICK g : g = page.poller
  OBVIOUS
<1>9. g = [j \in Polled |-> g[j]] /\ \A j \in Polled : PollerShape(g[j])
  BY <1>1, <1>8 DEF Ready, PageShape, Here
<1>10. PICK p : p = [page EXCEPT !.poller = g]
  OBVIOUS
<1>11. p = page
  BY <1>1, <1>8, <1>10 DEF Ready, PageShape, Here
<1>12. PICK t : t = [page |-> page', asked |-> asked']
  OBVIOUS
<1>13. Becomes(Here, t, k, r, g)
  BY <1>7, <1>10, <1>11, <1>12 DEF Becomes, Here
<1>14. /\ Ready(t, L) /\ Alike(Here, t) /\ t.asked[k] = r
       /\ \A j \in Ticket : j # k => t.asked[j] = Here.asked[j]
  BY <1>1, <1>5, <1>9, <1>13, RequestsChange
<1>15. Shown(t) = Shown(Here)
  BY <1>14, ShownSame DEF Alike
<1>16. Summed(Here) /\ left \in [asks : 0 .. MaxAsks, lost : 0 .. MaxLost]
  BY DEF PageInv
<1>17. Summed(t)
  <2>1. CASE k = "quality"
    <3>1. Shown(Here) # NoEntry /\ q.of = Shown(Here).of
      BY <1>2, <1>16, <2>1 DEF Summed, Here
    <3> QED BY <1>4, <1>14, <1>15, <2>1, <3>1 DEF Summed
  <2>2. CASE k # "quality"
    <3>1. t.asked["quality"] = Here.asked["quality"]
      BY <1>14, <2>2, Kinds
    <3>2. t.page.summary = Here.page.summary
      BY <1>14 DEF Alike
    <3> QED BY <1>15, <1>16, <3>1, <3>2, SummedSame
  <2> QED BY <2>1, <2>2
<1>18. \A c \in edits' : EditShape(c, L)
  BY <1>1
<1>19. left' \in [asks : 0 .. MaxAsks, lost : 0 .. MaxLost]
  BY <1>16
<1> QED BY <1>12, <1>14, <1>17, <1>18, <1>19, InvAfter DEF GoesOn

\* The server reads for a request.
LEMMA Serves ==
    ASSUME PageInv, NEW k \in Ticket, Serve(k)
    PROVE  PageInv'
<1>1. asked[k].at = "asked" /\ UNCHANGED <<page, edits, left>>
  BY DEF Serve
<1>2. PICK L : L = Known'
  OBVIOUS
<1>3. CASE k = "datasets"
  <2>1. UNCHANGED evaluated
    BY <1>3 DEF Serve
  <2>2. PICK list \in Lists : Answers(k, [i \in DOMAIN list |-> NowAt(list[i])])
    BY <1>3 DEF Serve, Answers
  <2>3. GoesOn
    <3>1. evaluated \in [Dataset -> Progress \cup {Absent, Deleted}]
      BY DEF PageInv
    <3>2. \A d \in Dataset : evaluated[d] \in Int
      BY <3>1, Runs
    <3> QED BY <2>1, <3>1, <3>2 DEF GoesOn
  <2>4. PICK f : f = [i \in DOMAIN list |-> NowAt(list[i])]
    OBVIOUS
  <2>5. Known \subseteq L
    BY <1>2, <2>3, StaysKnown
  <2>6. f \in Seq(L)
    <3>1. Cardinality(Exists) \in Nat
      BY EvalPageAssumption, FS_Subset, FS_CardinalityType DEF Exists
    <3>2. DOMAIN list = 1 .. Cardinality(Exists) /\ \A i \in DOMAIN list : list[i] \in Exists
      BY DEF Lists
    <3>3. \A i \in DOMAIN list : NowAt(list[i]) \in L
      BY <2>5, <3>2, NowKnown
    <3> QED BY <2>4, <3>1, <3>2, <3>3
  <2> QED BY <1>1, <1>2, <1>3, <2>2, <2>3, <2>4, <2>6, ServedRight
<1>4. CASE k # "datasets"
  <2>1. PICK d : d = asked[k].of
    OBVIOUS
  <2>2. /\ d \in Exists
        /\ k = "cancel" => IsRunning(evaluated[d])
        /\ evaluated' = IF k = "cancel" THEN [evaluated EXCEPT ![d] = @ + 1] ELSE evaluated
    BY <1>4, <2>1 DEF Serve
  <2>3. PICK f : f = <<[of |-> d, run |-> evaluated'[d]]>>
    OBVIOUS
  <2>4. Answers(k, f)
    BY <1>4, <2>1, <2>3 DEF Serve, Answers
  <2>5. GoesOn
    BY <2>2, ServerGoesOn
  <2>6. d \in Dataset /\ evaluated'[d] \in Progress /\ evaluated'[d] # Absent
    <3>1. d \in Dataset /\ evaluated[d] \in Progress
      BY <2>2 DEF Exists
    <3>2. PICK n \in Progress : n = evaluated[d]
      BY <3>1
    <3>3. evaluated \in [Dataset -> Progress \cup {Absent, Deleted}]
      BY DEF PageInv
    <3>4. CASE k = "cancel"
      <4>1. evaluated'[d] = n + 1
        BY <2>2, <3>1, <3>2, <3>3, <3>4
      <4>2. n + 1 \in Progress
        BY <2>2, <3>2, <3>4, Runs
      <4>3. PICK m \in Progress : m = n + 1
        BY <4>2
      <4>4. m # Absent
        BY Runs
      <4> QED BY <3>1, <4>1, <4>3, <4>4
    <3>5. CASE k # "cancel"
      <4>1. n # Absent
        BY Runs
      <4> QED BY <2>2, <3>1, <3>2, <3>5, <4>1
    <3> QED BY <3>4, <3>5
  <2>7. PICK e : e = [of |-> d, run |-> evaluated'[d]]
    OBVIOUS
  <2>8. e \in L
    <3>1. e \in Entry /\ e.of = d /\ e.run = evaluated'[d]
      BY <2>6, <2>7 DEF Entry
    <3>2. PICK n \in Progress : n = evaluated'[d]
      BY <2>6
    <3>3. e.run <= evaluated'[e.of]
      BY <3>1, <3>2, Runs
    <3> QED BY <1>2, <2>6, <3>1, <3>3 DEF Known, Entry, Progress, Absent
  <2>9. f \in Seq(L) /\ Len(f) = 1 /\ f[1].of = d
    BY <2>3, <2>7, <2>8
  <2>10. k = "quality" => f[1].run >= Shown(Here).run
    <3> SUFFICES ASSUME k = "quality" PROVE f[1].run >= Shown(Here).run
      OBVIOUS
    <3>1. PICK h : h = Shown(Here)
      OBVIOUS
    <3>2. h # NoEntry /\ d = h.of
      BY <1>1, <2>1, <3>1 DEF PageInv, Summed, Here
    <3>3. h \in Known
      BY <3>1, <3>2, HereIs
    <3>4. h.run <= evaluated[d] /\ evaluated' = evaluated
      BY <2>2, <3>2, <3>3 DEF Known
    <3>5. PICK n \in Progress : n = evaluated'[d]
      BY <2>6
    <3>6. PICK m \in Progress : m = h.run
      BY <3>3, Kinds DEF Known
    <3>7. f[1].run = n /\ m <= n /\ m \in Int /\ n \in Int
      BY <2>3, <3>4, <3>5, <3>6, Runs
    <3> QED BY <3>1, <3>6, <3>7
  <2> QED BY <1>1, <1>2, <1>4, <2>1, <2>4, <2>5, <2>9, <2>10, ServedRight
<1> QED BY <1>3, <1>4


\* A server that does nothing.
LEMMA SameGoesOn ==
    ASSUME PageInv, UNCHANGED evaluated
    PROVE  GoesOn
<1>1. evaluated \in [Dataset -> Progress \cup {Absent, Deleted}]
  BY DEF PageInv
<1>2. \A d \in Dataset : evaluated[d] \in Int
  BY <1>1, Runs
<1> QED BY <1>1, <1>2 DEF GoesOn

\* Steps that change what the page waits for, and nothing that it shows.
LEMMA EditsChange ==
    ASSUME PageInv, GoesOn, UNCHANGED <<page, asked>>, NEW L, L = Known',
           \A c \in edits' : c \in edits \/ EditShape(c, L),
           left' \in [asks : 0 .. MaxAsks, lost : 0 .. MaxLost]
    PROVE  PageInv'
<1>1. Ready(Here, L) /\ \A c \in edits : EditShape(c, L)
  BY StaysKnown
<1>2. Here = [page |-> page', asked |-> asked'] /\ Summed(Here)
  BY DEF Here, PageInv
<1>3. \A c \in edits' : EditShape(c, L)
  BY <1>1
<1> QED BY <1>1, <1>2, <1>3, InvAfter DEF GoesOn

\* The user asks for a change.
LEMMA UserAsks ==
    ASSUME PageInv, NEW d \in Dataset, NEW kind \in {"create", "edit", "delete", "run"},
           Ask(kind, d)
    PROVE  PageInv'
<1>1. PICK L : L = Known'
  OBVIOUS
<1>2. PICK e : e = [kind |-> kind, of |-> d, at |-> "asked", run |-> 0]
  OBVIOUS
<1>3. EditShape(e, L)
  <2>1. 0 \in Progress
    BY EvalPageAssumption DEF Progress
  <2> QED BY <1>2, <2>1 DEF EditShape
<1>4. edits' = edits \cup {e} /\ UNCHANGED <<evaluated, page, asked>>
  BY <1>2 DEF Ask
<1>5. left' \in [asks : 0 .. MaxAsks, lost : 0 .. MaxLost]
  BY EvalPageAssumption DEF Ask, PageInv
<1> QED BY <1>1, <1>3, <1>4, <1>5, SameGoesOn, EditsChange

\* A change fails.
LEMMA EditsFail ==
    ASSUME PageInv, NEW c \in edits, EditFails(c)
    PROVE  PageInv'
<1>1. edits' \subseteq edits /\ UNCHANGED <<evaluated, page, asked, left>>
  BY DEF EditFails
<1>2. left' \in [asks : 0 .. MaxAsks, lost : 0 .. MaxLost]
  BY <1>1 DEF PageInv
<1> QED BY <1>1, <1>2, SameGoesOn, EditsChange

\* What a change makes of the progress n of its dataset.
Made(c, n) ==
    CASE c.kind = "create" -> 0
      [] c.kind = "delete" -> Deleted
      [] c.kind = "run" /\ ~IsRunning(n) -> n + 1
      [] OTHER -> n

\* It goes on by that.
LEMMA MadeIs ==
    ASSUME PageInv, NEW c \in edits, Change(c), NEW n, n = Made(c, evaluated[c.of])
    PROVE  /\ n \in Progress \cup {Deleted} /\ n # Absent
           /\ evaluated[c.of] # Absent => evaluated[c.of] <= n
           /\ c.kind = "create" => n = 0
           /\ c.kind = "run" => n \in Progress
<1>1. c.of \in Dataset /\ c.kind \in {"create", "edit", "delete", "run"}
  BY DEF PageInv, EditShape
<1>2. CASE c.kind = "create"
  <2>1. evaluated[c.of] = Absent /\ n = 0
    BY <1>2 DEF Change, Made
  <2>2. 0 \in Progress
    BY EvalPageAssumption DEF Progress
  <2> QED BY <1>2, <2>1, <2>2, Runs
<1>3. CASE c.kind # "create"
  <2>1. c.of \in Exists
    BY <1>3 DEF Change
  <2>2. PICK m \in Progress : m = evaluated[c.of]
    BY <2>1 DEF Exists
  <2>3. m \in Int /\ m < Absent /\ m < Deleted /\ m # Absent /\ Deleted \in Int /\ Absent \in Int
    BY Runs
  <2>4. Deleted # Absent
    BY EvalPageAssumption DEF Deleted, Absent
  <2>5. CASE c.kind = "delete"
    <3>1. n = Deleted
      BY <2>5 DEF Made
    <3> QED BY <2>2, <2>3, <2>4, <2>5, <3>1
  <2>6. CASE c.kind = "run" /\ ~IsRunning(m)
    <3>1. n = m + 1
      BY <2>2, <2>6 DEF Made
    <3>2. m < 2 * RunsEach
      BY <2>2, <2>6 DEF Change
    <3>3. m + 1 \in Progress
      BY <3>2, Runs
    <3>4. n \in Progress /\ n # Absent
      BY <3>1, <3>3, Runs
    <3> QED BY <2>2, <2>3, <2>6, <3>1, <3>4
  <2>7. CASE c.kind = "edit" \/ (c.kind = "run" /\ IsRunning(m))
    <3>1. n = m
      BY <2>2, <2>7 DEF Made
    <3> QED BY <2>2, <2>3, <2>7, <3>1
  <2> QED BY <1>1, <1>3, <2>5, <2>6, <2>7
<1> QED BY <1>2, <1>3

\* The server makes a change.
LEMMA Changes ==
    ASSUME PageInv, NEW c \in edits, Change(c)
    PROVE  PageInv'
<1>1. PICK n : n = Made(c, evaluated[c.of])
  OBVIOUS
<1>2. /\ n \in Progress \cup {Deleted} /\ n # Absent
      /\ evaluated[c.of] # Absent => evaluated[c.of] <= n
      /\ c.kind = "create" => n = 0
      /\ c.kind = "run" => n \in Progress
  BY <1>1, MadeIs
<1>3. EditShape(c, Known) /\ evaluated \in [Dataset -> Progress \cup {Absent, Deleted}]
  BY DEF PageInv
<1>4. PICK d \in Dataset : d = c.of
  BY <1>3 DEF EditShape
<1>5. evaluated' = [evaluated EXCEPT ![d] = n]
  BY <1>1, <1>4 DEF Change, Made
<1>6. GoesOn
  <2>1. \A e \in Dataset : evaluated'[e] = IF e = d THEN n ELSE evaluated[e]
    BY <1>3, <1>5
  <2>2. \A e \in Dataset : evaluated[e] \in Int
    BY <1>3, Runs
  <2>3. evaluated' \in [Dataset -> Progress \cup {Absent, Deleted}]
    BY <1>2, <1>3, <1>5
  <2> QED BY <1>2, <1>4, <2>1, <2>2, <2>3 DEF GoesOn
<1>7. PICK L : L = Known'
  OBVIOUS
<1>8. PICK r : r = IF c.kind = "run" THEN evaluated'[c.of] ELSE 0
  OBVIOUS
<1>9. evaluated'[d] = n
  BY <1>3, <1>5
<1>10. r \in Progress /\ c.kind = "run" => r = n
  BY <1>2, <1>4, <1>8, <1>9, EvalPageAssumption DEF Progress
<1>11. PICK e : e = [c EXCEPT !.at = "served", !.run = r]
  OBVIOUS
<1>12. e = [kind |-> c.kind, of |-> c.of, at |-> "served", run |-> r]
  BY <1>3, <1>11 DEF EditShape
<1>13. n \in Progress => [of |-> d, run |-> n] \in L
  <2> SUFFICES ASSUME n \in Progress PROVE [of |-> d, run |-> n] \in L
    OBVIOUS
  <2>1. PICK x : x = [of |-> d, run |-> n]
    OBVIOUS
  <2>2. x \in Entry /\ x.of = d /\ x.run = n
    BY <2>1 DEF Entry
  <2>3. x.run <= evaluated'[x.of] /\ evaluated'[x.of] # Absent
    BY <1>2, <1>9, <2>2, Runs
  <2> QED BY <1>7, <2>1, <2>2, <2>3 DEF Known, Entry, Progress, Absent
<1>14. EditShape(e, L)
  <2>1. r \in Progress
    BY <1>2, <1>4, <1>8, <1>9, EvalPageAssumption DEF Progress
  <2>2. c.kind = "create" => [of |-> c.of, run |-> 0] \in L
    BY <1>2, <1>4, <1>13, <2>1, EvalPageAssumption DEF Progress
  <2>3. c.kind = "run" => [of |-> c.of, run |-> r] \in L
    BY <1>2, <1>4, <1>8, <1>9, <1>13
  <2> QED BY <1>3, <1>12, <2>1, <2>2, <2>3 DEF EditShape
<1>15. edits' = (edits \ {c}) \cup {e}
  BY <1>8, <1>11 DEF Change
<1>16. UNCHANGED <<page, asked, left>>
  BY DEF Change
<1>17. left' \in [asks : 0 .. MaxAsks, lost : 0 .. MaxLost]
  BY <1>16 DEF PageInv
<1> QED BY <1>6, <1>7, <1>14, <1>15, <1>16, <1>17, EditsChange

\* The request of a page that is opened.
FirstAsk == [at |-> "asked", of |-> NoDataset, found |-> <<>>, polled |-> FALSE]

\* A page that was just opened.
LEMMA Opened ==
    ASSUME NEW K, NEW a, a = [k \in Ticket |-> a[k]],
           \A k \in Ticket : a[k] = Quiet \/ (k = "datasets" /\ a[k] = FirstAsk),
           NEW s, s = [page |-> NewPage, asked |-> a]
    PROVE  Ready(s, K) /\ Summed(s)
<1>1. \A k \in Ticket : RequestShape(a[k], k, K)
  <2> SUFFICES ASSUME NEW k \in Ticket PROVE RequestShape(a[k], k, K)
    OBVIOUS
  <2>1. <<>> \in Seq(K)
    OBVIOUS
  <2>2. RequestShape(Quiet, k, K)
    BY <2>1 DEF RequestShape, Quiet
  <2>3. RequestShape(FirstAsk, "datasets", K)
    BY <2>1 DEF RequestShape, FirstAsk
  <2> QED BY <2>2, <2>3
<1>2. PageShape(NewPage, K)
  <2>1. <<>> \in Seq(K)
    OBVIOUS
  <2>2. PollerShape(NewPoller)
    BY DEF PollerShape, NewPoller
  <2>3. ModalShape(Closed, K)
    BY DEF ModalShape, Closed
  <2> QED BY <2>1, <2>2, <2>3 DEF PageShape, NewPage
<1>3. Ready(s, K)
  BY <1>1, <1>2 DEF Ready
<1>4. s.asked["quality"].at = "none" /\ s.page.summary = NoEntry
  BY Kinds DEF NewPage
<1> QED BY <1>3, <1>4 DEF Summed

\* The page is opened.
LEMMA Opens == PageInv /\ OpenPage => PageInv'
<1> SUFFICES ASSUME PageInv, OpenPage PROVE PageInv'
  OBVIOUS
<1>1. PICK L : L = Known'
  OBVIOUS
<1>2. PICK s : s = [page |-> page', asked |-> asked']
  OBVIOUS
<1>3. Ready(s, L) /\ Summed(s)
  <2>1. PICK a : a = asked'
    OBVIOUS
  <2>2. a = [k \in Ticket |-> IF k = "datasets" THEN FirstAsk ELSE Quiet]
    <3>1. PICK q : q = [Quiet EXCEPT !.at = "asked"]
      OBVIOUS
    <3>2. q = FirstAsk
      BY <3>1 DEF Quiet, FirstAsk
    <3>3. a = [k \in Ticket |-> IF k = "datasets" THEN q ELSE Quiet]
      BY <2>1, <3>1 DEF OpenPage
    <3> QED BY <3>2, <3>3
  <2>3. s = [page |-> NewPage, asked |-> a]
    BY <1>2, <2>1 DEF OpenPage
  <2>4. a = [k \in Ticket |-> a[k]]
    BY <2>2
  <2>5. \A k \in Ticket : a[k] = Quiet \/ (k = "datasets" /\ a[k] = FirstAsk)
    BY <2>2
  <2> QED BY <2>3, <2>4, <2>5, Opened
<1>4. GoesOn /\ \A c \in edits : EditShape(c, L)
  BY <1>1, SameGoesOn, StaysKnown DEF OpenPage
<1>5. edits' = edits /\ left' \in [asks : 0 .. MaxAsks, lost : 0 .. MaxLost]
  BY EvalPageAssumption DEF OpenPage, PageInv
<1> QED BY <1>1, <1>2, <1>3, <1>4, <1>5, InvAfter DEF GoesOn

\* The page is right before it was ever opened.
LEMMA PageBegins == PageInit => PageInv
<1> SUFFICES ASSUME PageInit PROVE PageInv
  OBVIOUS
<1>1. evaluated \in [Dataset -> Progress \cup {Absent, Deleted}]
  <2>1. evaluated \in [Dataset -> {0, 1, Absent}]
    BY DEF PageInit
  <2>2. 0 \in Progress /\ (1 \in Progress \/ 1 = Absent)
    BY EvalPageAssumption DEF Progress, Absent
  <2> QED BY <2>1, <2>2
<1>2. Ready(Here, Known) /\ Summed(Here)
  <2>1. PICK a : a = asked
    OBVIOUS
  <2>2. PICK s : s = [page |-> NewPage, asked |-> a]
    OBVIOUS
  <2>3. s = Here
    BY <2>1, <2>2 DEF PageInit, Here
  <2>4. a = [k \in Ticket |-> a[k]] /\ \A k \in Ticket : a[k] = Quiet
    BY <2>1 DEF PageInit
  <2>5. Ready(s, Known) /\ Summed(s)
    BY <2>2, <2>4, Opened
  <2> QED BY <2>3, <2>5
<1>3. edits = {} /\ left \in [asks : 0 .. MaxAsks, lost : 0 .. MaxLost]
  BY EvalPageAssumption DEF PageInit
<1> QED BY <1>1, <1>2, <1>3 DEF PageInv

\* Every step keeps it right.
LEMMA PageSteps == PageInv /\ [PageNext]_pageVars => PageInv'
<1> SUFFICES ASSUME PageInv, [PageNext]_pageVars PROVE PageInv'
  OBVIOUS
<1>1. CASE UNCHANGED pageVars
  <2>1. UNCHANGED <<evaluated, page, asked, edits, left>>
    BY <1>1 DEF pageVars
  <2>2. left' \in [asks : 0 .. MaxAsks, lost : 0 .. MaxLost]
    BY <2>1 DEF PageInv
  <2> QED BY <2>1, <2>2, SameGoesOn, EditsChange
<1>2. CASE Answered
  BY <1>2, DatasetsArrive, QualityArrives, DetailsArrive, CancelArrives DEF Answered
<1>3. ASSUME NEW k \in Ticket, Serve(k) \/ Fails(k) PROVE PageInv'
  BY <1>3, Serves, FailsRight
<1>4. ASSUME NEW k \in Polled, PollAgain(k) PROVE PageInv'
  BY <1>4, PollsAgain
<1>5. ASSUME NEW d \in Dataset, Choose(d) \/ RunEnds(d) PROVE PageInv'
  BY <1>5, Chooses, RunsEndRight
<1>6. ASSUME NEW d \in Dataset, NEW kind \in {"create", "edit", "delete", "run"}, Ask(kind, d)
      PROVE  PageInv'
  BY <1>6, UserAsks
<1>7. ASSUME NEW c \in edits, Change(c) \/ EditAnswers(c) \/ EditFails(c) PROVE PageInv'
  BY <1>7, Changes, EditArrives, EditsFail
<1>8. CASE ViewDetails \/ CloseDetails \/ CancelRun \/ OpenPage
  BY <1>8, DetailsOpen, DetailsClose, Cancels, Opens
<1> QED BY <1>1, <1>2, <1>3, <1>4, <1>5, <1>6, <1>7, <1>8 DEF PageNext

\* What is right of the page is what the property says of it.
LEMMA PageFits == PageInv => SummaryFits
<1> SUFFICES ASSUME PageInv PROVE SummaryFits
  OBVIOUS
<1>1. Known \subseteq Entry
  BY DEF Known
<1>2. PageTypeOK
  <2>1. /\ Ready(Here, Known) /\ Here.page = page /\ Here.asked = asked
        /\ page.list \in Seq(Known) /\ page.chosen \in Dataset \cup {NoDataset}
        /\ ModalShape(page.modal, Known)
        /\ \A k \in Ticket : RequestShape(asked[k], k, Known)
    BY HereIs
  <2>2. PageShape(page, Known)
    BY <2>1 DEF Ready
  <2>3. page.list \in Seq(Entry) /\ \A k \in Ticket : asked[k].found \in Seq(Entry)
    <3>1. \A l \in Seq(Known) : l \in Seq(Entry)
      BY <1>1
    <3> QED BY <2>1, <3>1 DEF RequestShape
  <2>4. {page.summary, page.modal.run} \subseteq Entry \cup {NoEntry}
    BY <1>1, <2>1, <2>2 DEF PageShape, ModalShape
  <2>5. {page.modal.open, page.modal.loading} \subseteq BOOLEAN
    BY <2>1 DEF ModalShape
  <2>6. \A k \in Polled : page.poller[k].timer => page.poller[k].running
    BY <2>2 DEF PageShape, PollerShape
  <2>7. \A k \in Ticket : /\ asked[k].at \in {"none", "asked", "served"}
                          /\ asked[k].polled \in BOOLEAN
    BY <2>1 DEF RequestShape
  <2>8. edits \subseteq [kind : {"create", "edit", "delete", "run"}, of : Dataset,
                         at : {"asked", "served"}, run : Progress]
    <3> SUFFICES ASSUME NEW c \in edits
                 PROVE  c \in [kind : {"create", "edit", "delete", "run"}, of : Dataset,
                               at : {"asked", "served"}, run : Progress]
      OBVIOUS
    <3>1. EditShape(c, Known)
      BY DEF PageInv
    <3> QED BY <3>1 DEF EditShape
  <2> QED BY <2>1, <2>3, <2>4, <2>5, <2>6, <2>7, <2>8 DEF PageTypeOK, PageInv
<1>3. asked["quality"].at = "none" /\ page.summary # NoEntry =>
        page.summary.of = Shown(Here).of /\ page.summary.run >= Shown(Here).run
  BY DEF PageInv, Summed, Here
<1> QED BY <1>2, <1>3 DEF SummaryFits

\* The summary that the page shows beside a run, once it is loaded, is of its dataset
\* and not older, whichever requests overtake each other (the quality effect of the
\* page, RagEvaluation.tsx).
THEOREM SummariesFit == PageSpec => []SummaryFits
<1>1. PageSpec => []PageInv
  BY PageBegins, PageSteps, PTL DEF PageSpec
<1> QED BY <1>1, PageFits, PTL
=============================================================================
