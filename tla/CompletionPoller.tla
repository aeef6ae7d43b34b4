--------------------------- MODULE CompletionPoller ---------------------------
(* createCompletionPoller of the web client: a task that is run again and     *)
(* again, some time after its last end, for as long as the poller is started. *)
(* A poller p is a record with its flags running and runImmediately (again),  *)
(* its timer, and whether its task is in flight.                              *)

NewPoller == [running |-> FALSE, timer |-> FALSE, again |-> FALSE, task |-> "none"]

\* schedule
Scheduled(p) == IF p.running /\ p.task = "none" THEN [p EXCEPT !.timer = TRUE] ELSE p

\* runTask
RunTask(p) == IF p.running /\ p.task = "none" THEN [p EXCEPT !.task = "begun"] ELSE p

\* start
Started(p) == IF p.running THEN p ELSE Scheduled([p EXCEPT !.running = TRUE])

\* startNow
StartedNow(p) ==
    LET q == [p EXCEPT !.running = TRUE, !.timer = FALSE] IN
    IF p.task # "none" THEN [q EXCEPT !.again = TRUE]
    ELSE RunTask([q EXCEPT !.again = FALSE])

\* stop
Stopped(p) == [p EXCEPT !.running = FALSE, !.again = FALSE, !.timer = FALSE]

\* Mutant: the next run is planned only by a task that succeeded.
SettledOnce(p) ==
    LET q == [p EXCEPT !.task = "none"] IN
    IF q.running /\ q.again THEN RunTask([q EXCEPT !.again = FALSE]) ELSE q

\* The end of a task, however it ends.
TaskSettled(p) ==
    LET q == [p EXCEPT !.task = "none"] IN
    IF q.running /\ q.again THEN RunTask([q EXCEPT !.again = FALSE]) ELSE Scheduled(q)
=============================================================================
