------------------------------ MODULE RagClient ------------------------------
(* The client of the RAG service, for one of its operations: the calls that *)
(* are under way, with their retries and their time budget, and the circuit *)
(* breaker that they share. A call that began before the circuit opened may *)
(* end at any time after it. Time is counted per call and per opening.      *)
EXTENDS Naturals, FiniteSets

CONSTANTS
    Call,           \* concurrent calls
    MaxTries,       \* retrieveMaxAttempts; 1 for the operations without retry
    Timeout,        \* of one attempt
    TotalTimeout,   \* retrieveTotalTimeoutMs
    RetryDelay,     \* retrieveRetryDelayMs
    Threshold,      \* failureThreshold
    ResetTime       \* resetMs

ASSUME RagClientAssumption ==
    /\ {MaxTries, Timeout, TotalTimeout, Threshold} \subseteq Nat \ {0}
    /\ {RetryDelay, ResetTime} \subseteq Nat

VARIABLES
    circuit,  \* the state of the operation: failures, openedAt, probeInFlight
    call,     \* per call: where it is, its permit, attempts, age and timer
    crossed   \* history: a probe of a circuit that was closed meanwhile has
              \* failed

clientVars == <<circuit, call, crossed>>

Closed == [failures |-> 0, open |-> FALSE, since |-> 0, probing |-> FALSE]
NoCall == [at |-> "idle", permit |-> "plain", tries |-> 0, age |-> 0, left |-> 0]

RagClientTypeOK ==
    /\ circuit \in [failures : 0 .. Threshold, open : BOOLEAN, since : 0 .. ResetTime,
                    probing : BOOLEAN]
    /\ call \in [Call -> [at : {"idle", "asked", "waiting"},
                          permit : {"plain", "probe", "former probe"},
                          tries : 0 .. MaxTries, age : Nat, left : Nat]]
    /\ crossed \in BOOLEAN

RagClientInit ==
    /\ circuit = Closed
    /\ call = [c \in Call |-> NoCall]
    /\ crossed = FALSE

Probes(kinds) == {c \in Call : call[c].permit \in kinds}
Least(a, b) == IF a < b THEN a ELSE b

\* An attempt, whose request is given no more than what remains of the budget.
Attempt(k) ==
    [k EXCEPT !.at = "asked", !.tries = @ + 1,
              !.left = Least(Timeout, TotalTimeout - k.age)]

\* acquire: a circuit that is open lets one probe through after its time.
Acquire(c) ==
    /\ call[c].at = "idle"
    /\ \/ /\ ~circuit.open
          /\ call' = [call EXCEPT ![c] = Attempt(NoCall)]
          /\ UNCHANGED circuit
       \/ /\ circuit.open /\ circuit.since >= ResetTime /\ ~circuit.probing
          /\ call' = [call EXCEPT ![c] = Attempt([NoCall EXCEPT !.permit = "probe"])]
          /\ circuit' = [circuit EXCEPT !.probing = TRUE]
    /\ UNCHANGED crossed

\* recordSuccess, of a call that may have begun long ago: the state is deleted,
\* also while a probe of it is under way.
Succeeds(c) ==
    /\ call[c].at = "asked"
    /\ circuit' = Closed
    /\ call' = [k \in Call |-> IF k = c THEN NoCall
                               ELSE IF call[k].permit = "plain" THEN call[k]
                               ELSE [call[k] EXCEPT !.permit = "former probe"]]
    /\ UNCHANGED crossed

\* Mutant: a failure that is not the service's leaves the probe in flight.
RecordFailureOfService(s, probe, ofService) ==
    LET failures == Least(s.failures + 1, Threshold) IN
    IF ~ofService THEN s
    ELSE IF failures < Threshold THEN [s EXCEPT !.failures = failures, !.probing = @ /\ ~probe]
    ELSE [failures |-> failures, open |-> TRUE, since |-> 0, probing |-> s.probing /\ ~probe]

\* recordFailure (failures are counted up to the threshold). A cancelled call
\* or a refused request is none of the service.
RecordFailure(s, probe, ofService) ==
    LET t == [s EXCEPT !.probing = @ /\ ~probe]
        failures == Least(s.failures + 1, Threshold)
    IN
    IF ~ofService THEN t
    ELSE IF failures < Threshold THEN [t EXCEPT !.failures = failures]
    ELSE [t EXCEPT !.failures = failures, !.open = TRUE, !.since = 0]

CanRetry(k, ofService) ==
    /\ k.tries < MaxTries /\ k.age < TotalTimeout
    /\ TotalTimeout - k.age > RetryDelay
    /\ ofService

Fails(c, ofService) ==
    LET k == call[c]
        probe == k.permit # "plain"
    IN
    /\ k.at = "asked" /\ k.left = 0 => ofService
    /\ k.at = "asked"
    /\ IF CanRetry(k, ofService)
       THEN /\ call' = [call EXCEPT ![c].at = "waiting", ![c].left = RetryDelay]
            /\ UNCHANGED <<circuit, crossed>>
       ELSE /\ call' = [call EXCEPT ![c] = NoCall]
            /\ circuit' = RecordFailure(circuit, probe, ofService)
            /\ crossed' = (crossed \/ (k.permit = "former probe" /\ circuit.probing))

TriesAgain(c) ==
    /\ call[c].at = "waiting" /\ call[c].left = 0
    /\ call' = [call EXCEPT ![c] = Attempt(@)]
    /\ UNCHANGED <<circuit, crossed>>

\* Timers fire in time: nothing that is due is passed by.
Tick ==
    /\ \A c \in Call : call[c].at # "idle" => call[c].left > 0
    /\ call' = [c \in Call |-> IF call[c].at = "idle" THEN NoCall
                               ELSE [call[c] EXCEPT !.age = @ + 1, !.left = @ - 1]]
    /\ circuit' = [circuit EXCEPT !.since = IF circuit.open THEN Least(@ + 1, ResetTime) ELSE 0]
    /\ UNCHANGED crossed

RagClientNext ==
    \/ \E c \in Call :
         \/ Acquire(c) \/ Succeeds(c) \/ TriesAgain(c)
         \/ \E ofService \in BOOLEAN : Fails(c, ofService)
    \/ Tick

RagClientSpec == RagClientInit /\ [][RagClientNext]_clientVars

-----------------------------------------------------------------------------

\* An open circuit never waits for a probe that is over, however the probe
\* ended and whatever was closed and opened meanwhile; and two probes are
\* under way at once only after a probe of an earlier opening, which a late
\* success had closed, has failed (acquire, recordSuccess, recordFailure).
\* With its retries a call takes no longer than its budget (requestRagService).
ProbesEnd ==
    /\ RagClientTypeOK
    /\ circuit.probing => Probes({"probe"}) # {}
    /\ crossed \/ Cardinality(Probes({"probe"})) <= 1
    /\ \A c \in Call : call[c].age <= TotalTimeout
=============================================================================
