----------------------------- MODULE ServiceProofs -----------------------------
(* Parts of the services that share no state: the rate limits, the server's   *)
(* client of the RAG service, the life of a server process, what the server   *)
(* believes of a user, and the retrieval cache. Each has an inductive         *)
(* invariant of its own, for every number of addresses, calls, queues,        *)
(* insights and requests and every limit and delay.                           *)
EXTENDS RateLimits, RagClient, RuntimeLifecycle, Persona, RetrievalCache, FiniteSetTheorems, TLAPS

-----------------------------------------------------------------------------
(* Rate limits. *)

Bucket == [count : Nat, expires : Nat]
Steps == [at : {"none", "global", "route", "identity"},
          from : Address \cup {"nobody"}, email : Email \cup {"nobody"}]

\* A request that is under way knows its caller; what a bucket let through it
\* has counted, and it ends a window after it opened.
LimitsInv ==
    /\ LimitsTypeOK
    /\ attempt \in [Asking -> Steps]
    /\ \A r \in Asking : attempt[r].at # "none" =>
         attempt[r].from \in Address /\ attempt[r].email \in Email
    /\ \A b \in Buckets :
        /\ passed[b] <= Limit(b) /\ passed[b] <= bucket[b].count
        /\ bucket[b].count > 0 => bucket[b].expires <= opened[b] + Window

\* The bucket a request goes to is one of the buckets.
LEMMA BucketsOfRequests ==
    ASSUME LimitsInv, NEW r \in Asking, attempt[r].at # "none"
    PROVE  BucketOf(r) \in Buckets
BY DEF LimitsInv, LimitsTypeOK, BucketOf, Buckets

\* What a request makes of a bucket.
LEMMA Increments ==
    ASSUME LimitsInv, NEW b \in Buckets
    PROVE  /\ Increment(bucket[b]) \in Bucket
           /\ Increment(bucket[b]).count = bucket[b].count + 1
           /\ bucket[b].count = 0 => Increment(bucket[b]).expires = clock + Window
           /\ bucket[b].count # 0 => Increment(bucket[b]).expires = bucket[b].expires
BY RateLimitsAssumption DEF LimitsInv, LimitsTypeOK, Increment, Bucket

\* Redis counts the request, lets it through or not, or says nothing.
LEMMA ConsumeStep ==
    ASSUME LimitsInv, NEW r \in Asking, Consume(r) \/ StoreFails(r)
    PROVE  LimitsInv'
<1> DEFINE b == BucketOf(r)
           fresh == bucket[b].count = 0
<1>1. /\ b \in Buckets /\ attempt[r].at # "none"
      /\ clock' = clock /\ clock \in 0 .. MaxTime
      /\ attempt[r] \in Steps /\ attempt \in [Asking -> Steps]
  BY BucketsOfRequests DEF Consume, StoreFails, LimitsInv, LimitsTypeOK
<1>2. /\ Increment(bucket[b]) \in Bucket
      /\ Increment(bucket[b]).count = bucket[b].count + 1
      /\ bucket[b].count = 0 => Increment(bucket[b]).expires = clock + Window
      /\ bucket[b].count # 0 => Increment(bucket[b]).expires = bucket[b].expires
  BY <1>1, Increments
<1>3. /\ bucket \in [Buckets -> Bucket] /\ passed \in [Buckets -> Nat]
      /\ opened \in [Buckets -> 0 .. MaxTime]
      /\ bucket[b].count \in Nat /\ passed[b] \in Nat /\ opened[b] \in 0 .. MaxTime
      /\ passed[b] <= Limit(b) /\ passed[b] <= bucket[b].count /\ Limit(b) \in Nat
      /\ bucket[b].count > 0 => bucket[b].expires <= opened[b] + Window
  BY <1>1, RateLimitsAssumption DEF LimitsInv, LimitsTypeOK, Bucket, Limit
<1>4. /\ attempt' \in [Asking -> Steps]
      /\ \A x \in Asking : attempt'[x].at # "none" =>
           attempt'[x].from \in Address /\ attempt'[x].email \in Email
  <2>1. PICK new : /\ attempt' = [attempt EXCEPT ![r] = new]
                   /\ new = NoAttempt \/ new = [attempt[r] EXCEPT !.at = Following(attempt[r].at)]
    BY <1>1 DEF Consume, StoreFails
  <2>2. /\ new \in Steps
        /\ new.at # "none" => new.from \in Address /\ new.email \in Email
    BY <1>1, <2>1 DEF Steps, NoAttempt, Following, LimitsInv
  <2> QED BY <1>1, <2>1, <2>2 DEF LimitsInv
<1>5. \/ bucket' = bucket /\ opened' = opened /\ passed' = passed
      \/ /\ bucket' = [bucket EXCEPT ![b] = Increment(bucket[b])]
         /\ opened' = IF fresh THEN [opened EXCEPT ![b] = clock] ELSE opened
         /\ \/ passed' = passed
            \/ /\ passed' = [passed EXCEPT ![b] = (IF fresh THEN 0 ELSE passed[b]) + 1]
               /\ Increment(bucket[b]).count <= Limit(b)
            \/ passed' = [passed EXCEPT ![b] = IF fresh THEN 0 ELSE passed[b]]
  <2>1. CASE Consume(r)
    BY <1>1, <2>1 DEF Consume, Allowed
  <2>2. CASE StoreFails(r)
    BY <1>1, <2>2 DEF StoreFails, LimitsInv, LimitsTypeOK
  <2> QED BY <2>1, <2>2
<1> HIDE DEF b
<1>6. /\ bucket' \in [Buckets -> Bucket] /\ opened' \in [Buckets -> 0 .. MaxTime]
      /\ passed' \in [Buckets -> Nat]
  BY <1>1, <1>2, <1>3, <1>5
<1>7. ASSUME NEW x \in Buckets
      PROVE  /\ passed'[x] <= Limit(x) /\ passed'[x] <= bucket'[x].count
             /\ bucket'[x].count > 0 => bucket'[x].expires <= opened'[x] + Window
  <2>1. CASE x # b
    BY <1>3, <1>5, <2>1 DEF LimitsInv
  <2>2. CASE x = b
    <3>1. CASE bucket' = bucket /\ opened' = opened /\ passed' = passed
      BY <1>3, <2>2, <3>1
    <3>2. CASE bucket' = [bucket EXCEPT ![b] = Increment(bucket[b])]
      <4>1. bucket'[b] = Increment(bucket[b])
        BY <1>1, <1>3, <3>2
      <4>2. passed'[b] <= Limit(b) /\ passed'[b] <= bucket[b].count + 1
        BY <1>1, <1>2, <1>3, <1>5
      <4>3. bucket'[b].expires <= opened'[b] + Window
        BY <1>1, <1>2, <1>3, <1>5, <4>1, RateLimitsAssumption
      <4> QED BY <1>2, <2>2, <4>1, <4>2, <4>3
    <3> QED BY <1>5, <3>1, <3>2
  <2> QED BY <2>1, <2>2
<1> QED BY <1>1, <1>4, <1>6, <1>7 DEF LimitsInv, LimitsTypeOK, Steps, Limit, Bucket

\* What the buckets let through stays within the limits, for every number of
\* requests, addresses and emails, and no refusal extends a window.
THEOREM LimitsAlwaysHold == LimitsSpec => []LimitsHold
<1>1. LimitsInit => LimitsInv
  BY RateLimitsAssumption DEF LimitsInit, LimitsInv, LimitsTypeOK, NoBucket, NoAttempt, Steps, Limit
<1>2. LimitsInv /\ [LimitsNext]_limitVars => LimitsInv'
  <2> SUFFICES ASSUME LimitsInv, [LimitsNext]_limitVars PROVE LimitsInv'
    OBVIOUS
  <2>1. ASSUME NEW r \in Asking, Consume(r) \/ StoreFails(r) PROVE LimitsInv'
    BY <2>1, ConsumeStep
  <2>2. ASSUME NEW r \in Asking, Arrive(r) PROVE LimitsInv'
    <3>1. PICK a \in Address, e \in Email :
            attempt' = [attempt EXCEPT ![r] = [at |-> "global", from |-> a, email |-> e]]
      BY <2>2 DEF Arrive
    <3>2. UNCHANGED <<clock, bucket, opened, passed>>
      BY <2>2 DEF Arrive
    <3> QED BY <3>1, <3>2 DEF LimitsInv, LimitsTypeOK, Steps, Limit
  <2>3. CASE LimitsTick
    BY <2>3, RateLimitsAssumption DEF LimitsTick, LimitsInv, LimitsTypeOK, NoBucket, Steps, Limit
  <2>4. CASE UNCHANGED limitVars
    BY <2>4 DEF limitVars, LimitsInv, LimitsTypeOK, Steps, Limit
  <2> QED BY <2>1, <2>2, <2>3, <2>4 DEF LimitsNext
<1>3. LimitsInv => LimitsHold
  BY DEF LimitsInv, LimitsHold
<1> QED BY <1>1, <1>2, <1>3, PTL DEF LimitsSpec
-----------------------------------------------------------------------------
(* The client of the RAG service. *)

Circuit == [failures : 0 .. Threshold, open : BOOLEAN, since : 0 .. ResetTime, probing : BOOLEAN]
CallState == [at : {"idle", "asked", "waiting"}, permit : {"plain", "probe", "former probe"},
              tries : 0 .. MaxTries, age : Nat, left : Nat]

\* What is left of a call lies within its budget; one that waits may try again.
InBudget(k) ==
    /\ k.at = "idle" => k.permit = "plain" /\ k.age = 0
    /\ k.at = "asked" => k.age + k.left <= TotalTimeout
    /\ k.at = "waiting" => k.age + k.left < TotalTimeout /\ k.tries < MaxTries

\* The circuit knows its probe: there is one when it says so and, unless a probe
\* of an earlier opening has failed, none otherwise and never two.
ProbesMatch ==
    /\ circuit.probing => \E c \in Call : call[c].permit = "probe"
    /\ \/ crossed
       \/ \A c \in Call : call[c].permit = "probe" =>
            circuit.probing /\ \A d \in Call : call[d].permit = "probe" => d = c

ClientInv ==
    /\ circuit \in Circuit /\ call \in [Call -> CallState] /\ crossed \in BOOLEAN
    /\ \A c \in Call : InBudget(call[c])
    /\ ProbesMatch

\* The limits of the client are numbers.
LEMMA ClientConstants ==
    /\ MaxTries \in Nat /\ MaxTries > 0 /\ Timeout \in Nat /\ Timeout > 0
    /\ TotalTimeout \in Nat /\ TotalTimeout > 0 /\ Threshold \in Nat /\ Threshold > 0
    /\ RetryDelay \in Nat /\ ResetTime \in Nat
BY RagClientAssumption

\* What the state of a call holds.
LEMMA CallFields ==
    ASSUME NEW k \in CallState
    PROVE  /\ k.tries \in 0 .. MaxTries /\ k.age \in Nat /\ k.left \in Nat
           /\ k.at \in {"idle", "asked", "waiting"}
           /\ k.permit \in {"plain", "probe", "former probe"}
BY DEF CallState

\* The lesser of two numbers.
LEMMA LeastOf ==
    ASSUME NEW a \in Nat, NEW b \in Nat
    PROVE  Least(a, b) \in Nat /\ Least(a, b) <= a /\ Least(a, b) <= b
BY DEF Least

\* An attempt gets no more time than the budget has.
LEMMA Attempts ==
    ASSUME NEW k \in CallState, k.age <= TotalTimeout, k.tries < MaxTries
    PROVE  /\ Attempt(k) \in CallState /\ InBudget(Attempt(k))
           /\ Attempt(k).permit = k.permit /\ Attempt(k).at = "asked"
<1> USE ClientConstants
<1>0. k.age \in Nat /\ k.tries \in 0 .. MaxTries
  BY CallFields
<1>1. TotalTimeout - k.age \in Nat /\ Timeout \in Nat
  BY <1>0
<1>2. PICK left \in Nat : left = Least(Timeout, TotalTimeout - k.age) /\ left <= TotalTimeout - k.age
  BY <1>1, LeastOf
<1>3. PICK tries \in 0 .. MaxTries : tries = k.tries + 1
  BY <1>0
<1>4. Attempt(k) = [k EXCEPT !.at = "asked", !.tries = tries, !.left = left]
  BY <1>2, <1>3 DEF Attempt, CallState
<1> DEFINE d == [k EXCEPT !.at = "asked", !.tries = tries, !.left = left]
<1>5. /\ d \in CallState /\ d.at = "asked" /\ d.left = left
      /\ d.age = k.age /\ d.permit = k.permit
  BY DEF CallState
<1>6. d.age + d.left <= TotalTimeout
  BY <1>0, <1>1, <1>2, <1>5
<1> HIDE DEF d
<1>7. InBudget(d)
  BY <1>5, <1>6 DEF InBudget
<1> QED BY <1>4, <1>5, <1>7 DEF d

\* A call that has not begun.
LEMMA NoCalls ==
    /\ NoCall \in CallState /\ InBudget(NoCall) /\ NoCall.permit = "plain"
    /\ [NoCall EXCEPT !.permit = "probe"] \in CallState
    /\ Closed \in Circuit /\ ~Closed.probing
<1>1. 0 \in 0 .. MaxTries /\ 0 \in 0 .. Threshold /\ 0 \in 0 .. ResetTime
  BY ClientConstants
<1>2. NoCall \in CallState /\ InBudget(NoCall) /\ NoCall.permit = "plain"
  BY <1>1 DEF NoCall, CallState, InBudget
<1>3. [NoCall EXCEPT !.permit = "probe"] \in CallState
  BY <1>1 DEF NoCall, CallState
<1>4. Closed \in Circuit
  BY <1>1, Zenon DEF Closed, Circuit
<1>5. ~Closed.probing
  BY DEF Closed
<1> QED BY <1>2, <1>3, <1>4, <1>5

\* A failure ends the probe that it is of, and no other.
LEMMA Failures ==
    ASSUME NEW s \in Circuit, NEW probe \in BOOLEAN, NEW ofService \in BOOLEAN
    PROVE  /\ RecordFailure(s, probe, ofService) \in Circuit
           /\ RecordFailure(s, probe, ofService).probing = (s.probing /\ ~probe)
<1> DEFINE t == [s EXCEPT !.probing = s.probing /\ ~probe]
<1>1. t \in Circuit /\ t.probing = (s.probing /\ ~probe)
  BY Zenon DEF Circuit
<1>2. s.failures \in Nat /\ s.failures + 1 \in Nat /\ Threshold \in Nat
  BY ClientConstants DEF Circuit
<1>3. PICK n \in 0 .. Threshold : n = Least(s.failures + 1, Threshold)
  BY <1>2, LeastOf
<1>4. 0 \in 0 .. ResetTime
  BY ClientConstants
<1>5. \/ RecordFailure(s, probe, ofService) = t
      \/ RecordFailure(s, probe, ofService) = [t EXCEPT !.failures = n]
      \/ RecordFailure(s, probe, ofService) = [t EXCEPT !.failures = n, !.open = TRUE, !.since = 0]
  BY <1>3, Zenon DEF RecordFailure
<1>6. /\ [t EXCEPT !.failures = n] \in Circuit
      /\ [t EXCEPT !.failures = n].probing = t.probing
  <2> HIDE DEF t
  <2> QED BY <1>1, <1>3, Zenon DEF Circuit
<1>7. /\ [t EXCEPT !.failures = n, !.open = TRUE, !.since = 0] \in Circuit
      /\ [t EXCEPT !.failures = n, !.open = TRUE, !.since = 0].probing = t.probing
  <2> HIDE DEF t
  <2> QED BY <1>1, <1>3, <1>4, Zenon DEF Circuit
<1> QED BY <1>1, <1>5, <1>6, <1>7, Zenon

\* A call begins, as a probe only when the circuit knows of none.
LEMMA AcquireStep ==
    ASSUME ClientInv, NEW c \in Call, Acquire(c)
    PROVE  ClientInv'
<1>1. NoCall.age <= TotalTimeout /\ NoCall.tries < MaxTries
  BY ClientConstants DEF NoCall
<1>2. call[c] \in CallState /\ call[c].permit = "plain"
  BY DEF Acquire, ClientInv, InBudget
<1>3. CASE ~circuit.open
  <2>1. PICK new \in CallState : /\ call' = [call EXCEPT ![c] = new]
                                 /\ InBudget(new) /\ new.permit = "plain"
    BY <1>1, <1>3, NoCalls, Attempts DEF Acquire
  <2>2. circuit' = circuit /\ crossed' = crossed
    BY <1>3 DEF Acquire
  <2>3. \A d \in Call : call'[d] = (IF d = c THEN new ELSE call[d])
    BY <2>1 DEF ClientInv
  <2>4. ProbesMatch'
    BY <1>2, <2>1, <2>2, <2>3 DEF ClientInv, ProbesMatch
  <2> QED BY <2>1, <2>2, <2>3, <2>4 DEF ClientInv
<1>4. CASE circuit.open
  <2>1. [NoCall EXCEPT !.permit = "probe"].age = NoCall.age
        /\ [NoCall EXCEPT !.permit = "probe"].tries = NoCall.tries
        /\ [NoCall EXCEPT !.permit = "probe"].permit = "probe"
    BY DEF NoCall
  <2>2. /\ call' = [call EXCEPT ![c] = Attempt([NoCall EXCEPT !.permit = "probe"])]
        /\ circuit' = [circuit EXCEPT !.probing = TRUE] /\ ~circuit.probing /\ crossed' = crossed
    BY <1>4 DEF Acquire
  <2>3. PICK new \in CallState : /\ call' = [call EXCEPT ![c] = new]
                                 /\ InBudget(new) /\ new.permit = "probe"
    BY <1>1, <2>1, <2>2, NoCalls, Attempts
  <2>4. \A d \in Call : call'[d] = (IF d = c THEN new ELSE call[d])
    BY <2>3 DEF ClientInv
  <2>5. circuit' \in Circuit /\ circuit'.probing
    BY <2>2, Zenon DEF ClientInv, Circuit
  <2>6. ProbesMatch'
    BY <2>2, <2>3, <2>4, <2>5 DEF ClientInv, ProbesMatch
  <2> QED BY <2>2, <2>3, <2>4, <2>5, <2>6 DEF ClientInv
<1> QED BY <1>3, <1>4

\* A success closes the circuit; the probes under way are those of the past.
LEMMA SuccessStep ==
    ASSUME ClientInv, NEW c \in Call, Succeeds(c)
    PROVE  ClientInv'
<1>1. \A k \in CallState : /\ [k EXCEPT !.permit = "former probe"] \in CallState
                           /\ [k EXCEPT !.permit = "former probe"].permit = "former probe"
                           /\ InBudget(k) /\ k.permit # "plain"
                                => InBudget([k EXCEPT !.permit = "former probe"])
  BY DEF CallState, InBudget
<1>2. ASSUME NEW d \in Call
      PROVE  call'[d] \in CallState /\ InBudget(call'[d]) /\ call'[d].permit # "probe"
  <2>1. call[d] \in CallState /\ InBudget(call[d])
    BY DEF ClientInv
  <2>2. \/ call'[d] = NoCall
        \/ call'[d] = call[d] /\ call[d].permit = "plain"
        \/ call'[d] = [call[d] EXCEPT !.permit = "former probe"] /\ call[d].permit # "plain"
    BY DEF Succeeds
  <2> QED BY <1>1, <2>1, <2>2, NoCalls
<1>3. call' = [d \in Call |-> call'[d]]
  BY DEF Succeeds
<1>4. circuit' = Closed /\ crossed' = crossed
  BY DEF Succeeds
<1>5. ProbesMatch'
  BY <1>2, <1>4, NoCalls DEF ProbesMatch
<1> QED BY <1>2, <1>3, <1>4, <1>5, NoCalls DEF ClientInv

\* A failed attempt waits for the next one, or ends the call and its probe.
LEMMA FailureStep ==
    ASSUME ClientInv, NEW c \in Call, NEW ofService \in BOOLEAN, Fails(c, ofService)
    PROVE  ClientInv'
<1>1. call[c] \in CallState /\ InBudget(call[c]) /\ call[c].at = "asked" /\ circuit \in Circuit
  BY DEF ClientInv, Fails
<1>2. CASE CanRetry(call[c], ofService)
  <2> DEFINE changed == [call[c] EXCEPT !.at = "waiting", !.left = RetryDelay]
  <2>1. PICK new \in CallState :
          /\ new = changed /\ new.at = "waiting" /\ new.left = RetryDelay
          /\ new.age = call[c].age /\ new.tries = call[c].tries /\ new.permit = call[c].permit
    <3>1. /\ changed \in CallState /\ changed.at = "waiting" /\ changed.left = RetryDelay
          /\ changed.age = call[c].age /\ changed.tries = call[c].tries
          /\ changed.permit = call[c].permit
      <4>1. RetryDelay \in Nat
        BY ClientConstants
      <4> QED BY <1>1, <4>1 DEF CallState
    <3> QED BY <3>1
  <2>2. InBudget(new) /\ new.permit = call[c].permit
    <3>1. call[c].age \in Nat
      BY <1>1, CallFields
    <3>2. new.age + new.left < TotalTimeout /\ new.tries < MaxTries
      BY <1>2, <2>1, <3>1, ClientConstants DEF CanRetry
    <3> QED BY <2>1, <3>2 DEF InBudget
  <2>3. /\ call' = [call EXCEPT ![c].at = "waiting", ![c].left = RetryDelay]
        /\ UNCHANGED <<circuit, crossed>>
    BY <1>2 DEF Fails
  <2>4. \A d \in Call : call'[d] = (IF d = c THEN new ELSE call[d])
    BY <2>1, <2>3 DEF ClientInv
  <2>5. call' = [d \in Call |-> call'[d]]
    BY <2>3 DEF ClientInv
  <2>6. \A d \in Call : call'[d].permit = call[d].permit
    BY <2>2, <2>4
  <2>7. ProbesMatch'
    BY <2>3, <2>6 DEF ClientInv, ProbesMatch
  <2> QED BY <2>1, <2>2, <2>3, <2>4, <2>5, <2>7 DEF ClientInv
<1>3. CASE ~CanRetry(call[c], ofService)
  <2> DEFINE probe == call[c].permit # "plain"
  <2>1. /\ call' = [call EXCEPT ![c] = NoCall]
        /\ circuit' = RecordFailure(circuit, probe, ofService)
        /\ crossed' = (crossed \/ (call[c].permit = "former probe" /\ circuit.probing))
    BY <1>3 DEF Fails
  <2>2. circuit' \in Circuit /\ circuit'.probing = (circuit.probing /\ ~probe)
    BY <1>1, <2>1, Failures
  <2>3. \A d \in Call : call'[d] = (IF d = c THEN NoCall ELSE call[d])
    BY <2>1 DEF ClientInv
  <2>4. circuit'.probing => \E d \in Call : call'[d].permit = "probe"
    BY <2>2, <2>3 DEF ClientInv, ProbesMatch
  <2>5. ASSUME ~crossed', NEW d \in Call, call'[d].permit = "probe"
        PROVE  circuit'.probing /\ \A e \in Call : call'[e].permit = "probe" => e = d
    <3>1. ~crossed /\ ~(call[c].permit = "former probe" /\ circuit.probing)
      BY <2>1, <2>5
    <3>2. d # c /\ call[d].permit = "probe"
      BY <2>3, <2>5, NoCalls
    <3>3. circuit.probing /\ \A e \in Call : call[e].permit = "probe" => e = d
      BY <3>1, <3>2 DEF ClientInv, ProbesMatch
    <3>4. call[c].permit = "plain"
      BY <1>1, <3>1, <3>2, <3>3 DEF CallState
    <3> QED BY <2>2, <2>3, <3>3, <3>4, NoCalls
  <2>6. ProbesMatch'
    BY <2>4, <2>5 DEF ProbesMatch
  <2>7. call' \in [Call -> CallState] /\ \A d \in Call : InBudget(call'[d])
    BY <2>1, <2>3, NoCalls DEF ClientInv
  <2>8. crossed' \in BOOLEAN
    BY <2>1 DEF ClientInv
  <2> QED BY <2>2, <2>6, <2>7, <2>8 DEF ClientInv
<1> QED BY <1>2, <1>3

\* Time takes from what is left of a call what it adds to its age.
LEMMA TickStep ==
    ASSUME ClientInv, Tick
    PROVE  ClientInv'
<1>1. ASSUME NEW c \in Call
      PROVE  /\ call'[c] \in CallState /\ InBudget(call'[c])
             /\ call'[c].permit = call[c].permit
  <2>1. call[c] \in CallState /\ InBudget(call[c])
    BY DEF ClientInv
  <2>2. CASE call[c].at = "idle"
    <3>1. call'[c] = NoCall
      BY <2>2 DEF Tick
    <3> QED BY <2>1, <2>2, <3>1, NoCalls DEF InBudget
  <2>3. CASE call[c].at # "idle"
    <3>1. call'[c] = [call[c] EXCEPT !.age = @ + 1, !.left = @ - 1] /\ call[c].left > 0
      BY <2>3 DEF Tick
    <3>0. /\ call[c].age \in Nat /\ call[c].left \in Nat
          /\ call[c].at \in {"idle", "asked", "waiting"}
      BY <2>1, CallFields
    <3>00. call[c].left > 0
      BY <3>1
    <3>2. PICK age \in Nat, left \in Nat : age = call[c].age + 1 /\ left = call[c].left - 1
      BY <3>0, <3>00
    <3>3. call'[c] = [call[c] EXCEPT !.age = age, !.left = left]
      BY <2>1, <3>1, <3>2 DEF CallState
    <3>4. /\ call'[c] \in CallState /\ call'[c].at = call[c].at
          /\ call'[c].tries = call[c].tries /\ call'[c].permit = call[c].permit
          /\ call'[c].age = age /\ call'[c].left = left
      BY <2>1, <3>3 DEF CallState
    <3>5. age + left = call[c].age + call[c].left
      BY <3>0, <3>2
    <3>6. InBudget(call'[c])
      BY <2>1, <2>3, <3>4, <3>5 DEF InBudget
    <3> QED BY <3>4, <3>6
  <2> QED BY <2>2, <2>3
<1>2. call' = [c \in Call |-> call'[c]] /\ crossed' = crossed
  BY DEF Tick
<1>3. circuit' \in Circuit /\ circuit'.probing = circuit.probing
  <2>1. circuit \in Circuit
    BY DEF ClientInv
  <2>2. circuit.since \in Nat /\ circuit.since + 1 \in Nat /\ ResetTime \in Nat
    BY <2>1, ClientConstants DEF Circuit
  <2>3. PICK n \in 0 .. ResetTime :
          n = IF circuit.open THEN Least(circuit.since + 1, ResetTime) ELSE 0
    BY <2>2, LeastOf
  <2>4. circuit' = [circuit EXCEPT !.since = n]
    BY <2>3, Zenon DEF Tick
  <2> QED BY <2>1, <2>3, <2>4, Zenon DEF Circuit
<1>4. ProbesMatch'
  BY <1>1, <1>2, <1>3 DEF ClientInv, ProbesMatch
<1> QED BY <1>1, <1>2, <1>3, <1>4 DEF ClientInv

\* Every probe ends with its call, two are under way only after one of an
\* earlier opening has failed, and no call outlasts its budget, for every
\* number of calls and attempts and every timeout, delay and threshold.
THEOREM ProbesAlwaysEnd == RagClientSpec => []ProbesEnd
<1>1. RagClientInit => ClientInv
  BY NoCalls DEF RagClientInit, ClientInv, ProbesMatch
<1>2. ClientInv /\ [RagClientNext]_clientVars => ClientInv'
  <2> SUFFICES ASSUME ClientInv, [RagClientNext]_clientVars PROVE ClientInv'
    OBVIOUS
  <2>1. ASSUME NEW c \in Call, TriesAgain(c) PROVE ClientInv'
    <3>1. /\ call[c] \in CallState /\ InBudget(call[c]) /\ call[c].at = "waiting" /\ call[c].left = 0
          /\ call' = [call EXCEPT ![c] = Attempt(call[c])] /\ UNCHANGED <<circuit, crossed>>
      BY <2>1 DEF TriesAgain, ClientInv
    <3>0. call[c].age \in Nat /\ call[c].left \in Nat
      BY <3>1, CallFields
    <3>2. call[c].age <= TotalTimeout /\ call[c].tries < MaxTries
      BY <3>1, <3>0, ClientConstants DEF InBudget
    <3>3. /\ Attempt(call[c]) \in CallState /\ InBudget(Attempt(call[c]))
          /\ Attempt(call[c]).permit = call[c].permit
      BY <3>1, <3>2, Attempts
    <3>4. \A d \in Call : call'[d] = (IF d = c THEN Attempt(call[c]) ELSE call[d])
      BY <3>1 DEF ClientInv
    <3>5. \A d \in Call : call'[d].permit = call[d].permit
      BY <3>3, <3>4
    <3>6. ProbesMatch'
      BY <3>1, <3>5 DEF ClientInv, ProbesMatch
    <3> QED BY <3>1, <3>3, <3>4, <3>6 DEF ClientInv
  <2>2. CASE UNCHANGED clientVars
    BY <2>2 DEF clientVars, ClientInv, ProbesMatch
  <2> QED BY <2>1, <2>2, AcquireStep, SuccessStep, FailureStep, TickStep DEF RagClientNext
<1>3. ClientInv => ProbesEnd
  <2> SUFFICES ASSUME ClientInv PROVE ProbesEnd
    OBVIOUS
  <2>1. ASSUME ~crossed PROVE Cardinality(Probes({"probe"})) <= 1
    <3>1. CASE Probes({"probe"}) = {}
      BY <3>1, FS_EmptySet
    <3>2. CASE Probes({"probe"}) # {}
      <4>1. PICK c \in Call : call[c].permit = "probe"
        BY <3>2 DEF Probes
      <4>2. Probes({"probe"}) = {c}
        BY <2>1, <4>1 DEF Probes, ClientInv, ProbesMatch
      <4>3. Cardinality({c}) = 1
        BY FS_Singleton
      <4> QED BY <4>2, <4>3
    <3> QED BY <3>1, <3>2
  <2>2. circuit.probing => Probes({"probe"}) # {}
    BY DEF Probes, ClientInv, ProbesMatch
  <2>3. ASSUME NEW c \in Call PROVE call[c].age <= TotalTimeout
    <3>1. call[c] \in CallState /\ InBudget(call[c])
      BY DEF ClientInv
    <3>2. /\ call[c].age \in Nat /\ call[c].left \in Nat
          /\ call[c].at \in {"idle", "asked", "waiting"}
      BY <3>1, CallFields
    <3> QED BY <3>1, <3>2, ClientConstants DEF InBudget
  <2>4. RagClientTypeOK
    BY DEF ClientInv, RagClientTypeOK, Circuit, CallState
  <2> QED BY <2>1, <2>2, <2>3, <2>4 DEF ProbesEnd
<1> QED BY <1>1, <1>2, <1>3, PTL DEF RagClientSpec
-----------------------------------------------------------------------------
(* The life of a process. *)

\* How far the start has come says what there is to close: before the server
\* serves there are no requests, no maintenance and no handled signals, and the
\* runtime goes down only through a failed start or through app.close.
Phases ==
    /\ main \notin {"serving", "failed"} => closing = "no" /\ runtime = "up"
    /\ main # "serving" => signals = {} /\ ~answering /\ ~maintenance.started /\ ~maintenance.running
    /\ main = "serving" =>
         /\ signals = {} => closing = "no"
         /\ closing \in {"no", "maintenance", "server"} => runtime = "up"
    /\ main \in {"creating", "migrating", "connecting"} => \A q \in Queues : worker[q] = "none"
    /\ main \in {"starting", "listening", "serving"} =>
         redis # "none" /\ \A q \in Queues : worker[q] # "none"

\* How far the end has come says what has ended.
Stops ==
    /\ closing \in {"server", "runtime", "done"} => ~maintenance.started /\ ~maintenance.running
    /\ closing \in {"runtime", "done"} => ~answering
    /\ closing = "done" => "server" \in failures
    /\ redis = "closed" => runtime \in {"pool", "down"}
    /\ runtime \in {"pool", "down"} => redis # "open"
    /\ pool = "closed" <=> runtime = "down"
    /\ runtime \in {"redis", "pool", "down"} =>
         \A q \in Queues : worker[q] \in {"none", "closed", "broken"}
    /\ \A q \in Queues : /\ worker[q] \in {"none", "closed"} => job[q] = "none"
                         /\ worker[q] = "broken" => q \in failures

\* An exit with 0 is the end of all of them.
Ends == exit = "0" => /\ pool = "closed" /\ redis = "closed"
                      /\ \A q \in Queues : worker[q] = "closed" /\ job[q] = "none"

Runs == [started : BOOLEAN, running : BOOLEAN]
Dispatching == [Queues -> BOOLEAN]

RuntimeTypes ==
    /\ main \in {"creating", "migrating", "connecting", "starting", "listening", "serving", "failed"}
    /\ closing \in {"no", "maintenance", "server", "runtime", "done"}
    /\ runtime \in {"up", "queues", "redis", "pool", "down"}
    /\ failures \subseteq (Queues \cup {"pool", "server"})
    /\ redis \in {"none", "open", "closed"} /\ pool \in {"open", "closed"}
    /\ worker \in [Queues -> {"none", "working", "closing", "closed", "broken"}]
    /\ start \in [Queues -> {"none", "waiting", "dispatching", "done", "failed"}]
    /\ job \in [Queues -> {"none", "claimed", "running", "aborted"}]
    /\ dispatching \in Dispatching /\ answering \in BOOLEAN
    /\ maintenance \in Runs
    /\ signals \subseteq Signals
    /\ exit \in {"no", "0", "1", "killed"}

RuntimeInv == RuntimeTypes /\ Phases /\ Stops /\ Ends

\* What becomes of the maintenance and of the dispatches.
LEMMA RunFlags ==
    ASSUME NEW x \in Runs
    PROVE  /\ [x EXCEPT !.running = TRUE] \in Runs /\ [x EXCEPT !.running = TRUE].started = x.started
           /\ [x EXCEPT !.running = FALSE] \in Runs /\ [x EXCEPT !.running = FALSE].started = x.started
           /\ ~[x EXCEPT !.running = FALSE].running
           /\ [x EXCEPT !.started = FALSE] \in Runs /\ [x EXCEPT !.started = FALSE].running = x.running
           /\ ~[x EXCEPT !.started = FALSE].started
BY Zenon DEF Runs

\* What they hold when the process starts.
LEMMA FirstRuns ==
    /\ [started |-> TRUE, running |-> TRUE] \in Runs
    /\ [started |-> FALSE, running |-> FALSE] \in Runs
    /\ [q \in Queues |-> FALSE] \in Dispatching
BY Zenon DEF Runs, Dispatching

\* One queue begins or ends its dispatch.
LEMMA DispatchFlags ==
    ASSUME NEW x \in Dispatching, NEW q \in Queues, NEW b \in BOOLEAN
    PROVE  [x EXCEPT ![q] = b] \in Dispatching
BY Zenon DEF Dispatching

\* The steps of the start.
LEMMA StartSteps ==
    ASSUME RuntimeInv,
           \/ Up /\ (Create \/ Migrate \/ ConnectRedis \/ AllStarted \/ Listen)
           \/ \E q \in Queues : Up /\ QueueReady(q)
    PROVE  RuntimeInv'
<1> USE DEF RuntimeInv, RuntimeTypes, Phases, Stops, Ends, Up, Fail, Started
<1>1. CASE Up /\ Create
  BY <1>1 DEF Create
<1>2. CASE Up /\ Migrate
  BY <1>2 DEF Migrate
<1>3. CASE Up /\ ConnectRedis
  BY <1>3 DEF ConnectRedis
<1>4. CASE Up /\ AllStarted
  BY <1>4 DEF AllStarted
<1>5. CASE Up /\ Listen
  <2>1. [started |-> TRUE, running |-> TRUE] \in Runs
    BY FirstRuns
  <2>2. \/ maintenance' = [started |-> TRUE, running |-> TRUE] /\ main' = "serving"
        \/ maintenance' = maintenance /\ main' = "failed"
    BY <1>5 DEF Listen
  <2>3. maintenance' \in Runs
    BY <2>1, <2>2
  <2> QED BY <1>5, <2>3 DEF Listen
<1>6. ASSUME NEW q \in Queues, Up /\ QueueReady(q) PROVE RuntimeInv'
  <2>1. dispatching' \in Dispatching
    <3>1. dispatching \in Dispatching /\ [dispatching EXCEPT ![q] = TRUE] \in Dispatching
      BY DispatchFlags
    <3>2. dispatching' = dispatching \/ dispatching' = [dispatching EXCEPT ![q] = TRUE]
      BY <1>6 DEF QueueReady
    <3> QED BY <3>1, <3>2, Zenon
  <2> QED BY <1>6, <2>1 DEF QueueReady
<1> QED BY <1>1, <1>2, <1>3, <1>4, <1>5, <1>6

\* The steps of the work.
LEMMA WorkSteps ==
    ASSUME RuntimeInv,
           \/ \E q \in Queues :
                TakeJob(q) \/ Register(q) \/ EndJob(q) \/ Dispatch(q) \/ EndDispatch(q) \/ CloseWorker(q)
           \/ ServeRequest \/ Maintain
    PROVE  RuntimeInv'
<1> USE DEF RuntimeInv, RuntimeTypes, Phases, Stops, Ends, Up, Going
<1>1. ASSUME NEW q \in Queues, TakeJob(q) \/ Register(q) \/ EndJob(q) PROVE RuntimeInv'
  BY <1>1 DEF TakeJob, Register, EndJob
<1>2. ASSUME NEW q \in Queues, Dispatch(q) \/ EndDispatch(q) PROVE RuntimeInv'
  <2>1. dispatching' \in Dispatching
    <3>1. /\ [dispatching EXCEPT ![q] = TRUE] \in Dispatching
          /\ [dispatching EXCEPT ![q] = FALSE] \in Dispatching
      BY DispatchFlags
    <3>2. \/ dispatching' = [dispatching EXCEPT ![q] = TRUE]
          \/ dispatching' = [dispatching EXCEPT ![q] = FALSE]
      BY <1>2 DEF Dispatch, EndDispatch
    <3> QED BY <3>1, <3>2, ZenonT(30)
  <2> QED BY <1>2, <2>1 DEF Dispatch, EndDispatch
<1>3. ASSUME NEW q \in Queues, CloseWorker(q) PROVE RuntimeInv'
  BY <1>3 DEF CloseWorker, JobDone
<1>4. CASE ServeRequest
  BY <1>4 DEF ServeRequest
<1>5. CASE Maintain
  <2>1. /\ [maintenance EXCEPT !.running = TRUE] \in Runs
        /\ [maintenance EXCEPT !.running = TRUE].started = maintenance.started
        /\ [maintenance EXCEPT !.running = FALSE] \in Runs
        /\ [maintenance EXCEPT !.running = FALSE].started = maintenance.started
        /\ ~[maintenance EXCEPT !.running = FALSE].running
    BY RunFlags
  <2>2. \/ maintenance' = [maintenance EXCEPT !.running = TRUE] /\ maintenance.started
        \/ maintenance' = [maintenance EXCEPT !.running = FALSE]
    BY <1>5, Zenon DEF Maintain
  <2>3. /\ maintenance' \in Runs /\ maintenance'.started = maintenance.started
        /\ maintenance'.running => maintenance.started
    <3>1. CASE maintenance' = [maintenance EXCEPT !.running = TRUE] /\ maintenance.started
      BY <2>1, <3>1, Zenon
    <3>2. CASE maintenance' = [maintenance EXCEPT !.running = FALSE]
      BY <2>1, <3>2, Zenon
    <3> QED BY <2>2, <3>1, <3>2
  <2> QED BY <1>5, <2>3 DEF Maintain
<1> QED BY <1>1, <1>2, <1>3, <1>4, <1>5

\* The steps of the end.
LEMMA EndSteps ==
    ASSUME RuntimeInv,
           \/ \E s \in Signals : Signal(s)
           \/ StopMaintenance \/ CloseServer \/ StopQueues \/ AllStopped \/ CloseRedis \/ ClosePool
           \/ Exit \/ TimeOut \/ EndOfFailedStart
    PROVE  RuntimeInv'
<1> USE DEF RuntimeInv, RuntimeTypes, Phases, Stops, Ends, Up
<1>1. ASSUME NEW s \in Signals, Signal(s) PROVE RuntimeInv'
  BY <1>1 DEF Signal
<1>2. CASE StopMaintenance
  <2>1. \/ maintenance' = maintenance /\ ~maintenance.started
        \/ maintenance' = [maintenance EXCEPT !.started = FALSE]
    BY <1>2 DEF StopMaintenance
  <2>2. /\ maintenance' \in Runs /\ maintenance'.running = maintenance.running
        /\ ~maintenance'.started
    <3>1. /\ [maintenance EXCEPT !.started = FALSE] \in Runs
          /\ [maintenance EXCEPT !.started = FALSE].running = maintenance.running
          /\ ~[maintenance EXCEPT !.started = FALSE].started
      BY RunFlags
    <3>2. maintenance \in Runs
      OBVIOUS
    <3> QED BY <2>1, <3>1, <3>2, ZenonT(30)
  <2> QED BY <1>2, <2>2 DEF StopMaintenance
<1>3. CASE CloseServer
  BY <1>3 DEF CloseServer, Started
<1>4. CASE StopQueues
  BY <1>4 DEF StopQueues, Going
<1>5. CASE AllStopped
  BY <1>5 DEF AllStopped
<1>6. CASE CloseRedis
  BY <1>6 DEF CloseRedis
<1>7. CASE ClosePool
  BY <1>7 DEF ClosePool
<1>8. CASE Exit
  BY <1>8 DEF Exit, Code
<1>9. CASE TimeOut \/ EndOfFailedStart
  BY <1>9 DEF TimeOut, EndOfFailedStart
<1> QED BY <1>1, <1>2, <1>3, <1>4, <1>5, <1>6, <1>7, <1>8, <1>9

\* Whatever fails and whenever a signal comes, the connections of a process that
\* lives close only after the work that needs them, and an exit with 0 is one
\* after all of it.
THEOREM WorkEndsFirst == RuntimeSpec => []WorkEndsBeforeThePool
<1>1. RuntimeInit => RuntimeInv
  <2> SUFFICES ASSUME RuntimeInit PROVE RuntimeInv
    OBVIOUS
  <2>1. maintenance \in Runs /\ dispatching \in Dispatching
    BY FirstRuns DEF RuntimeInit
  <2> QED BY <2>1 DEF RuntimeInit, RuntimeInv, RuntimeTypes, Phases, Stops, Ends
<1>2. RuntimeInv /\ [RuntimeNext]_runtimeVars => RuntimeInv'
  <2> SUFFICES ASSUME RuntimeInv, [RuntimeNext]_runtimeVars PROVE RuntimeInv'
    OBVIOUS
  <2>1. CASE UNCHANGED runtimeVars
    BY <2>1 DEF runtimeVars, RuntimeInv, RuntimeTypes, Phases, Stops, Ends
  <2> QED BY <2>1, StartSteps, WorkSteps, EndSteps DEF RuntimeNext
<1>3. RuntimeInv => WorkEndsBeforeThePool
  <2>1. RuntimeTypes => RuntimeTypeOK
    BY DEF RuntimeTypes, RuntimeTypeOK, Runs, Dispatching
  <2>2. RuntimeTypes /\ Phases /\ Stops /\ Up /\ "closed" \in {redis, pool} =>
          /\ ~answering /\ ~maintenance.running
          /\ \A q \in Queues : job[q] # "none" => worker[q] = "broken"
    BY DEF RuntimeTypes, Phases, Stops
  <2> QED BY <2>1, <2>2 DEF RuntimeInv, Ends, WorkEndsBeforeThePool
<1> QED BY <1>1, <1>2, <1>3, PTL DEF RuntimeSpec

-----------------------------------------------------------------------------
(* What the server believes of a user. An analysis keeps the row of the       *)
(* profile locked from its first read on, so that nobody switches the memory  *)
(* off under it; and it deletes no row that the user has chosen.              *)

Statuses == {"none", "active"} \cup Chosen

\* What a request is made of.
RequestShape(q) ==
    /\ q = [kind |-> q.kind, at |-> q.at, of |-> q.of, id |-> q.id, to |-> q.to, found |-> q.found]
    /\ q.found = [memory |-> q.found.memory, rows |-> q.found.rows]
    /\ q.found.memory \in BOOLEAN
    /\ q.kind \in Kinds /\ q.of \subseteq Insight /\ q.to \in Statuses
    /\ q.at \in {"idle", "asked", "locked", "deleted", "reading", "rows", "answered", "failed"}

PersonaShapes ==
    /\ requests = [r \in Requests |-> requests[r]]
    /\ \A r \in Requests : RequestShape(requests[r])
    /\ center = [open |-> center.open, shown |-> center.shown, form |-> center.form,
                 loading |-> center.loading, saving |-> center.saving,
                 analyzing |-> center.analyzing]
    /\ center.shown = [memory |-> center.shown.memory, rows |-> center.shown.rows]

\* An analysis that draws insights has locked the profile, whose memory is on.
Drawing(r) == IsAt(r, Analysis, "locked") \/ IsAt(r, Analysis, "deleted")
ProfileIsLocked == \A r \in Requests : Drawing(r) => profile.lock = r /\ profile.memory

\* A row is deleted by a reset, or by an analysis if the user has not chosen it.
RowsAreDeleted ==
    \A i \in Insight, r \in Requests : insights[i].lock = r =>
        /\ IsAt(r, Analysis \cup {"reset"}, "deleted")
        /\ requests[r].kind \in Analysis => insights[i].status = "active"

PersonaInv == PersonaTypeOK /\ PersonaShapes /\ ProfileIsLocked /\ RowsAreDeleted

\* The initial states satisfy the invariant.
LEMMA PersonaStarts == PersonaInit => PersonaInv
<1> SUFFICES ASSUME PersonaInit PROVE PersonaInv
  OBVIOUS
<1> USE PersonaAssumption
<1>1. RequestShape(Quiet) /\ \A r \in Requests : requests[r] = Quiet
  BY DEF PersonaInit, RequestShape, Quiet, Blank, Kinds, Statuses
<1>2. PersonaTypeOK
  BY <1>1, TRUE \in BOOLEAN, FALSE \in BOOLEAN
     DEF PersonaInit, PersonaTypeOK, Quiet, Absent, Kinds, MinTopicEvidence, Chosen
<1>3. PersonaShapes
  BY <1>1 DEF PersonaInit, PersonaShapes, Blank
<1>4. ProfileIsLocked /\ RowsAreDeleted
  BY <1>1 DEF PersonaInit, ProfileIsLocked, RowsAreDeleted, Drawing, IsAt, Quiet, Analysis, Absent
<1> QED BY <1>2, <1>3, <1>4 DEF PersonaInv

\* A request that draws nothing and has deleted nothing may become any other
\* that is not drawing, and leaves what the server knows alone.
LEMMA RequestMoves ==
    ASSUME PersonaInv, NEW r \in Requests, NEW q, RequestShape(q),
           requests' = [requests EXCEPT ![r] = q],
           q.at \notin {"locked", "deleted"}, requests[r].at # "deleted",
           UNCHANGED <<profile, insights>>
    PROVE  /\ requests' = [p \in Requests |-> requests'[p]]
           /\ \A p \in Requests : RequestShape(requests'[p])
           /\ ProfileIsLocked' /\ RowsAreDeleted'
<1>1. requests = [p \in Requests |-> requests[p]] /\ \A p \in Requests : RequestShape(requests[p])
  BY DEF PersonaInv, PersonaShapes
<1>2. \A p \in Requests : requests'[p] = IF p = r THEN q ELSE requests[p]
  BY <1>1
<1>3. requests' = [p \in Requests |-> requests'[p]]
  BY <1>1
<1>4. \A p \in Requests : RequestShape(requests'[p])
  BY <1>1, <1>2
<1>5. ProfileIsLocked'
  BY <1>2 DEF PersonaInv, ProfileIsLocked, Drawing, IsAt
<1>6. RowsAreDeleted'
  BY <1>2 DEF PersonaInv, RowsAreDeleted, IsAt
<1> QED BY <1>3, <1>4, <1>5, <1>6

\* The types of the rest follow from those of the requests.
LEMMA ShapesAreTyped ==
    ASSUME \A r \in Requests : RequestShape(requests[r])
    PROVE  \A r \in Requests :
             /\ requests[r].kind \in Kinds /\ requests[r].of \subseteq Insight
             /\ requests[r].at \in {"idle", "asked", "locked", "deleted", "reading", "rows",
                                    "answered", "failed"}
BY DEF RequestShape

\* What becomes of the requests when one goes on.
LEMMA RequestGoes ==
    ASSUME PersonaInv, NEW r \in Requests, NEW q, RequestShape(q),
           requests' = [requests EXCEPT ![r] = q]
    PROVE  /\ requests' = [p \in Requests |-> requests'[p]]
           /\ \A p \in Requests : RequestShape(requests'[p])
           /\ \A p \in Requests : requests'[p] = IF p = r THEN q ELSE requests[p]
<1>1. requests = [p \in Requests |-> requests[p]] /\ \A p \in Requests : RequestShape(requests[p])
  BY DEF PersonaInv, PersonaShapes
<1> QED BY <1>1

\* A request that only goes elsewhere keeps its shape, and so does one that is
\* over or is followed by a load.
LEMMA NextRequests ==
    ASSUME PersonaInv, NEW r \in Requests
    PROVE  /\ \A at \in {"idle", "asked", "locked", "deleted", "reading", "rows", "answered",
                         "failed"} :
                /\ RequestShape([requests[r] EXCEPT !.at = at])
                /\ [requests[r] EXCEPT !.at = at].at = at
                /\ [requests[r] EXCEPT !.at = at].kind = requests[r].kind
           /\ RequestShape(Quiet) /\ Quiet.at = "idle"
           /\ RequestShape([Quiet EXCEPT !.kind = "load", !.at = "asked"])
           /\ [Quiet EXCEPT !.kind = "load", !.at = "asked"].at = "asked"
<1>1. RequestShape(requests[r])
  BY DEF PersonaInv, PersonaShapes
<1>2. \A at \in {"idle", "asked", "locked", "deleted", "reading", "rows", "answered", "failed"} :
        /\ RequestShape([requests[r] EXCEPT !.at = at])
        /\ [requests[r] EXCEPT !.at = at].at = at
        /\ [requests[r] EXCEPT !.at = at].kind = requests[r].kind
  BY <1>1 DEF RequestShape
<1>3. RequestShape(Quiet) /\ Quiet.at = "idle"
  BY DEF RequestShape, Quiet, Blank, Kinds, Statuses
<1>4. /\ RequestShape([Quiet EXCEPT !.kind = "load", !.at = "asked"])
      /\ [Quiet EXCEPT !.kind = "load", !.at = "asked"].at = "asked"
  <2>1. PICK q : q = [Quiet EXCEPT !.kind = "load", !.at = "asked"]
    OBVIOUS
  <2>2. /\ q = [kind |-> q.kind, at |-> q.at, of |-> q.of, id |-> q.id, to |-> q.to, found |-> q.found]
        /\ q.kind = "load" /\ q.at = "asked" /\ q.found = Quiet.found /\ q.of = Quiet.of
        /\ q.to = Quiet.to
    BY <2>1 DEF Quiet
  <2>3. RequestShape(q)
    BY <2>2, <1>3 DEF RequestShape, Kinds
  <2> QED BY <2>1, <2>2, <2>3
<1> QED BY <1>2, <1>3, <1>4

\* The steps of an analysis.
LEMMA AnalysisStep ==
    ASSUME PersonaInv, NEW r \in Requests, LockProfile(r) \/ DeleteActive(r) \/ StoreAnalysis(r)
    PROVE  PersonaInv'
<1> USE PersonaAssumption
<1>1. PICK q : /\ RequestShape(q) /\ requests' = [requests EXCEPT ![r] = q]
               /\ LockProfile(r) => IF profile.memory THEN q.at = "locked" ELSE q.at \in {"idle", "reading"}
               /\ DeleteActive(r) => q.at = "deleted" /\ q.kind = requests[r].kind
               /\ StoreAnalysis(r) => q.at \in {"idle", "reading"}
  <2>1. Stored(r) => \E q : /\ RequestShape(q) /\ requests' = [requests EXCEPT ![r] = q]
                            /\ q.at \in {"idle", "reading"}
    <3> SUFFICES ASSUME Stored(r)
                 PROVE  \E q : /\ RequestShape(q) /\ requests' = [requests EXCEPT ![r] = q]
                               /\ q.at \in {"idle", "reading"}
      OBVIOUS
    <3>1. r \in DOMAIN requests
      BY DEF PersonaInv, PersonaShapes
    <3>2. PICK q : q = IF requests[r].kind = "chat" THEN Quiet ELSE [requests[r] EXCEPT !.at = "reading"]
      OBVIOUS
    <3>3. requests' = [requests EXCEPT ![r] = q]
      BY <3>1, <3>2 DEF Stored
    <3>4. RequestShape(q) /\ q.at \in {"idle", "reading"}
      BY <3>2, NextRequests
    <3> QED BY <3>3, <3>4
  <2>2. \A at \in {"locked", "deleted"} :
          Goes(r, at) => \E q : /\ RequestShape(q) /\ requests' = [requests EXCEPT ![r] = q]
                                /\ q.at = at /\ q.kind = requests[r].kind
    <3> SUFFICES ASSUME NEW at \in {"locked", "deleted"}, Goes(r, at)
                 PROVE  \E q : /\ RequestShape(q) /\ requests' = [requests EXCEPT ![r] = q]
                               /\ q.at = at /\ q.kind = requests[r].kind
      OBVIOUS
    <3>1. PICK q : q = [requests[r] EXCEPT !.at = at]
      OBVIOUS
    <3>2. requests' = [requests EXCEPT ![r] = q]
      BY <3>1 DEF Goes
    <3>3. /\ RequestShape([requests[r] EXCEPT !.at = at])
          /\ [requests[r] EXCEPT !.at = at].at = at
          /\ [requests[r] EXCEPT !.at = at].kind = requests[r].kind
      BY NextRequests, ZenonT(60)
    <3> QED BY <3>1, <3>2, <3>3
  <2>3. CASE LockProfile(r)
    <3>1. IF profile.memory THEN Goes(r, "locked") ELSE Stored(r)
      BY <2>3 DEF LockProfile
    <3>2. ~DeleteActive(r) /\ ~StoreAnalysis(r)
      BY <2>3 DEF LockProfile, DeleteActive, StoreAnalysis, IsAt
    <3> QED BY <2>1, <2>2, <3>1, <3>2
  <2>4. CASE DeleteActive(r)
    <3>1. ~LockProfile(r) /\ ~StoreAnalysis(r) /\ Goes(r, "deleted")
      BY <2>4 DEF LockProfile, DeleteActive, StoreAnalysis, IsAt
    <3> QED BY <2>2, <3>1
  <2>5. CASE StoreAnalysis(r)
    <3>1. ~LockProfile(r) /\ ~DeleteActive(r) /\ Stored(r)
      BY <2>5 DEF LockProfile, DeleteActive, StoreAnalysis, IsAt
    <3> QED BY <2>1, <3>1
  <2> QED BY <2>3, <2>4, <2>5
<1>2. /\ requests' = [p \in Requests |-> requests'[p]]
      /\ \A p \in Requests : RequestShape(requests'[p])
      /\ \A p \in Requests : requests'[p] = IF p = r THEN q ELSE requests[p]
  BY <1>1, RequestGoes
<1>3. UNCHANGED <<spoken, center, made>>
  BY DEF LockProfile, DeleteActive, StoreAnalysis
<1>4. PersonaShapes'
  BY <1>2, <1>3 DEF PersonaInv, PersonaShapes
<1>5. profile' \in [memory : BOOLEAN, content : {"empty", "analyzed", "edited"},
                    edited : BOOLEAN, lock : Requests \cup {Nobody}]
  <2>1. profile \in [memory : BOOLEAN, content : {"empty", "analyzed", "edited"},
                     edited : BOOLEAN, lock : Requests \cup {Nobody}]
    BY DEF PersonaInv, PersonaTypeOK
  <2> QED BY <2>1 DEF LockProfile, DeleteActive, StoreAnalysis, MergePersonaProfile
<1>6. insights' \in [Insight -> [status : Statuses, id : 0 .. MaxRequests,
                                 lock : Requests \cup {Nobody}]]
  <2>1. insights \in [Insight -> [status : Statuses, id : 0 .. MaxRequests,
                                  lock : Requests \cup {Nobody}]] /\ made \in 0 .. MaxRequests
    BY DEF PersonaInv, PersonaTypeOK, Statuses
  <2> QED BY <2>1 DEF LockProfile, DeleteActive, StoreAnalysis, Inserted, Unlocked, Absent, Statuses
<1>7. PersonaTypeOK'
  BY <1>2, <1>3, <1>5, <1>6 DEF PersonaInv, PersonaTypeOK, RequestShape, Statuses
<1>8. CASE LockProfile(r)
  <2>1. requests[r].at = "asked" /\ profile.lock = Nobody /\ insights' = insights
    BY <1>8 DEF LockProfile, IsAt
  <2>2. ProfileIsLocked'
    BY <1>8, <2>1, <1>1, <1>2 DEF PersonaInv, PersonaTypeOK, ProfileIsLocked, Drawing, IsAt, LockProfile
  <2>3. RowsAreDeleted'
    BY <2>1, <1>2 DEF PersonaInv, RowsAreDeleted, IsAt
  <2> QED BY <1>4, <1>7, <2>2, <2>3 DEF PersonaInv
<1>9. CASE DeleteActive(r)
  <2>1. IsAt(r, Analysis, "locked") /\ profile' = profile /\ q.at = "deleted" /\ q.kind = requests[r].kind
    BY <1>9, <1>1 DEF DeleteActive
  <2>2. ProfileIsLocked'
    BY <2>1, <1>2 DEF PersonaInv, ProfileIsLocked, Drawing, IsAt
  <2>3. RowsAreDeleted'
    <3>1. \A i \in Insight : insights'[i] = IF insights[i].status = "active"
                                 THEN [insights[i] EXCEPT !.lock = r] ELSE insights[i]
      BY <1>9 DEF DeleteActive
    <3>2. \A i \in Insight : insights[i] \in [status : Statuses, id : 0 .. MaxRequests,
                                              lock : Requests \cup {Nobody}]
      BY DEF PersonaInv, PersonaTypeOK, Statuses
    <3> QED BY <2>1, <3>1, <3>2, <1>2, ZenonT(60) DEF PersonaInv, RowsAreDeleted, IsAt
  <2> QED BY <1>4, <1>7, <2>2, <2>3 DEF PersonaInv
<1>10. CASE StoreAnalysis(r)
  <2>1. IsAt(r, Analysis, "deleted") /\ q.at \in {"idle", "reading"} /\ profile.lock = r
    BY <1>10, <1>1 DEF StoreAnalysis, PersonaInv, ProfileIsLocked, Drawing
  <2>2. ProfileIsLocked'
    <3>1. \A p \in Requests : p # r => ~Drawing(p)
      BY <2>1 DEF PersonaInv, ProfileIsLocked
    <3> QED BY <2>1, <3>1, <1>2 DEF ProfileIsLocked, Drawing, IsAt
  <2>3. RowsAreDeleted'
    <3>1. \A i \in Insight : \/ insights'[i] = insights[i] /\ insights[i].lock # r
                             \/ insights'[i].lock = Nobody
      BY <1>10 DEF StoreAnalysis, Inserted, Unlocked, Absent
    <3> QED BY <2>1, <3>1, <1>2 DEF PersonaInv, RowsAreDeleted, IsAt
  <2> QED BY <1>4, <1>7, <2>2, <2>3 DEF PersonaInv
<1> QED BY <1>8, <1>9, <1>10

\* A reset, and a change of the profile or of one insight.
LEMMA ChangeStep ==
    ASSUME PersonaInv, NEW r \in Requests,
           DeleteRows(r) \/ StoreReset(r) \/ StoreProfile(r) \/ StoreChoice(r)
    PROVE  PersonaInv'
<1> USE PersonaAssumption
<1>1. PICK q : /\ RequestShape(q) /\ requests' = [requests EXCEPT ![r] = q]
               /\ q.kind = requests[r].kind
               /\ DeleteRows(r) => q.at = "deleted" /\ requests[r].kind = "reset"
               /\ ~DeleteRows(r) => q.at \in {"reading", "answered", "failed"}
  <2>1. \A at \in {"deleted", "reading", "answered", "failed"} :
          Goes(r, at) => \E q : /\ RequestShape(q) /\ requests' = [requests EXCEPT ![r] = q]
                                /\ q.at = at /\ q.kind = requests[r].kind
    <3> SUFFICES ASSUME NEW at \in {"deleted", "reading", "answered", "failed"}, Goes(r, at)
                 PROVE  \E q : /\ RequestShape(q) /\ requests' = [requests EXCEPT ![r] = q]
                               /\ q.at = at /\ q.kind = requests[r].kind
      OBVIOUS
    <3>1. PICK q : q = [requests[r] EXCEPT !.at = at]
      OBVIOUS
    <3>2. requests' = [requests EXCEPT ![r] = q]
      BY <3>1 DEF Goes
    <3>3. at \in {"idle", "asked", "locked", "deleted", "reading", "rows", "answered", "failed"}
      OBVIOUS
    <3>4. RequestShape(q) /\ q.at = at /\ q.kind = requests[r].kind
      BY <3>1, <3>3, NextRequests
    <3> QED BY <3>2, <3>4
  <2>2. CASE DeleteRows(r)
    <3>1. Goes(r, "deleted") /\ requests[r].kind = "reset"
      BY <2>2 DEF DeleteRows, IsAt
    <3> QED BY <2>1, <2>2, <3>1
  <2>3. CASE ~DeleteRows(r)
    <3>1. Goes(r, "reading") \/ Goes(r, "answered") \/ Goes(r, "failed")
      BY <2>3 DEF StoreReset, StoreProfile, StoreChoice
    <3> QED BY <2>1, <2>3, <3>1
  <2> QED BY <2>2, <2>3
<1>2. /\ requests' = [p \in Requests |-> requests'[p]]
      /\ \A p \in Requests : RequestShape(requests'[p])
      /\ \A p \in Requests : requests'[p] = IF p = r THEN q ELSE requests[p]
  BY <1>1, RequestGoes
<1>3. UNCHANGED <<spoken, center, made>>
  BY DEF DeleteRows, StoreReset, StoreProfile, StoreChoice
<1>4. PersonaShapes'
  BY <1>2, <1>3 DEF PersonaInv, PersonaShapes
<1>5. profile' \in [memory : BOOLEAN, content : {"empty", "analyzed", "edited"},
                    edited : BOOLEAN, lock : Requests \cup {Nobody}]
  <2>1. /\ profile \in [memory : BOOLEAN, content : {"empty", "analyzed", "edited"},
                        edited : BOOLEAN, lock : Requests \cup {Nobody}]
        /\ requests[r].found.memory \in BOOLEAN
    BY DEF PersonaInv, PersonaTypeOK, PersonaShapes, RequestShape
  <2>2. CASE StoreProfile(r)
    <3>1. PICK m \in BOOLEAN, e \in BOOLEAN : m = requests[r].found.memory /\ e = TRUE
      BY <2>1
    <3>2. profile' = [memory |-> m, content |-> "edited", edited |-> e, lock |-> profile.lock]
      BY <2>1, <2>2, <3>1 DEF StoreProfile
    <3> QED BY <2>1, <3>1, <3>2
  <2>3. CASE StoreReset(r)
    <3>1. PICK m \in BOOLEAN, e \in BOOLEAN : m = TRUE /\ e = FALSE
      OBVIOUS
    <3>2. profile' = [memory |-> m, content |-> "empty", edited |-> e, lock |-> Nobody]
      BY <2>3, <3>1 DEF StoreReset
    <3> QED BY <3>2
  <2>4. CASE DeleteRows(r) \/ StoreChoice(r)
    BY <2>1, <2>4 DEF DeleteRows, StoreChoice
  <2> QED BY <2>2, <2>3, <2>4
<1>6. insights \in [Insight -> [status : Statuses, id : 0 .. MaxRequests,
                                lock : Requests \cup {Nobody}]]
  BY DEF PersonaInv, PersonaTypeOK, Statuses
<1>7. insights' \in [Insight -> [status : Statuses, id : 0 .. MaxRequests,
                                 lock : Requests \cup {Nobody}]]
  <2>1. requests[r].to \in Statuses
    BY DEF PersonaInv, PersonaShapes, RequestShape
  <2>2. CASE StoreChoice(r)
    BY <1>6, <2>1, <2>2 DEF StoreChoice
  <2>3. CASE ~StoreChoice(r)
    BY <1>6, <2>3 DEF DeleteRows, StoreReset, StoreProfile, Unlocked, Absent, Statuses
  <2> QED BY <2>2, <2>3
<1>8. PersonaTypeOK'
  BY <1>2, <1>3, <1>5, <1>7 DEF PersonaInv, PersonaTypeOK, RequestShape, Statuses
<1>9. ~Drawing(r) /\ \A p \in Requests : ~DeleteRows(r) /\ Drawing(p) => profile'.lock = profile.lock /\ profile'.memory = profile.memory
  <2>1. ~Drawing(r)
    BY DEF Drawing, IsAt, Analysis, DeleteRows, StoreReset, StoreProfile, StoreChoice
  <2>2. StoreReset(r) \/ StoreProfile(r) => \A p \in Requests : ~Drawing(p)
    BY DEF PersonaInv, ProfileIsLocked, StoreReset, StoreProfile
  <2>3. StoreChoice(r) => profile' = profile
    BY DEF StoreChoice
  <2> QED BY <2>1, <2>2, <2>3
<1>10. DeleteRows(r) => profile' = profile
  BY DEF DeleteRows
<1>11. ProfileIsLocked'
  BY <1>1, <1>2, <1>9, <1>10 DEF PersonaInv, ProfileIsLocked, Drawing, IsAt, Analysis
<1>12. \A i \in Insight :
         \/ insights'[i].lock = Nobody
         \/ insights'[i] = insights[i] /\ (StoreReset(r) => insights[i].lock # r)
         \/ DeleteRows(r) /\ insights'[i].lock = r
  <2>1. CASE StoreChoice(r)
    BY <1>6, <2>1 DEF StoreChoice, StoreReset, IsAt
  <2>2. CASE DeleteRows(r) \/ StoreReset(r) \/ StoreProfile(r)
    BY <1>6, <2>2 DEF DeleteRows, StoreReset, StoreProfile, Unlocked, Absent, IsAt
  <2> QED BY <2>1, <2>2
<1>13. RowsAreDeleted'
  <2> SUFFICES ASSUME NEW i \in Insight, NEW p \in Requests, insights'[i].lock = p
               PROVE  /\ IsAt(p, Analysis \cup {"reset"}, "deleted")'
                      /\ requests'[p].kind \in Analysis => insights'[i].status = "active"
    BY DEF RowsAreDeleted
  <2>1. CASE DeleteRows(r) /\ p = r
    BY <2>1, <1>1, <1>2 DEF IsAt, Analysis
  <2>2. CASE ~(DeleteRows(r) /\ p = r)
    <3>1. insights'[i] = insights[i] /\ (StoreReset(r) => p # r)
      BY <2>2, <1>12
    <3>2. /\ IsAt(p, Analysis \cup {"reset"}, "deleted")
          /\ requests[p].kind \in Analysis => insights[i].status = "active"
      BY <3>1 DEF PersonaInv, RowsAreDeleted
    <3>3. p # r
      BY <2>2, <3>1, <3>2 DEF IsAt, DeleteRows, StoreProfile, StoreChoice
    <3> QED BY <3>1, <3>2, <3>3, <1>2 DEF IsAt
  <2> QED BY <2>1, <2>2
<1> QED BY <1>4, <1>8, <1>11, <1>13 DEF PersonaInv

\* The two reads of a center.
LEMMA ReadStep ==
    ASSUME PersonaInv, NEW r \in Requests, ReadMemory(r) \/ ReadRows(r)
    PROVE  PersonaInv'
<1>1. /\ RequestShape(requests[r]) /\ r \in DOMAIN requests
      /\ profile.memory \in BOOLEAN /\ UNCHANGED <<spoken, profile, insights, center, made>>
  BY DEF PersonaInv, PersonaTypeOK, PersonaShapes, ReadMemory, ReadRows
<1>2. requests[r].at \notin {"locked", "deleted"}
  BY DEF ReadMemory, ReadRows, IsAt
<1>3. PICK q : /\ RequestShape(q) /\ requests' = [requests EXCEPT ![r] = q]
               /\ q.at \in {"rows", "answered"}
  <2>1. CASE ReadMemory(r)
    <3>1. PICK q : q = [requests[r] EXCEPT !.found = [Blank EXCEPT !.memory = profile.memory],
                                           !.at = IF profile.memory THEN "rows" ELSE "answered"]
      OBVIOUS
    <3>2. requests' = [requests EXCEPT ![r] = q]
      BY <1>1, <2>1, <3>1 DEF ReadMemory
    <3>3. /\ q.kind = requests[r].kind /\ q.of = requests[r].of /\ q.to = requests[r].to
          /\ q.at \in {"rows", "answered"} /\ q.found = [Blank EXCEPT !.memory = profile.memory]
          /\ q = [kind |-> q.kind, at |-> q.at, of |-> q.of, id |-> q.id, to |-> q.to,
                  found |-> q.found]
      BY <1>1, <3>1 DEF RequestShape
    <3>4. q.found = [memory |-> q.found.memory, rows |-> q.found.rows] /\ q.found.memory \in BOOLEAN
      BY <1>1, <3>3 DEF Blank
    <3>5. RequestShape(q)
      BY <1>1, <3>3, <3>4 DEF RequestShape
    <3> QED BY <3>2, <3>3, <3>5
  <2>2. CASE ReadRows(r)
    <3>1. PICK rows : rows = [i \in Insight |-> IF insights[i].status = "rejected" THEN Absent
                                                ELSE [insights[i] EXCEPT !.lock = Nobody]]
      OBVIOUS
    <3>2. PICK q : q = [requests[r] EXCEPT !.found.rows = rows, !.at = "answered"]
      OBVIOUS
    <3>3. requests' = [requests EXCEPT ![r] = q]
      BY <1>1, <2>2, <3>1, <3>2 DEF ReadRows
    <3>4. /\ q.kind = requests[r].kind /\ q.of = requests[r].of /\ q.to = requests[r].to
          /\ q.at = "answered" /\ q.found = [requests[r].found EXCEPT !.rows = rows]
          /\ q = [kind |-> q.kind, at |-> q.at, of |-> q.of, id |-> q.id, to |-> q.to,
                  found |-> q.found]
      BY <1>1, <3>2 DEF RequestShape
    <3>5. q.found = [memory |-> q.found.memory, rows |-> q.found.rows] /\ q.found.memory \in BOOLEAN
      BY <1>1, <3>4 DEF RequestShape
    <3>6. RequestShape(q)
      BY <1>1, <3>4, <3>5 DEF RequestShape
    <3> QED BY <3>3, <3>4, <3>6
  <2> QED BY <2>1, <2>2
<1>4. /\ requests' = [p \in Requests |-> requests'[p]]
      /\ \A p \in Requests : RequestShape(requests'[p])
      /\ ProfileIsLocked' /\ RowsAreDeleted'
  BY <1>1, <1>2, <1>3, RequestMoves
<1>5. PersonaTypeOK'
  BY <1>1, <1>4 DEF PersonaInv, PersonaTypeOK, RequestShape
<1>6. PersonaShapes'
  BY <1>1, <1>4 DEF PersonaInv, PersonaShapes
<1> QED BY <1>4, <1>5, <1>6 DEF PersonaInv

\* A request that fails, whatever it had locked.
LEMMA FailureRolledBack ==
    ASSUME PersonaInv, NEW r \in Requests, RequestFails(r)
    PROVE  PersonaInv'
<1> USE PersonaAssumption
<1>1. PICK q : RequestShape(q) /\ requests' = [requests EXCEPT ![r] = q] /\ q.at \in {"idle", "asked"}
  <2>1. r \in DOMAIN requests
    BY DEF PersonaInv, PersonaShapes
  <2>2. PICK q : q = IF requests[r].kind = "choose" THEN [Quiet EXCEPT !.kind = "load", !.at = "asked"]
                     ELSE Quiet
    OBVIOUS
  <2>3. requests' = [requests EXCEPT ![r] = q]
    BY <2>1, <2>2 DEF RequestFails
  <2>4. RequestShape(q) /\ q.at \in {"idle", "asked"}
    BY <2>2, NextRequests
  <2> QED BY <2>3, <2>4
<1>2. /\ requests' = [p \in Requests |-> requests'[p]]
      /\ \A p \in Requests : RequestShape(requests'[p])
      /\ \A p \in Requests : requests'[p] = IF p = r THEN q ELSE requests[p]
  BY <1>1, RequestGoes
<1>3. UNCHANGED <<spoken, made>>
  BY DEF RequestFails
<1>4. /\ center' = [open |-> center'.open, shown |-> center'.shown, form |-> center'.form,
                    loading |-> center'.loading, saving |-> center'.saving,
                    analyzing |-> center'.analyzing]
      /\ center'.shown = center.shown /\ center'.form = center.form /\ center'.open = center.open
      /\ center'.loading \in BOOLEAN /\ center'.saving \in BOOLEAN /\ center'.analyzing \in BOOLEAN
  <2>1. PICK l \in BOOLEAN, s \in BOOLEAN, a \in BOOLEAN :
          /\ l = ((center.loading /\ requests[r].kind # "load") \/ requests[r].kind = "choose")
          /\ s = (center.saving /\ requests[r].kind \notin {"save", "reset"})
          /\ a = (center.analyzing /\ requests[r].kind # "analyze")
    OBVIOUS
  <2>2. center' = [center EXCEPT !.loading = l, !.saving = s, !.analyzing = a]
    BY <2>1 DEF RequestFails, PersonaInv, PersonaShapes
  <2> QED BY <2>2 DEF PersonaInv, PersonaShapes
<1>5. PersonaShapes'
  BY <1>2, <1>4 DEF PersonaInv, PersonaShapes
<1>6. /\ profile \in [memory : BOOLEAN, content : {"empty", "analyzed", "edited"},
                      edited : BOOLEAN, lock : Requests \cup {Nobody}]
      /\ insights \in [Insight -> [status : Statuses, id : 0 .. MaxRequests,
                                   lock : Requests \cup {Nobody}]]
  BY DEF PersonaInv, PersonaTypeOK, Statuses
<1>7. PICK lock \in Requests \cup {Nobody} :
        profile' = [profile EXCEPT !.lock = lock] /\ (profile.lock = r \/ lock = profile.lock)
  BY <1>6 DEF RequestFails
<1>8. \A i \in Insight : \/ insights'[i] = insights[i] /\ insights[i].lock # r
                         \/ insights'[i].lock = Nobody
  BY <1>6 DEF RequestFails
<1>9. PersonaTypeOK'
  <2>1. profile' \in [memory : BOOLEAN, content : {"empty", "analyzed", "edited"},
                      edited : BOOLEAN, lock : Requests \cup {Nobody}]
    BY <1>6, <1>7
  <2>2. insights' \in [Insight -> [status : Statuses, id : 0 .. MaxRequests,
                                   lock : Requests \cup {Nobody}]]
    BY <1>6 DEF RequestFails
  <2> QED BY <1>2, <1>3, <1>4, <2>1, <2>2 DEF PersonaInv, PersonaTypeOK, RequestShape, Statuses
<1>10. ProfileIsLocked'
  <2> SUFFICES ASSUME NEW p \in Requests, Drawing(p)' PROVE profile'.lock = p /\ profile'.memory
    BY DEF ProfileIsLocked
  <2>1. p # r /\ Drawing(p)
    BY <1>1, <1>2 DEF Drawing, IsAt
  <2>2. profile.lock = p /\ profile.memory
    BY <2>1 DEF PersonaInv, ProfileIsLocked
  <2> QED BY <1>6, <1>7, <2>1, <2>2
<1>11. RowsAreDeleted'
  BY <1>1, <1>2, <1>8 DEF PersonaInv, RowsAreDeleted, IsAt
<1> QED BY <1>5, <1>9, <1>10, <1>11 DEF PersonaInv

\* A request that is asked has the shape of one.
LEMMA AskedShape ==
    ASSUME PersonaInv, NEW r \in Requests, NEW q, RequestShape(q), Ask(r, q)
    PROVE  /\ requests' = [p \in Requests |-> requests'[p]]
           /\ \A p \in Requests : RequestShape(requests'[p])
           /\ ProfileIsLocked' /\ RowsAreDeleted'
           /\ UNCHANGED <<profile, insights>> /\ made' \in 0 .. MaxRequests
<1>1. PICK a : a = [q EXCEPT !.at = "asked"]
  OBVIOUS
<1>2. RequestShape(a) /\ a.at = "asked"
  BY <1>1 DEF RequestShape
<1>3. requests' = [requests EXCEPT ![r] = a] /\ UNCHANGED <<profile, insights>>
  BY <1>1 DEF Ask
<1>4. requests[r].at # "deleted" \/ \A i \in Insight : insights[i].lock # r
  BY DEF Ask, PersonaInv, RowsAreDeleted, IsAt, Analysis
<1>5. /\ requests' = [p \in Requests |-> requests'[p]]
      /\ \A p \in Requests : RequestShape(requests'[p])
      /\ \A p \in Requests : requests'[p] = IF p = r THEN a ELSE requests[p]
  BY <1>2, <1>3, RequestGoes
<1>6. ProfileIsLocked'
  BY <1>2, <1>3, <1>5 DEF PersonaInv, ProfileIsLocked, Drawing, IsAt
<1>7. RowsAreDeleted'
  BY <1>2, <1>3, <1>4, <1>5 DEF PersonaInv, RowsAreDeleted, IsAt
<1>8. made' \in 0 .. MaxRequests
  BY PersonaAssumption DEF Ask, PersonaInv, PersonaTypeOK
<1> QED BY <1>3, <1>5, <1>6, <1>7, <1>8

\* What the page asks for has the shape of a request.
LEMMA PageRequests ==
    ASSUME PersonaInv
    PROVE  /\ \A kind \in Kinds : RequestShape([Quiet EXCEPT !.kind = kind])
           /\ RequestShape([Quiet EXCEPT !.kind = "save", !.found.memory = center.form])
           /\ \A id : \A kind \in Kinds, i \in Insight, status \in Statuses :
                RequestShape([Quiet EXCEPT !.kind = kind, !.of = {i}, !.id = id, !.to = status])
<1>1. /\ RequestShape(Quiet) /\ center.form \in BOOLEAN
      /\ Quiet = [kind |-> "none", at |-> "idle", of |-> {}, id |-> 0, to |-> "none", found |-> Blank]
  BY DEF PersonaInv, PersonaTypeOK, RequestShape, Quiet, Blank, Kinds, Statuses
<1>2. \A kind \in Kinds : RequestShape([Quiet EXCEPT !.kind = kind])
  <2> SUFFICES ASSUME NEW kind \in Kinds PROVE RequestShape([Quiet EXCEPT !.kind = kind])
    OBVIOUS
  <2>1. PICK q : q = [Quiet EXCEPT !.kind = kind]
    OBVIOUS
  <2> QED BY <1>1, <2>1 DEF RequestShape
<1>3. RequestShape([Quiet EXCEPT !.kind = "save", !.found.memory = center.form])
  <2>1. PICK q : q = [Quiet EXCEPT !.kind = "save", !.found.memory = center.form]
    OBVIOUS
  <2>2. /\ q = [kind |-> q.kind, at |-> q.at, of |-> q.of, id |-> q.id, to |-> q.to,
                found |-> q.found]
        /\ q.kind = "save" /\ q.at = Quiet.at /\ q.of = Quiet.of /\ q.to = Quiet.to
        /\ q.found = [Blank EXCEPT !.memory = center.form]
    BY <1>1, <2>1
  <2>3. q.found = [memory |-> q.found.memory, rows |-> q.found.rows] /\ q.found.memory \in BOOLEAN
    BY <1>1, <2>2 DEF Blank
  <2>4. RequestShape(q)
    BY <1>1, <2>2, <2>3 DEF RequestShape, Kinds
  <2> QED BY <2>1, <2>4
<1>4. \A id : \A kind \in Kinds, i \in Insight, status \in Statuses :
        RequestShape([Quiet EXCEPT !.kind = kind, !.of = {i}, !.id = id, !.to = status])
  <2> SUFFICES ASSUME NEW kind \in Kinds, NEW i \in Insight, NEW status \in Statuses, NEW id
               PROVE  RequestShape([Quiet EXCEPT !.kind = kind, !.of = {i}, !.id = id, !.to = status])
    OBVIOUS
  <2>1. PICK q : q = [Quiet EXCEPT !.kind = kind, !.of = {i}, !.id = id, !.to = status]
    OBVIOUS
  <2>2. /\ q = [kind |-> q.kind, at |-> q.at, of |-> q.of, id |-> q.id, to |-> q.to,
                found |-> q.found]
        /\ q.kind = kind /\ q.at = Quiet.at /\ q.of = {i} /\ q.to = status
        /\ q.found = Quiet.found
    BY <1>1, <2>1
  <2>3. RequestShape(q)
    BY <1>1, <2>2 DEF RequestShape
  <2> QED BY <2>1, <2>3
<1> QED BY <1>2, <1>3, <1>4

\* The page after a step.
CenterShape(c) ==
    /\ c = [open |-> c.open, shown |-> c.shown, form |-> c.form, loading |-> c.loading,
            saving |-> c.saving, analyzing |-> c.analyzing]
    /\ c.shown = [memory |-> c.shown.memory, rows |-> c.shown.rows]
    /\ c.open \in BOOLEAN /\ c.form \in BOOLEAN /\ c.loading \in BOOLEAN
    /\ c.saving \in BOOLEAN /\ c.analyzing \in BOOLEAN

\* A step of the page that asks for something.
LEMMA PageStep ==
    ASSUME PersonaInv, NEW r \in Requests,
           \/ SendQuestion(r) \/ OpenPage(r) \/ RefreshInsights(r) \/ SaveProfile(r)
           \/ ResetProfile(r) \/ SetStatus(r) \/ RestoreOrDelete(r)
    PROVE  PersonaInv'
<1>1. PICK q : RequestShape(q) /\ Ask(r, q)
  <2>1. {"chat", "load", "analyze", "reset", "choose", "restore"} \subseteq Kinds
        /\ {"accepted", "hidden", "active", "rejected"} \subseteq Statuses
    BY DEF Kinds, Statuses, Chosen
  <2>2. CASE SendQuestion(r) \/ OpenPage(r) \/ RefreshInsights(r) \/ ResetProfile(r)
    <3>1. \E kind \in Kinds : Ask(r, [Quiet EXCEPT !.kind = kind])
      BY <2>1, <2>2 DEF SendQuestion, OpenPage, RefreshInsights, ResetProfile
    <3> QED BY <3>1, PageRequests
  <2>3. CASE SaveProfile(r)
    BY <2>3, PageRequests DEF SaveProfile
  <2>4. CASE SetStatus(r)
    <3>1. PICK i \in Insight, status \in {"accepted", "hidden"} :
            Ask(r, [Quiet EXCEPT !.kind = "choose", !.of = {i}, !.id = center.shown.rows[i].id,
                                 !.to = status])
      BY <2>4 DEF SetStatus
    <3>2. RequestShape([Quiet EXCEPT !.kind = "choose", !.of = {i}, !.id = center.shown.rows[i].id,
                                     !.to = status])
      BY <2>1, PageRequests
    <3> QED BY <3>1, <3>2
  <2>5. CASE RestoreOrDelete(r)
    <3>1. PICK i \in Insight, status \in {"active", "rejected"} :
            Ask(r, [Quiet EXCEPT !.kind = "restore", !.of = {i}, !.id = center.shown.rows[i].id,
                                 !.to = status])
      BY <2>5 DEF RestoreOrDelete
    <3>2. RequestShape([Quiet EXCEPT !.kind = "restore", !.of = {i}, !.id = center.shown.rows[i].id,
                                     !.to = status])
      BY <2>1, PageRequests
    <3> QED BY <3>1, <3>2
  <2> QED BY <2>2, <2>3, <2>4, <2>5
<1>2. /\ requests' = [p \in Requests |-> requests'[p]]
      /\ \A p \in Requests : RequestShape(requests'[p])
      /\ ProfileIsLocked' /\ RowsAreDeleted'
      /\ UNCHANGED <<profile, insights>> /\ made' \in 0 .. MaxRequests
  BY <1>1, AskedShape
<1>3. CenterShape(center)
  BY DEF CenterShape, PersonaInv, PersonaShapes, PersonaTypeOK
<1>4. CenterShape(center')
  <2>1. CASE SendQuestion(r) \/ RestoreOrDelete(r)
    BY <1>3, <2>1 DEF SendQuestion, RestoreOrDelete
  <2>2. CASE OpenPage(r) \/ RefreshInsights(r) \/ SaveProfile(r) \/ ResetProfile(r)
    BY <1>3, <2>2 DEF OpenPage, RefreshInsights, SaveProfile, ResetProfile, CenterShape
  <2>3. CASE SetStatus(r)
    <3>1. PICK rows : center' = [center EXCEPT !.shown.rows = rows]
      <4>1. \E i \in Insight, status \in {"accepted", "hidden"} :
              center' = [center EXCEPT !.shown.rows[i] =
                IF status = "hidden" THEN Absent
                ELSE [center.shown.rows[i] EXCEPT !.status = status]]
        BY <2>3 DEF SetStatus
      <4> QED BY <4>1
    <3>2. /\ center'.shown = [center.shown EXCEPT !.rows = rows]
          /\ center' = [open |-> center.open, shown |-> center'.shown, form |-> center.form,
                        loading |-> center.loading, saving |-> center.saving,
                        analyzing |-> center.analyzing]
      BY <1>3, <3>1 DEF CenterShape
    <3>3. center'.shown = [memory |-> center'.shown.memory, rows |-> center'.shown.rows]
      BY <1>3, <3>2 DEF CenterShape
    <3> QED BY <1>3, <3>2, <3>3 DEF CenterShape
  <2> QED BY <2>1, <2>2, <2>3
<1>5. spoken' \in [Insight -> 0 .. MinTopicEvidence]
  <2>1. spoken \in [Insight -> 0 .. MinTopicEvidence]
    BY DEF PersonaInv, PersonaTypeOK
  <2>2. CASE SendQuestion(r)
    BY <2>1, <2>2 DEF SendQuestion, MinTopicEvidence
  <2>3. CASE ~SendQuestion(r)
    BY <2>1, <2>3 DEF OpenPage, RefreshInsights, SaveProfile, ResetProfile, SetStatus, RestoreOrDelete
  <2> QED BY <2>2, <2>3
<1>6. PersonaTypeOK'
  BY <1>2, <1>4, <1>5 DEF PersonaInv, PersonaTypeOK, RequestShape, CenterShape
<1>7. PersonaShapes'
  BY <1>2, <1>4 DEF PersonaShapes, CenterShape
<1> QED BY <1>2, <1>6, <1>7 DEF PersonaInv

\* An answer that reaches the page.
LEMMA AnswerStep ==
    ASSUME PersonaInv, NEW r \in Requests, TakeAnswer(r)
    PROVE  PersonaInv'
<1>1. requests[r].at = "answered" /\ UNCHANGED <<spoken, profile, insights, made>>
  BY DEF TakeAnswer
<1>2. PICK q : RequestShape(q) /\ requests' = [requests EXCEPT ![r] = q] /\ q.at \in {"idle", "asked"}
  <2>1. r \in DOMAIN requests
    BY DEF PersonaInv, PersonaShapes
  <2>2. PICK q : q = IF requests[r].kind = "restore" THEN [Quiet EXCEPT !.kind = "load", !.at = "asked"]
                     ELSE Quiet
    OBVIOUS
  <2>3. requests' = [requests EXCEPT ![r] = q]
    BY <2>1, <2>2 DEF TakeAnswer
  <2>4. RequestShape(q) /\ q.at \in {"idle", "asked"}
    BY <2>2, NextRequests
  <2> QED BY <2>3, <2>4
<1>3. /\ requests' = [p \in Requests |-> requests'[p]]
      /\ \A p \in Requests : RequestShape(requests'[p])
      /\ ProfileIsLocked' /\ RowsAreDeleted'
  BY <1>1, <1>2, RequestMoves
<1>4. CenterShape(center) /\ RequestShape(requests[r])
  BY DEF CenterShape, PersonaInv, PersonaShapes, PersonaTypeOK
<1>5. CenterShape(center')
  <2>1. CASE requests[r].kind = "save"
    <3>1. PICK shown : shown = ApplySavedProfile(center.shown, requests[r].found.memory)
      OBVIOUS
    <3>2. shown = [memory |-> shown.memory, rows |-> shown.rows]
      BY <1>4, <3>1 DEF ApplySavedProfile, CenterShape, Blank
    <3>3. center' = [center EXCEPT !.shown = shown, !.form = requests[r].found.memory, !.saving = FALSE]
      BY <2>1, <3>1, <1>4 DEF TakeAnswer, CenterShape
    <3> QED BY <1>4, <3>2, <3>3 DEF CenterShape, RequestShape
  <2>2. CASE requests[r].kind \in {"load", "analyze", "reset"}
    <3>1. PICK l \in BOOLEAN, a \in BOOLEAN, s \in BOOLEAN :
            /\ l = (center.loading /\ requests[r].kind # "load")
            /\ a = (center.analyzing /\ requests[r].kind # "analyze")
            /\ s = (center.saving /\ requests[r].kind # "reset")
      OBVIOUS
    <3>2. center' = [center EXCEPT !.shown = requests[r].found, !.form = requests[r].found.memory,
                                   !.loading = l, !.analyzing = a, !.saving = s]
      BY <1>4, <2>2, <3>1 DEF TakeAnswer, CenterShape
    <3> QED BY <1>4, <3>2 DEF CenterShape, RequestShape
  <2>3. CASE requests[r].kind = "restore"
    <3>1. center' = [center EXCEPT !.loading = TRUE]
      BY <2>3 DEF TakeAnswer
    <3> QED BY <1>4, <3>1 DEF CenterShape
  <2>4. CASE requests[r].kind \notin {"save", "load", "analyze", "reset", "restore"}
    <3>1. center' = center
      BY <2>4 DEF TakeAnswer
    <3> QED BY <1>4, <3>1
  <2> QED BY <2>1, <2>2, <2>3, <2>4
<1>6. PersonaTypeOK'
  BY <1>1, <1>3, <1>5 DEF PersonaInv, PersonaTypeOK, RequestShape, CenterShape
<1>7. PersonaShapes'
  BY <1>3, <1>5 DEF PersonaShapes, CenterShape
<1> QED BY <1>3, <1>6, <1>7 DEF PersonaInv

\* Every step preserves the invariant.
LEMMA PersonaGoesOn == PersonaInv /\ [PersonaNext]_personaVars => PersonaInv'
<1> SUFFICES ASSUME PersonaInv, [PersonaNext]_personaVars PROVE PersonaInv'
  OBVIOUS
<1>1. CASE UNCHANGED personaVars
  BY <1>1 DEF personaVars, PersonaInv, PersonaTypeOK, PersonaShapes, RequestShape, ProfileIsLocked,
              RowsAreDeleted, Drawing, IsAt
<1>2. CASE ToggleForm
  <2>1. CenterShape(center) /\ center' = [center EXCEPT !.form = ~@]
        /\ UNCHANGED <<spoken, profile, insights, requests, made>>
    BY <1>2 DEF ToggleForm, CenterShape, PersonaInv, PersonaShapes, PersonaTypeOK
  <2>2. PICK form \in BOOLEAN : form = ~center.form
    OBVIOUS
  <2>3. center' = [center EXCEPT !.form = form]
    BY <2>1, <2>2 DEF CenterShape
  <2>4. CenterShape(center')
    BY <2>1, <2>3 DEF CenterShape
  <2>5. PersonaTypeOK' /\ PersonaShapes'
    BY <2>1, <2>4 DEF CenterShape, PersonaInv, PersonaShapes, PersonaTypeOK, RequestShape
  <2>6. ProfileIsLocked' /\ RowsAreDeleted'
    BY <2>1 DEF PersonaInv, ProfileIsLocked, RowsAreDeleted, Drawing, IsAt
  <2> QED BY <2>5, <2>6 DEF PersonaInv
<1> QED BY <1>1, <1>2, AnalysisStep, ChangeStep, ReadStep, FailureRolledBack, PageStep, AnswerStep
        DEF PersonaNext

\* A step in which an analysis ends with a change of the insights is the one
\* that stores it, or a failure that undoes what it had deleted.
LEMMA StepsYield ==
    PersonaInv /\ [PersonaNext]_personaVars =>
      [\A r \in Requests : Analyzes(r) =>
         /\ profile.memory
         /\ profile.edited => profile'.content = profile.content
         /\ \A i \in Insight : insights[i].status \in Chosen => insights'[i].status = insights[i].status
      ]_personaVars
<1> SUFFICES ASSUME PersonaInv, PersonaNext, NEW r \in Requests, Analyzes(r)
             PROVE  /\ profile.memory
                    /\ profile.edited => profile'.content = profile.content
                    /\ \A i \in Insight : insights[i].status \in Chosen =>
                         insights'[i].status = insights[i].status
  BY DEF personaVars
<1> USE PersonaAssumption
<1>1. /\ IsAt(r, Analysis, "deleted") /\ insights' # insights
      /\ requests'[r].at \in {"idle", "reading"}
  BY DEF Analyzes
<1>2. profile.memory /\ profile.lock = r
  BY <1>1 DEF PersonaInv, ProfileIsLocked, Drawing
<1>3. \A i \in Insight : insights[i].lock = r => insights[i].status = "active"
  BY <1>1 DEF PersonaInv, RowsAreDeleted, IsAt
<1>4. /\ \A i \in Insight : insights[i] \in [status : Statuses, id : 0 .. MaxRequests,
                                             lock : Requests \cup {Nobody}]
      /\ profile \in [memory : BOOLEAN, content : {"empty", "analyzed", "edited"},
                      edited : BOOLEAN, lock : Requests \cup {Nobody}]
      /\ insights \in [Insight -> [status : Statuses, id : 0 .. MaxRequests,
                                   lock : Requests \cup {Nobody}]]
  BY DEF PersonaInv, PersonaTypeOK, Statuses
<1>5. StoreAnalysis(r) \/ RequestFails(r)
  <2>1. PICK p \in Requests : \/ LockProfile(p) \/ DeleteActive(p) \/ StoreAnalysis(p) \/ DeleteRows(p)
                              \/ StoreReset(p) \/ StoreChoice(p) \/ RequestFails(p)
    BY <1>1 DEF PersonaNext, ToggleForm, StoreProfile, ReadMemory, ReadRows, SendQuestion, OpenPage,
                RefreshInsights, SaveProfile, ResetProfile, SetStatus, RestoreOrDelete, TakeAnswer, Ask
  <2>2. r \in DOMAIN requests /\ \A p2 \in Requests : p2 \in DOMAIN requests
    BY DEF PersonaInv, PersonaShapes
  <2>3. requests'[r] # requests[r]
    BY <1>1 DEF IsAt
  <2>4. p = r
    BY <2>1, <2>2, <2>3 DEF LockProfile, DeleteActive, StoreAnalysis, DeleteRows, StoreReset,
                            StoreChoice, RequestFails, Goes, Stored
  <2> QED BY <2>1, <2>4, <1>1 DEF LockProfile, DeleteActive, DeleteRows, StoreReset, StoreChoice, IsAt,
                                  Analysis
<1>6. CASE StoreAnalysis(r)
  <2>1. profile.edited => profile'.content = profile.content
    BY <1>4, <1>6 DEF StoreAnalysis, MergePersonaProfile
  <2>2. ASSUME NEW i \in Insight, insights[i].status \in Chosen
        PROVE  insights'[i].status = insights[i].status
    <3>1. insights[i].lock # r /\ insights[i].status # "none"
      BY <1>3, <2>2 DEF Chosen
    <3>2. insights'[i] = insights[i]
      BY <1>6, <3>1 DEF StoreAnalysis, Inserted, Unlocked
    <3> QED BY <3>2
  <2> QED BY <1>2, <2>1, <2>2
<1>7. CASE RequestFails(r)
  BY <1>2, <1>4, <1>7 DEF RequestFails
<1> QED BY <1>5, <1>6, <1>7

\* An analysis yields to the user, for every number of insights and requests.
THEOREM AnalysesYield == PersonaSpec => AnalysisYields
<1>1. PersonaInv => PersonaTypeOK
  BY DEF PersonaInv
<1> QED BY <1>1, PersonaStarts, PersonaGoesOn, StepsYield, PTL DEF PersonaSpec, AnalysisYields

-----------------------------------------------------------------------------
(* The retrieval cache: cached evidence is current and answers are fresh, for *)
(* every number of requests, files and versions. The idea: evidence that is   *)
(* kept under a scope was found after the versions of the scope were read, and*)
(* what it was found in changes only together with the versions.              *)


\* The files serve no generation that no version belongs to.
GenerationsFollow == \A d \in Doc : active[d] <= version

\* A scope is read after the request has begun, knowledge version first.
ScopesInOrder ==
    \A r \in Request :
        /\ req[r].at \in {"idle", "scope", "index"} => req[r].scope = NoScope /\ req[r].docs = {}
        /\ req[r].at \in {"look1", "look2", "verify", "copy"} => req[r].scope # NoScope
        /\ req[r].at = "index" => req[r].know \in Version
        /\ req[r].know <= version

\* What a request may show is not more than what the files serve.
BasesArePast ==
    \A r \in Request : req[r].at # "idle" =>
        \A d \in Doc : row[d] # "gone" => req[r].base[d] <= active[d]

\* Evidence of what the files serve now; of a file whose cleanup has bumped the
\* version it was found late.
Current(docs) ==
    \A d \in Doc, g \in Generation : <<d, g>> \in docs =>
        /\ g = active[d]
        /\ row[d] \in {"cleaned", "gone"} => d \in lateFound

\* Evidence that a request may show.
Fresh(r, docs) ==
    \A d \in Doc, g \in Generation :
        <<d, g>> \in docs => g >= req[r].base[d] \/ d \in lateFound

\* A scope that a request has read, or may still read.
Reachable(r, s) ==
    \/ req[r].at = "scope" /\ s[1] >= version
    \/ req[r].at = "index" /\ s[1] >= req[r].know
    \/ req[r].scope # NoScope /\ s[1] >= req[r].scope[1]

\* Evidence that may be kept under a scope: while the versions are those of the
\* scope it is current, and every request that reaches the scope may show it.
Good(s, docs) ==
    /\ s[1] <= s[2] /\ s[2] <= version
    /\ s = <<version, version>> => Current(docs)
    /\ \A r \in Request : Reachable(r, s) => Fresh(r, docs)

EntriesAreGood == \A e \in l1 \cup l2 : Good(e.scope, e.docs)
RequestsAreGood ==
    \A r \in Request :
        /\ req[r].scope # NoScope => Good(req[r].scope, req[r].docs)
        /\ Fresh(r, req[r].docs)

CacheInv ==
    /\ CacheTypeOK /\ GenerationsFollow /\ ScopesInOrder /\ BasesArePast
    /\ EntriesAreGood /\ RequestsAreGood
-----------------------------------------------------------------------------
USE CacheAssumption DEF Version, Generation, At

\* The initial states satisfy the invariant.
LEMMA InitCacheInv == CacheInit => CacheInv
<1> SUFFICES ASSUME CacheInit PROVE CacheInv
  OBVIOUS
<1> USE DEF CacheInit, Unasked, NoScope
<1>1. CacheTypeOK
  BY DEF CacheTypeOK, Evidence, Retrieval
<1>2. GenerationsFollow /\ ScopesInOrder /\ BasesArePast
  BY DEF GenerationsFollow, ScopesInOrder, BasesArePast
<1>3. EntriesAreGood /\ RequestsAreGood
  BY DEF EntriesAreGood, RequestsAreGood, Fresh
<1> QED BY <1>1, <1>2, <1>3 DEF CacheInv

\* A retrieval finds what the files serve, of files that have not gone.
LEMMA FoundIsServed ==
    ASSUME NEW o \in Outcomes, NEW p \in o.docs
    PROVE  \E d \in Doc : p = <<d, active[d]>> /\ active[d] # 0 /\ row[d] # "gone"
<1>1. ASSUME NEW l, NEW docs \in SUBSET Present, NEW q \in Found(docs, l)
      PROVE  \E x \in Present : q = <<x, active[x]>>
  BY DEF Found
<1>2. \A l : Indexed(l) \subseteq Present
  BY DEF Indexed
<1>3. ASSUME NEW v \in VectorLane, NEW q \in v.docs PROVE \E x \in Present : q = <<x, active[x]>>
  BY <1>1, <1>2 DEF VectorLane, Result
<1>4. ASSUME NEW k \in KeywordLane, NEW q \in k.docs PROVE \E x \in Present : q = <<x, active[x]>>
  BY <1>1, <1>2 DEF KeywordLane, Hits, TextSearch, Result
<1>5. PICK v \in VectorLane, k \in KeywordLane : o.docs = v.docs \cup k.docs
  BY DEF Outcomes, Result
<1> QED BY <1>3, <1>4, <1>5 DEF Present

\* What the actions make of a request is a request.
LEMMA RetrievalRows ==
    ASSUME NEW x \in Retrieval
    PROVE  /\ \A at \in {"retrieve", "look2", "retry", "store", "copy", "reply", "verify"} :
                [x EXCEPT !.at = at] \in Retrieval
           /\ \A at \in {"retry", "store", "verify", "retrieve"}, docs \in Evidence :
                [x EXCEPT !.at = at, !.docs = docs] \in Retrieval
           /\ \A v \in Version : [x EXCEPT !.at = "index", !.know = v] \in Retrieval
           /\ \A s \in Scope : [x EXCEPT !.at = "look1", !.scope = s, !.know = 0] \in Retrieval
           /\ [x EXCEPT !.at = "retrieve", !.know = 0] \in Retrieval
           /\ \A b \in [Doc -> 0 .. MaxVersion + 2] :
                [x EXCEPT !.at = "scope", !.base = b] \in Retrieval
BY DEF Retrieval

\* So is a request that has not been asked.
LEMMA UnaskedIsRequest == Unasked \in Retrieval
<1>1. {} \in Evidence /\ 0 \in Version \cup {0}
  BY DEF Evidence
<1>2. [d \in Doc |-> 0] \in [Doc -> 0 .. MaxVersion + 2]
  OBVIOUS
<1> QED BY <1>1, <1>2 DEF Retrieval, Unasked

\* Every variable keeps its type.
LEMMA TypeStep == CacheInv /\ [CacheNext]_cacheVars => CacheTypeOK'
<1> SUFFICES ASSUME CacheInv, [CacheNext]_cacheVars PROVE CacheTypeOK'
  OBVIOUS
<1> USE DEF CacheInv, CacheTypeOK, knowledge
<1>a. ASSUME NEW r \in Request, NEW x \in Retrieval, req' = [req EXCEPT ![r] = x]
      PROVE  req' \in [Request -> Retrieval]
  BY <1>a
<1>1. ASSUME NEW o \in Outcomes PROVE o.docs \in Evidence /\ Late(o) \in SUBSET Doc
  BY <1>1, FoundIsServed DEF Evidence, Late
<1>2. ASSUME NEW r \in Request, Begin(r) PROVE CacheTypeOK'
  <2>1. Served \in [Doc -> 0 .. MaxVersion + 2]
    BY DEF Served
  <2>2. [Unasked EXCEPT !.at = "scope", !.base = Served] \in Retrieval
    BY <2>1, RetrievalRows, UnaskedIsRequest
  <2> QED BY <1>a, <1>2, <2>2 DEF Begin
<1>3. ASSUME NEW r \in Request, ReadKnowledge(r) \/ ReadIndexVersions(r) \/ LookupFails(r)
      PROVE  CacheTypeOK'
  <2>1. CASE ReadKnowledge(r)
    BY <1>a, <2>1, RetrievalRows DEF ReadKnowledge
  <2>2. CASE ReadIndexVersions(r)
    <3>1. <<req[r].know, version>> \in Scope
      BY <2>2 DEF ReadIndexVersions, ScopesInOrder, Scope
    <3> QED BY <1>a, <2>2, <3>1, RetrievalRows DEF ReadIndexVersions
  <2>3. CASE LookupFails(r)
    BY <1>a, <2>3, RetrievalRows DEF LookupFails
  <2> QED BY <1>3, <2>1, <2>2, <2>3
<1>4. ASSUME NEW r \in Request, LookL1(r) \/ LookL2(r) PROVE CacheTypeOK'
  <2>1. ASSUME NEW e \in l1 \cup l2, Candidate(r, e) PROVE req' \in [Request -> Retrieval]
    <3>1. e.docs \in Evidence
      BY DEF Entry
    <3> QED BY <1>a, <2>1, <3>1, RetrievalRows DEF Candidate
  <2>2. ASSUME NEW at \in {"look2", "retrieve"}, Go(r, at) PROVE req' \in [Request -> Retrieval]
    BY <1>a, <2>2, RetrievalRows DEF Go
  <2>3. CASE LookL1(r)
    BY <2>1, <2>2, <2>3 DEF LookL1, Look
  <2>4. CASE LookL2(r)
    BY <2>1, <2>2, <2>4 DEF LookL2, Look, Put
  <2> QED BY <1>4, <2>3, <2>4
<1>5. ASSUME NEW r \in Request, Reuse(r) \/ Reply(r) \/ RequestDies(r) PROVE CacheTypeOK'
  <2>1. {} \in Evidence
    BY DEF Evidence
  <2>2. CASE Reuse(r)
    <3>1. [req[r] EXCEPT !.at = "retrieve", !.docs = {}] \in Retrieval
      BY <2>1, RetrievalRows
    <3>2. [req[r] EXCEPT !.at = "reply"] \in Retrieval
      BY RetrievalRows
    <3> QED BY ZenonT(30), <1>a, <2>2, <3>1, <3>2 DEF Reuse, Go
  <2>3. CASE Reply(r) \/ RequestDies(r)
    BY <1>a, <2>3, UnaskedIsRequest DEF Reply, RequestDies
  <2> QED BY <1>5, <2>2, <2>3
<1>6. ASSUME NEW r \in Request, Retrieve(r) \/ Retry(r) PROVE CacheTypeOK'
  <2>1. \A o \in Outcomes : req[r].docs \cup o.docs \in Evidence
    BY <1>1 DEF Retrieval, Evidence
  <2>2. CASE Retrieve(r)
    <3>1. PICK o \in Outcomes, at \in {"store", "retry"} :
            /\ req' = [req EXCEPT ![r].at = at, ![r].docs = o.docs]
            /\ lateFound' = lateFound \cup Late(o)
      BY <2>2 DEF Retrieve
    <3>2. [req[r] EXCEPT !.at = at, !.docs = o.docs] \in Retrieval
      BY <1>1, RetrievalRows
    <3> QED BY <1>a, <1>1, <2>2, <3>1, <3>2 DEF Retrieve
  <2>3. CASE Retry(r)
    <3>1. PICK o \in Outcomes :
            /\ req' = [req EXCEPT ![r].at = "store", ![r].docs = @ \cup o.docs]
            /\ lateFound' = lateFound \cup Late(o)
      BY <2>3 DEF Retry
    <3>2. [req[r] EXCEPT !.at = "store", !.docs = @ \cup o.docs] \in Retrieval
      BY <2>1, RetrievalRows
    <3> QED BY <1>a, <1>1, <2>3, <3>1, <3>2 DEF Retry
  <2> QED BY <1>6, <2>2, <2>3
<1>7. ASSUME NEW r \in Request, StoreAnswer(r) \/ CopyToL1(r) PROVE CacheTypeOK'
  <2>1. ASSUME NEW at \in {"copy", "reply"}, Go(r, at) PROVE req' \in [Request -> Retrieval]
    BY <1>a, <2>1, RetrievalRows DEF Go
  <2>2. req[r].scope # NoScope => [scope |-> req[r].scope, docs |-> req[r].docs] \in Entry
    BY DEF Entry, Retrieval
  <2>3. CASE StoreAnswer(r)
    BY <2>1, <2>2, <2>3 DEF StoreAnswer, Put, Look
  <2>4. CASE CopyToL1(r)
    BY <2>1, <2>4 DEF CopyToL1, Put, Look
  <2> QED BY <1>7, <2>3, <2>4
<1>8. ASSUME NEW d \in Changing, Publish(d) \/ RemoveIndex(d) \/ FinishCleanup(d) \/ RemoveRow(d)
      PROVE  CacheTypeOK'
  BY <1>8 DEF Publish, RemoveIndex, FinishCleanup, RemoveRow, Bump, GenerationsFollow
<1>9. CASE DropEntry
  BY <1>9 DEF DropEntry
<1>10. CASE UNCHANGED cacheVars
  BY <1>10 DEF cacheVars
<1> QED BY <1>2, <1>3, <1>4, <1>5, <1>6, <1>7, <1>8, <1>9, <1>10 DEF CacheNext
-----------------------------------------------------------------------------
(* What the versions guarantee. *)

\* What the files serve changes with the version; otherwise a step only takes
\* index entries away, or the row of a file whose cleanup has bumped it.
LEMMA KnowledgeStep ==
    ASSUME CacheInv, [CacheNext]_cacheVars
    PROVE  /\ lateFound \subseteq lateFound'
           /\ \A d \in Doc : active[d] <= active'[d] /\ (row[d] = "gone" => row'[d] = "gone")
           /\ \/ version' = version + 1 /\ req' = req
              \/ /\ version' = version /\ active' = active
                 /\ \A d \in Doc : row'[d] \in {"cleaned", "gone"} => row[d] \in {"cleaned", "gone"}
<1> USE DEF CacheInv, CacheTypeOK, knowledge
<1>1. ASSUME NEW r \in Request,
             \/ Begin(r) \/ ReadKnowledge(r) \/ ReadIndexVersions(r) \/ LookL1(r) \/ LookL2(r)
             \/ LookupFails(r) \/ Reuse(r) \/ Retrieve(r) \/ Retry(r) \/ StoreAnswer(r)
             \/ CopyToL1(r) \/ Reply(r) \/ RequestDies(r)
      PROVE  version' = version /\ active' = active /\ row' = row /\ lateFound \subseteq lateFound'
  BY <1>1 DEF Begin, ReadKnowledge, ReadIndexVersions, LookL1, LookL2, LookupFails, Reuse,
              Retrieve, Retry, StoreAnswer, CopyToL1, Reply, RequestDies
<1>2. ASSUME NEW d \in Changing, Publish(d) \/ FinishCleanup(d)
      PROVE  /\ version' = version + 1 /\ req' = req /\ lateFound' = lateFound
             /\ \A x \in Doc : active[x] <= active'[x] /\ (row[x] = "gone" => row'[x] = "gone")
  BY <1>2 DEF Publish, FinishCleanup, Bump
<1>3. ASSUME NEW d \in Changing, RemoveIndex(d) \/ RemoveRow(d)
      PROVE  /\ version' = version /\ active' = active /\ lateFound' = lateFound
             /\ \A x \in Doc : row[x] = "gone" => row'[x] = "gone"
             /\ \A x \in Doc : row'[x] \in {"cleaned", "gone"} => row[x] \in {"cleaned", "gone"}
  BY <1>3 DEF RemoveIndex, RemoveRow
<1>4. CASE DropEntry \/ UNCHANGED cacheVars
  BY <1>4 DEF DropEntry, cacheVars
<1>5. \A d \in Doc : active[d] <= active[d]
  OBVIOUS
<1> QED BY <1>1, <1>2, <1>3, <1>4, <1>5 DEF CacheNext

\* A step that is not one of a request's leaves the request alone.
LEMMA OthersWait ==
    ASSUME CacheInv, [CacheNext]_cacheVars, NEW q \in Request,
           ~ (\/ Begin(q) \/ ReadKnowledge(q) \/ ReadIndexVersions(q) \/ LookL1(q) \/ LookL2(q)
              \/ LookupFails(q) \/ Reuse(q) \/ Retrieve(q) \/ Retry(q) \/ StoreAnswer(q)
              \/ CopyToL1(q) \/ Reply(q) \/ RequestDies(q))
    PROVE  req'[q] = req[q]
<1> USE DEF CacheInv, CacheTypeOK
<1>1. ASSUME NEW r \in Request, r # q,
             \/ Begin(r) \/ ReadKnowledge(r) \/ ReadIndexVersions(r) \/ LookL1(r) \/ LookL2(r)
             \/ LookupFails(r) \/ Reuse(r) \/ Retrieve(r) \/ Retry(r) \/ StoreAnswer(r)
             \/ CopyToL1(r) \/ Reply(r) \/ RequestDies(r)
      PROVE  req'[q] = req[q]
  BY <1>1 DEF Begin, ReadKnowledge, ReadIndexVersions, LookL1, LookL2, LookupFails, Reuse,
              Retrieve, Retry, StoreAnswer, CopyToL1, Reply, RequestDies, Candidate, Go
<1>2. ASSUME NEW d \in Changing, Publish(d) \/ RemoveIndex(d) \/ FinishCleanup(d) \/ RemoveRow(d)
      PROVE  req'[q] = req[q]
  BY <1>2 DEF Publish, RemoveIndex, FinishCleanup, RemoveRow
<1>3. CASE DropEntry \/ UNCHANGED cacheVars
  BY <1>3 DEF DropEntry, cacheVars
<1> QED BY <1>1, <1>2, <1>3 DEF CacheNext

\* A request reaches no scope that it did not reach before, unless it has just
\* begun: then only the scope of now.
LEMMA ReachStep ==
    ASSUME CacheInv, [CacheNext]_cacheVars, NEW q \in Request, NEW s \in Scope, Reachable(q, s)'
    PROVE  \/ Reachable(q, s) /\ req'[q].base = req[q].base
           \/ /\ req'[q].base = Served /\ s[1] >= version
              /\ UNCHANGED <<knowledge, lateFound>>
<1> USE DEF CacheInv, CacheTypeOK, Reachable, NoScope
<1>1. \A r \in Request : req[r].know \in Nat /\ req[r] \in Retrieval
  BY DEF Retrieval
<1>2. version \in Nat /\ s[1] \in Nat
  BY DEF Scope
<1>3. CASE req'[q] = req[q]
  BY <1>2, <1>3, KnowledgeStep
<1>4. CASE Begin(q)
  BY <1>4, <1>2 DEF Begin, Unasked, knowledge
<1>5. CASE ReadKnowledge(q)
  BY <1>5, <1>2 DEF ReadKnowledge, ScopesInOrder
<1>6. CASE ReadIndexVersions(q)
  BY <1>6, <1>1, <1>2 DEF ReadIndexVersions
<1>s. ASSUME req'[q].scope = req[q].scope, req'[q].base = req[q].base,
             req'[q].at \notin {"scope", "index"}
      PROVE  Reachable(q, s) /\ req'[q].base = req[q].base
  BY <1>s
<1>7. CASE LookL1(q) \/ LookL2(q) \/ LookupFails(q) \/ Reuse(q)
  <2>1. /\ req'[q].scope = req[q].scope /\ req'[q].base = req[q].base
        /\ req'[q].at \notin {"scope", "index"}
    BY <1>1, <1>7 DEF LookL1, LookL2, LookupFails, Reuse, Candidate, Go, Retrieval
  <2> QED BY <1>s, <2>1
<1>8. CASE Retrieve(q) \/ Retry(q) \/ StoreAnswer(q) \/ CopyToL1(q)
  <2>1. /\ req'[q].scope = req[q].scope /\ req'[q].base = req[q].base
        /\ req'[q].at \notin {"scope", "index"}
    BY <1>1, <1>8 DEF Retrieve, Retry, StoreAnswer, CopyToL1, Go, Retrieval
  <2> QED BY <1>s, <2>1
<1>9. CASE Reply(q) \/ RequestDies(q)
  BY <1>9 DEF Reply, RequestDies, Unasked
<1>10. CASE ~ (\/ Begin(q) \/ ReadKnowledge(q) \/ ReadIndexVersions(q) \/ LookL1(q) \/ LookL2(q)
               \/ LookupFails(q) \/ Reuse(q) \/ Retrieve(q) \/ Retry(q) \/ StoreAnswer(q)
               \/ CopyToL1(q) \/ Reply(q) \/ RequestDies(q))
  <2>1. req'[q] = req[q]
    BY <1>10, OthersWait
  <2> QED BY <1>3, <2>1
<1> QED BY <1>4, <1>5, <1>6, <1>7, <1>8, <1>9, <1>10

\* Good evidence stays good.
LEMMA GoodKept ==
    ASSUME CacheInv, [CacheNext]_cacheVars, NEW s \in Scope, NEW docs \in Evidence, Good(s, docs)
    PROVE  Good(s, docs)'
<1> USE DEF CacheInv, CacheTypeOK
<1>1. version \in Nat /\ s[1] \in Nat /\ s[2] \in Nat /\ s = <<s[1], s[2]>>
  BY DEF Scope
<1>2. s[1] <= s[2] /\ s[2] <= version'
  BY <1>1, KnowledgeStep DEF Good
<1>3. ASSUME s = <<version', version'>> PROVE Current(docs)'
  <2>1. version' = version
    BY <1>1, <1>3, KnowledgeStep DEF Good
  <2>2. Current(docs)
    BY <1>3, <2>1 DEF Good
  <2> QED BY <1>1, <2>1, <2>2, KnowledgeStep DEF Current
<1>4. ASSUME NEW q \in Request, Reachable(q, s)' PROVE Fresh(q, docs)'
  <2>1. CASE Reachable(q, s) /\ req'[q].base = req[q].base
    BY <2>1, KnowledgeStep DEF Good, Fresh
  <2>2. CASE /\ req'[q].base = Served /\ s[1] >= version
             /\ UNCHANGED <<knowledge, lateFound>>
    <3>1. Current(docs)
      BY <1>1, <2>2 DEF Good
    <3> QED BY <2>2, <3>1 DEF Current, Fresh, Served, knowledge
  <2> QED BY <1>4, <2>1, <2>2, ReachStep
<1> QED BY <1>2, <1>3, <1>4 DEF Good
-----------------------------------------------------------------------------
(* The other conjuncts, one lemma each. *)

\* A publication counts the generation and the version up together.
LEMMA GenerationsStep == CacheInv /\ [CacheNext]_cacheVars => GenerationsFollow'
<1> SUFFICES ASSUME CacheInv, [CacheNext]_cacheVars, NEW d \in Doc PROVE active'[d] <= version'
  BY DEF GenerationsFollow
<1> USE DEF CacheInv, CacheTypeOK, GenerationsFollow, knowledge
<1>1. CASE version' = version /\ active' = active
  BY <1>1
<1>2. CASE version' = version + 1 /\ req' = req
  <2>1. active'[d] <= active[d] + 1
    <3>1. ASSUME NEW x \in Changing, Publish(x) PROVE active'[d] <= active[d] + 1
      BY <3>1 DEF Publish
    <3>2. CASE active' = active
      BY <3>2
    <3>3. ASSUME NEW x \in Changing, RemoveIndex(x) \/ FinishCleanup(x) \/ RemoveRow(x)
          PROVE  active' = active
      BY <3>3 DEF RemoveIndex, FinishCleanup, RemoveRow
    <3>4. CASE DropEntry \/ UNCHANGED cacheVars
      BY <3>4 DEF DropEntry, cacheVars
    <3>5. ASSUME NEW r \in Request,
                 \/ Begin(r) \/ ReadKnowledge(r) \/ ReadIndexVersions(r) \/ LookL1(r) \/ LookL2(r)
                 \/ LookupFails(r) \/ Reuse(r) \/ Retrieve(r) \/ Retry(r) \/ StoreAnswer(r)
                 \/ CopyToL1(r) \/ Reply(r) \/ RequestDies(r)
          PROVE  active' = active
      BY <3>5 DEF Begin, ReadKnowledge, ReadIndexVersions, LookL1, LookL2, LookupFails, Reuse,
                  Retrieve, Retry, StoreAnswer, CopyToL1, Reply, RequestDies
    <3> QED BY <3>1, <3>2, <3>3, <3>4, <3>5 DEF CacheNext
  <2>2. active'[d] \in Nat
    BY TypeStep
  <2> QED BY <1>2, <2>1, <2>2
<1> QED BY <1>1, <1>2, KnowledgeStep

\* A base is what the files served when the request began.
LEMMA BasesStep == CacheInv /\ [CacheNext]_cacheVars => BasesArePast'
<1> SUFFICES ASSUME CacheInv, [CacheNext]_cacheVars, NEW q \in Request, req'[q].at # "idle",
                    NEW d \in Doc, row'[d] # "gone"
             PROVE  req'[q].base[d] <= active'[d]
  BY DEF BasesArePast
<1> USE DEF CacheInv, CacheTypeOK
<1>1. req[q] \in Retrieval /\ active'[d] \in Nat /\ req'[q] \in Retrieval
  BY TypeStep
<1>2. CASE req'[q].base = req[q].base /\ req[q].at # "idle"
  <2>1. req[q].base[d] <= active[d]
    BY <1>2, KnowledgeStep DEF BasesArePast
  <2> QED BY <1>1, <1>2, <2>1, KnowledgeStep DEF Retrieval
<1>3. CASE Begin(q)
  <2>1. req'[q].base[d] = active[d] /\ active' = active
    BY <1>3 DEF Begin, Served, Unasked, knowledge
  <2> QED BY <1>1, <2>1
<1>4. CASE \/ ReadKnowledge(q) \/ ReadIndexVersions(q) \/ LookL1(q) \/ LookL2(q)
           \/ LookupFails(q) \/ Reuse(q) \/ Retrieve(q) \/ Retry(q) \/ StoreAnswer(q) \/ CopyToL1(q)
  <2>1. req[q].at # "idle"
    BY <1>4 DEF ReadKnowledge, ReadIndexVersions, LookL1, LookL2, LookupFails, Reuse,
                Retrieve, Retry, StoreAnswer, CopyToL1
  <2>2. CASE ReadKnowledge(q) \/ ReadIndexVersions(q) \/ LookL1(q) \/ LookL2(q)
    BY <1>1, <1>2, <2>1, <2>2 DEF ReadKnowledge, ReadIndexVersions, LookL1, LookL2,
                                  Candidate, Go, Retrieval
  <2>3. CASE LookupFails(q) \/ Reuse(q) \/ Retrieve(q)
    BY <1>1, <1>2, <2>1, <2>3 DEF LookupFails, Reuse, Retrieve, Go, Retrieval
  <2>4. CASE Retry(q) \/ StoreAnswer(q) \/ CopyToL1(q)
    BY <1>1, <1>2, <2>1, <2>4 DEF Retry, StoreAnswer, CopyToL1, Go, Retrieval
  <2> QED BY <1>4, <2>2, <2>3, <2>4
<1>5. CASE Reply(q) \/ RequestDies(q)
  BY <1>5 DEF Reply, RequestDies, Unasked
<1>6. CASE req'[q] = req[q]
  BY <1>2, <1>6
<1> QED BY <1>3, <1>4, <1>5, <1>6, OthersWait

\* The phases of a request say what it has read and found.
LEMMA ScopesStep == CacheInv /\ [CacheNext]_cacheVars => ScopesInOrder'
<1> SUFFICES ASSUME CacheInv, [CacheNext]_cacheVars, NEW q \in Request
             PROVE  /\ req'[q].at \in {"idle", "scope", "index"}
                         => req'[q].scope = NoScope /\ req'[q].docs = {}
                    /\ req'[q].at \in {"look1", "look2", "verify", "copy"} => req'[q].scope # NoScope
                    /\ req'[q].at = "index" => req'[q].know \in Version
                    /\ req'[q].know <= version'
  BY DEF ScopesInOrder
<1> USE DEF CacheInv, CacheTypeOK, ScopesInOrder
<1>1. req[q] \in Retrieval /\ version' \in Nat /\ version <= version' /\ req[q].know <= version
  BY KnowledgeStep, TypeStep
<1>2. req[q].know \in Nat
  BY <1>1 DEF Retrieval
<1>3. CASE req'[q] = req[q]
  BY <1>1, <1>2, <1>3
<1>4. CASE Begin(q) \/ Reply(q) \/ RequestDies(q)
  <2>1. /\ Unasked.at = "idle" /\ Unasked.scope = NoScope
        /\ Unasked.docs = {} /\ Unasked.know = 0
    BY DEF Unasked
  <2>2. /\ req'[q].at \in {"idle", "scope"} /\ req'[q].scope = NoScope
        /\ req'[q].docs = {} /\ req'[q].know = 0
    <3>1. CASE Begin(q)
      BY <2>1, <3>1, UnaskedIsRequest DEF Begin, Retrieval
    <3>2. CASE Reply(q) \/ RequestDies(q)
      BY <2>1, <3>2 DEF Reply, RequestDies
    <3> QED BY <1>4, <3>1, <3>2
  <2> QED BY <1>1, <2>2
<1>5. CASE ReadKnowledge(q)
  BY <1>1, <1>5 DEF ReadKnowledge, Retrieval, knowledge
<1>6. CASE ReadIndexVersions(q)
  BY <1>1, <1>6 DEF ReadIndexVersions, Retrieval, NoScope
<1>7. CASE LookL1(q) \/ LookL2(q)
  BY <1>1, <1>2, <1>7 DEF LookL1, LookL2, Candidate, Go, Retrieval
<1>8. CASE LookupFails(q) \/ Reuse(q) \/ Retrieve(q)
  BY <1>1, <1>2, <1>8 DEF LookupFails, Reuse, Retrieve, Go, Retrieval
<1>9. CASE Retry(q) \/ StoreAnswer(q) \/ CopyToL1(q)
  BY <1>1, <1>2, <1>9 DEF Retry, StoreAnswer, CopyToL1, Go, Retrieval
<1> QED BY <1>3, <1>4, <1>5, <1>6, <1>7, <1>8, <1>9, OthersWait

\* Entries are stored from good requests or copied from good rows.
LEMMA EntriesStep == CacheInv /\ [CacheNext]_cacheVars => EntriesAreGood'
<1> SUFFICES ASSUME CacheInv, [CacheNext]_cacheVars, NEW e \in l1' \cup l2'
             PROVE  Good(e.scope, e.docs)'
  BY DEF EntriesAreGood
<1> USE DEF CacheInv, CacheTypeOK
<1>1. ASSUME e \in l1 \cup l2 PROVE Good(e.scope, e.docs)'
  <2>1. Good(e.scope, e.docs) /\ e.scope \in Scope /\ e.docs \in Evidence
    BY <1>1 DEF EntriesAreGood, Entry
  <2> QED BY <2>1, GoodKept
<1>2. CASE \E r \in Request : LookL1(r) \/ LookL2(r) \/ CopyToL1(r)
  BY <1>1, <1>2 DEF LookL1, LookL2, CopyToL1, Put, Look
<1>3. ASSUME NEW r \in Request, StoreAnswer(r) PROVE Good(e.scope, e.docs)'
  <2>1. CASE e \in l1 \cup l2
    BY <1>1, <2>1
  <2>2. CASE req[r].scope # NoScope /\ e = [scope |-> req[r].scope, docs |-> req[r].docs]
    <3>1. req[r].scope \in Scope /\ req[r].docs \in Evidence
      BY <2>2 DEF Retrieval
    <3>2. Good(req[r].scope, req[r].docs)
      BY <2>2 DEF RequestsAreGood
    <3> QED BY <2>2, <3>1, <3>2, GoodKept
  <2> QED BY <1>3, <2>1, <2>2 DEF StoreAnswer, Put, Look
<1>4. CASE \E r \in Request :
             \/ Begin(r) \/ ReadKnowledge(r) \/ ReadIndexVersions(r) \/ LookupFails(r)
             \/ Reuse(r) \/ Retrieve(r) \/ Retry(r) \/ Reply(r) \/ RequestDies(r)
  BY <1>1, <1>4 DEF Begin, ReadKnowledge, ReadIndexVersions, LookupFails, Reuse, Retrieve,
                    Retry, Reply, RequestDies
<1>5. CASE \E d \in Changing : Publish(d) \/ RemoveIndex(d) \/ FinishCleanup(d) \/ RemoveRow(d)
  BY <1>1, <1>5 DEF Publish, RemoveIndex, FinishCleanup, RemoveRow, Bump
<1>6. CASE DropEntry \/ UNCHANGED cacheVars
  BY <1>1, <1>6 DEF DropEntry, cacheVars
<1> QED BY <1>2, <1>3, <1>4, <1>5, <1>6 DEF CacheNext

\* What a retrieval finds is current and may be shown by every request that is
\* under way: the versions of its scope are read before, its base is older.
LEMMA ResultIsGood ==
    ASSUME CacheInv, [CacheNext]_cacheVars, UNCHANGED knowledge,
           NEW o \in Outcomes, lateFound' = lateFound \cup Late(o)
    PROVE  /\ Current(o.docs)'
           /\ \A q \in Request : req'[q].at # "idle" => Fresh(q, o.docs)'
<1> USE DEF CacheInv, CacheTypeOK, knowledge
<1>1. ASSUME NEW d \in Doc, NEW g \in Generation, <<d, g>> \in o.docs
      PROVE  g = active[d] /\ row[d] # "gone" /\ (row[d] = "cleaned" => d \in lateFound')
  <2>1. g = active[d] /\ row[d] # "gone"
    BY <1>1, FoundIsServed
  <2> QED BY <1>1, <2>1 DEF Late
<1>2. Current(o.docs)'
  BY <1>1 DEF Current
<1>3. BasesArePast'
  BY BasesStep
<1>4. ASSUME NEW q \in Request, req'[q].at # "idle" PROVE Fresh(q, o.docs)'
  BY <1>1, <1>3, <1>4 DEF Fresh, BasesArePast
<1> QED BY <1>2, <1>4

\* What a request holds stays good for its scope, and fresh for itself.
LEMMA RequestsStep == CacheInv /\ [CacheNext]_cacheVars => RequestsAreGood'
<1> SUFFICES ASSUME CacheInv, [CacheNext]_cacheVars, NEW q \in Request,
                    NEW s, s = req'[q].scope, NEW docs, docs = req'[q].docs
             PROVE  /\ s # NoScope => Good(s, docs)'
                    /\ Fresh(q, docs)'
  BY DEF RequestsAreGood, Good, Fresh, Current, Reachable
<1> USE DEF CacheInv, CacheTypeOK
<1>1. /\ req[q] \in Retrieval /\ req'[q] \in Retrieval
      /\ version' \in Nat /\ version \in Nat /\ version <= version'
      /\ lateFound \subseteq lateFound'
  BY TypeStep, KnowledgeStep
<1>2. s \in Scope \cup {NoScope} /\ docs \in Evidence
  BY <1>1 DEF Retrieval
<1>3. s \in Scope => s[1] \in Nat /\ s[2] \in Nat /\ s = <<s[1], s[2]>>
  BY DEF Scope
<1>4. ASSUME req'[q].scope = req[q].scope, req'[q].docs = req[q].docs, req'[q].base = req[q].base
      PROVE  (s # NoScope => Good(s, docs)') /\ Fresh(q, docs)'
  <2>1. s # NoScope => Good(s, docs)
    BY <1>4 DEF RequestsAreGood
  <2>2. Fresh(q, docs)
    BY <1>4 DEF RequestsAreGood
  <2>3. Fresh(q, docs)'
    BY <1>1, <1>4, <2>2 DEF Fresh
  <2> QED BY <1>2, <2>1, <2>3, GoodKept
<1>5. ASSUME docs = {}, s # NoScope => s[1] <= s[2] /\ s[2] <= version'
      PROVE  (s # NoScope => Good(s, docs)') /\ Fresh(q, docs)'
  BY <1>5 DEF Good, Current, Fresh
<1>6. CASE req'[q] = req[q]
  BY <1>4, <1>6
<1>7. CASE Begin(q) \/ Reply(q) \/ RequestDies(q)
  <2>1. Unasked.scope = NoScope /\ Unasked.docs = {}
    BY DEF Unasked
  <2>2. CASE Begin(q)
    BY <1>5, <2>1, <2>2, UnaskedIsRequest DEF Begin, Retrieval
  <2>3. CASE Reply(q) \/ RequestDies(q)
    BY <1>5, <2>1, <2>3 DEF Reply, RequestDies
  <2> QED BY <1>7, <2>2, <2>3
<1>8. CASE ReadKnowledge(q) \/ LookupFails(q)
  BY <1>1, <1>4, <1>8 DEF ReadKnowledge, LookupFails, Retrieval
<1>9. CASE StoreAnswer(q) \/ CopyToL1(q)
  BY <1>1, <1>4, <1>9 DEF StoreAnswer, CopyToL1, Go, Retrieval
<1>10. CASE ReadIndexVersions(q)
  <2>1. docs = {} /\ s = <<req[q].know, version>> /\ version' = version
    BY <1>1, <1>10 DEF ReadIndexVersions, ScopesInOrder, Retrieval, knowledge
  <2> QED BY <1>5, <2>1 DEF ScopesInOrder
<1>11. CASE LookL1(q) \/ LookL2(q)
  <2>1. ASSUME NEW e \in l1 \cup l2, e.scope = req[q].scope, Candidate(q, e), req[q].scope # NoScope,
               req[q].at \notin {"scope", "index"}
        PROVE  (s # NoScope => Good(s, docs)') /\ Fresh(q, docs)'
    <3>1. /\ s = e.scope /\ docs = e.docs /\ req'[q].base = req[q].base
          /\ s = req[q].scope /\ s \in Scope
      BY <1>1, <2>1 DEF Candidate, Retrieval, Entry
    <3>2. Good(s, docs)
      BY <3>1 DEF EntriesAreGood
    <3>3. Reachable(q, s)
      BY <1>3, <2>1, <3>1 DEF Reachable
    <3>4. Fresh(q, docs)
      BY <3>2, <3>3 DEF Good
    <3>5. Fresh(q, docs)'
      BY <1>1, <3>1, <3>4 DEF Fresh
    <3> QED BY <1>2, <3>1, <3>2, <3>5, GoodKept
  <2>2. ASSUME NEW at \in {"look2", "retrieve"}, Go(q, at)
        PROVE  (s # NoScope => Good(s, docs)') /\ Fresh(q, docs)'
    BY <1>1, <1>4, <2>2 DEF Go, Retrieval
  <2>3. req[q].scope # NoScope /\ req[q].at \notin {"scope", "index"}
    BY <1>11 DEF LookL1, LookL2, ScopesInOrder
  <2>4. CASE LookL1(q)
    BY <2>1, <2>2, <2>3, <2>4 DEF LookL1, Look
  <2>5. CASE LookL2(q)
    BY <2>1, <2>2, <2>3, <2>5 DEF LookL2, Look
  <2> QED BY <1>11, <2>4, <2>5
<1>12. CASE Reuse(q)
  <2>1. CASE Go(q, "reply")
    BY <1>1, <1>4, <2>1 DEF Go, Retrieval
  <2>2. CASE req' = [req EXCEPT ![q].at = "retrieve", ![q].docs = {}]
    <3>1. docs = {} /\ s = req[q].scope
      BY <1>1, <2>2 DEF Retrieval
    <3>2. s # NoScope => s[1] <= s[2] /\ s[2] <= version
      BY <3>1 DEF RequestsAreGood, Good
    <3> QED BY <1>1, <1>2, <1>3, <1>5, <3>1, <3>2
  <2> QED BY <1>12, <2>1, <2>2 DEF Reuse
<1>13. CASE Retrieve(q) \/ Retry(q)
  <2>1. PICK o \in Outcomes :
          /\ lateFound' = lateFound \cup Late(o) /\ UNCHANGED knowledge
          /\ s = req[q].scope /\ req'[q].base = req[q].base /\ req'[q].at # "idle"
          /\ docs = o.docs \/ docs = req[q].docs \cup o.docs
    <3>1. CASE Retrieve(q)
      BY <1>1, <3>1 DEF Retrieve, Retrieval
    <3>2. CASE Retry(q)
      BY <1>1, <3>2 DEF Retry, Retrieval
    <3> QED BY <1>13, <3>1, <3>2
  <2>2. Current(o.docs)' /\ \A r \in Request : req'[r].at # "idle" => Fresh(r, o.docs)'
    BY <2>1, ResultIsGood
  <2>3. (s # NoScope => Good(s, req[q].docs)) /\ Fresh(q, req[q].docs)
    BY <2>1 DEF RequestsAreGood
  <2>4. PICK old : old = req[q].docs
    OBVIOUS
  <2>5. old \in Evidence /\ (s # NoScope => Good(s, old)) /\ Fresh(q, old)
    BY <1>1, <2>3, <2>4 DEF Retrieval
  <2>6. s # NoScope => Good(s, old)'
    BY <1>2, <2>5, GoodKept
  <2>7. Fresh(q, old)'
    BY <1>1, <2>1, <2>5 DEF Fresh
  <2>8. Fresh(q, docs)'
    BY <2>1, <2>2, <2>4, <2>7 DEF Fresh
  <2>9. ASSUME s # NoScope PROVE Good(s, docs)'
    <3>1. Good(s, old)'
      BY <2>6, <2>9
    <3>2. s = <<version', version'>> => Current(docs)'
      BY <2>1, <2>2, <2>4, <3>1 DEF Good, Current
    <3>3. ASSUME NEW r \in Request, Reachable(r, s)' PROVE Fresh(r, docs)'
      <4>1. ScopesInOrder'
        BY ScopesStep
      <4>2. req'[r].at # "idle"
        BY <3>3, <4>1 DEF ScopesInOrder, Reachable
      <4>3. Fresh(r, o.docs)' /\ Fresh(r, old)'
        BY <2>2, <3>1, <3>3, <4>2 DEF Good
      <4> QED BY <2>1, <2>4, <4>3 DEF Fresh
    <3> QED BY <3>1, <3>2, <3>3 DEF Good
  <2> QED BY <2>8, <2>9
<1> QED BY <1>6, <1>7, <1>8, <1>9, <1>10, <1>11, <1>12, <1>13, OthersWait
-----------------------------------------------------------------------------
(* The invariant, and what the runs check. *)

\* Every reachable state of the caches satisfies the invariant: what is kept
\* under a scope was found after its versions were read.
THEOREM CacheInvariant == CacheSpec => []CacheInv
<1>1. CacheInv /\ [CacheNext]_cacheVars => CacheInv'
  BY TypeStep, GenerationsStep, ScopesStep, BasesStep, EntriesStep, RequestsStep DEF CacheInv
<1> QED BY <1>1, InitCacheInv, PTL DEF CacheSpec

\* Evidence stored under the present versions is what the files serve, also in
\* Redis, which no publication and no deletion tells
\* (_bump_project_knowledge_version).
THEOREM CurrentEvidence == CacheSpec => []EvidenceIsCurrent
<1>1. CacheInv => EvidenceIsCurrent
  <2> SUFFICES ASSUME CacheInv, NEW e \in l1 \cup l2, e.scope = <<version, version>>,
                      NEW d \in Doc, NEW g \in Generation, <<d, g>> \in e.docs
               PROVE  IF row[d] = "gone" THEN d \in lateFound ELSE g = active[d]
    BY DEF EvidenceIsCurrent, CacheInv
  <2>1. Current(e.docs)
    BY DEF CacheInv, EntriesAreGood, Good
  <2> QED BY <2>1 DEF Current
<1> QED BY <1>1, CacheInvariant, PTL

\* An answer shows nothing that had been replaced or removed when its request
\* arrived (get_retrieval_scope, agentic_retrieve).
THEOREM FreshAnswers == CacheSpec => []AnswersAreFresh
<1>1. CacheInv => AnswersAreFresh
  BY DEF CacheInv, RequestsAreGood, Fresh, AnswersAreFresh
<1> QED BY <1>1, CacheInvariant, PTL
=============================================================================
