------------------------------ MODULE RateLimits ------------------------------
(* The rate limits of the server. Each request is counted in buckets that all *)
(* instances share in Redis: that of its address for all routes, that of its  *)
(* address for the route, and for a login or registration that of the email   *)
(* it names. A bucket is a window that opens with its first request.          *)
EXTENDS Integers

CONSTANTS
    Address,   \* callers: a signed-in user, or the address of one that is not
    Email,
    Asking,   \* requests that are under way at once
    MaxGlobal, \* RATE_LIMIT_MAX
    MaxRoute,  \* the limit of the route, for an address and for an email
    Window,    \* RATE_LIMIT_WINDOW_MS
    MaxTime,   \* bound: the clock
    MaxRefused \* bound: after so many refusals nobody asks before the window ends

ASSUME RateLimitsAssumption ==
    /\ MaxGlobal \in Nat /\ MaxRoute \in Nat /\ MaxTime \in Nat /\ MaxRefused \in Nat
    /\ Window \in Nat \ {0}

Buckets == ({"global", "route"} \X Address) \cup ({"identity"} \X Email)
Limit(b) == IF b[1] = "global" THEN MaxGlobal ELSE MaxRoute

VARIABLES
    clock,
    bucket,   \* what Redis holds: how many requests, and when the key expires
    opened,   \* history: when the window of a bucket opened
    passed,   \* history: the requests it has let through in that window
    attempt   \* the requests: who makes them, and the bucket they go to next

limitVars == <<clock, bucket, opened, passed, attempt>>

NoBucket == [count |-> 0, expires |-> 0]
NoAttempt == [at |-> "none", from |-> "nobody", email |-> "nobody"]

LimitsTypeOK ==
    /\ clock \in 0 .. MaxTime
    /\ bucket \in [Buckets -> [count : Nat, expires : Nat]]
    /\ opened \in [Buckets -> 0 .. MaxTime] /\ passed \in [Buckets -> Nat]
    /\ \A r \in Asking : attempt[r].at \in {"none", "global", "route", "identity"}

LimitsInit ==
    /\ clock = 0
    /\ bucket = [b \in Buckets |-> NoBucket]
    /\ opened = [b \in Buckets |-> 0] /\ passed = [b \in Buckets |-> 0]
    /\ attempt = [r \in Asking |-> NoAttempt]

\* The bucket that a request goes to next.
BucketOf(r) == IF attempt[r].at = "identity" THEN <<"identity", attempt[r].email>>
               ELSE <<attempt[r].at, attempt[r].from>>

\* The global hook is first; the guard of the route has the other two.
Following(at) == CASE at = "global" -> "route" [] at = "route" -> "identity" [] OTHER -> "none"

Arrive(r) ==
    /\ attempt[r].at = "none"
    /\ \E a \in Address, e \in Email :
         /\ \A b \in {<<"global", a>>, <<"route", a>>, <<"identity", e>>} :
              bucket[b].count < Limit(b) + MaxRefused
         /\ attempt' = [attempt EXCEPT ![r] = [at |-> "global", from |-> a, email |-> e]]
    /\ UNCHANGED <<clock, bucket, opened, passed>>

\* Mutant: every request moves the end of the window.
IncrementAndExtend(old) == [count |-> old.count + 1, expires |-> clock + Window]

\* The script: INCR, and PEXPIRE for a key that is new or has lost its expiry.
Increment(old) == [count |-> old.count + 1,
                   expires |-> IF old.count = 0 THEN clock + Window ELSE old.expires]

Allowed(b, count) == count <= Limit(b)

\* consumeBucketRateLimit: a refused request is counted, too, and goes to no
\* further bucket.
Consume(r) ==
    LET b == BucketOf(r)
        new == Increment(bucket[b])
        fresh == bucket[b].count = 0
        before == IF fresh THEN 0 ELSE passed[b]
    IN
    /\ attempt[r].at # "none"
    /\ bucket' = [bucket EXCEPT ![b] = new]
    /\ opened' = IF fresh THEN [opened EXCEPT ![b] = clock] ELSE opened
    /\ IF Allowed(b, new.count)
       THEN /\ passed' = [passed EXCEPT ![b] = before + 1]
            /\ attempt' = [attempt EXCEPT
                 ![r] = IF Following(@.at) = "none" THEN NoAttempt
                        ELSE [attempt[r] EXCEPT !.at = Following(attempt[r].at)]]
       ELSE /\ passed' = [passed EXCEPT ![b] = before]
            /\ attempt' = [attempt EXCEPT ![r] = NoAttempt]
    /\ UNCHANGED clock

\* Redis does not answer: the request is refused with 503, counted or not.
StoreFails(r) ==
    /\ attempt[r].at # "none"
    /\ attempt' = [attempt EXCEPT ![r] = NoAttempt]
    /\ \/ UNCHANGED <<bucket, opened>>
       \/ /\ bucket' = [bucket EXCEPT ![BucketOf(r)] = Increment(@)]
          /\ opened' = IF bucket[BucketOf(r)].count = 0
                       THEN [opened EXCEPT ![BucketOf(r)] = clock] ELSE opened
    /\ UNCHANGED <<clock, passed>>

\* Time passes; keys expire at their time.
LimitsTick ==
    /\ clock < MaxTime /\ clock' = clock + 1
    /\ bucket' = [b \in Buckets |-> IF bucket[b].expires <= clock + 1 THEN NoBucket ELSE bucket[b]]
    /\ passed' = [b \in Buckets |-> IF bucket[b].expires <= clock + 1 THEN 0 ELSE passed[b]]
    /\ opened' = [b \in Buckets |-> IF bucket[b].expires <= clock + 1 THEN 0 ELSE opened[b]]
    /\ UNCHANGED attempt

LimitsNext ==
    \/ LimitsTick
    \/ \E r \in Asking : Arrive(r) \/ Consume(r) \/ StoreFails(r)

LimitsSpec == LimitsInit /\ [][LimitsNext]_limitVars

-----------------------------------------------------------------------------
\* However many addresses try one email at once, no more attempts than the
\* limit pass in a window; and a caller who does not stop asking is not shut
\* out for longer than a window, since what is refused does not extend it.
LimitsHold ==
    /\ LimitsTypeOK
    /\ \A b \in Buckets :
        /\ passed[b] <= Limit(b)
        /\ bucket[b].count > 0 => bucket[b].expires <= opened[b] + Window
=============================================================================
