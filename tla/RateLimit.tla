----------------------------- MODULE RateLimit -----------------------------
(***************************************************************************)
(* The token bucket of libclm/ratelimit.c, which paces tool calls and      *)
(* requests to the model.  Time is CLOCK_MONOTONIC in ticks, Scale ticks to *)
(* the second.  Counts are unsigned words, the largest of them MaxWord.    *)
(***************************************************************************)
EXTENDS Integers

CONSTANTS
    Scale,     \* ticks per second (1000000)
    MaxWord,   \* UINT64_MAX
    Rates,     \* tokens per second that clm_ratelimit_new may be given
    Bursts,    \* and the burst sizes
    Sizes,     \* tokens that one call asks for
    Steps,     \* ticks between two calls
    MaxNow     \* the clock's last tick (bound)

ASSUME ScaleAssumption == Scale \in Nat \ {0} /\ MaxWord \in Nat
ASSUME SetsAssumption ==
    /\ Rates \subseteq Nat /\ Bursts \subseteq Nat /\ Sizes \subseteq Nat
    /\ Steps \subseteq Nat
\* rate * elapsed of a full bucket does not overflow.
ASSUME WordAssumption ==
    \A r \in Rates, b \in Rates \cup Bursts : b * Scale + r <= MaxWord

VARIABLES
    rate, burst, tokens,
    last,      \* last_usec
    now,       \* the clock
    asked,     \* the last clm_ratelimit_delay: how many tokens, and when they
               \* are to be there; n = 0 when it no longer applies
    \* History variables.
    \* Since the limiter was made, or last tuned:
    size,      \* the tokens it began with
    since,     \* last_usec as it was then
    spent,     \* tokens granted
    refills    \* calls that added a fraction's worth of time

vars == <<rate, burst, tokens, last, now, asked, size, since, spent, refills>>

NotAsked == [n |-> 0, at |-> 0]

\* clm_ratelimit_new: a burst of 0 is one second's worth, and the bucket
\* starts full.
Init ==
    /\ rate \in Rates
    /\ \E b \in Bursts : burst = IF b = 0 THEN rate ELSE b
    /\ tokens = burst /\ size = burst
    /\ last = 0 /\ now = 0 /\ since = 0
    /\ asked = NotAsked
    /\ spent = 0 /\ refills = 0

Elapsed == now - last
Added == (rate * Elapsed) \div Scale

Same == [tokens |-> tokens, last |-> last]
Full == [tokens |-> burst, last |-> now]
Partly == [tokens |-> tokens + Added,
           last |-> last + (Added * Scale) \div rate]

\* Mutation: the clock is taken as read up to now, whatever was added.
RefillLosesTime ==
    IF rate = 0 \/ Elapsed = 0 THEN Same
    ELSE IF Elapsed >= MaxWord \div rate THEN Full
    ELSE IF Added >= burst - tokens THEN Full
    ELSE [tokens |-> tokens + Added, last |-> now]

\* Mutation: the clock is not moved on for the tokens added.
RefillKeepsTime ==
    IF rate = 0 \/ Elapsed = 0 THEN Same
    ELSE IF Elapsed >= MaxWord \div rate THEN Full
    ELSE IF Added >= burst - tokens THEN Full
    ELSE [tokens |-> tokens + Added, last |-> last]

\* Mutation: the bucket overflows.
RefillUncapped ==
    IF rate = 0 \/ Elapsed = 0 THEN Same
    ELSE IF Added = 0 THEN Same
    ELSE Partly

\* refill, with the bucket it leaves: the clock moves only by the time the
\* whole tokens account for.
Refill ==
    IF rate = 0 \/ Elapsed = 0 THEN Same
    ELSE IF Elapsed >= MaxWord \div rate THEN Full
    ELSE IF Added = 0 THEN Same
    ELSE IF Added >= burst - tokens THEN Full
    ELSE Partly

\* The bucket is refilled and k tokens are taken.
Take(k) ==
    /\ tokens' = Refill.tokens - k
    /\ last' = Refill.last
    /\ spent' = spent + k
    /\ refills' = IF Refill = Same THEN refills ELSE refills + 1

\* clm_ratelimit_allow, for a limited rate.  A refusal only refills.
Allow(n) ==
    /\ rate # 0
    /\ IF Refill.tokens >= n THEN Take(n) /\ asked' = NotAsked
       ELSE Take(0) /\ UNCHANGED asked
    /\ UNCHANGED <<rate, burst, now, size, since>>

\* clm_ratelimit_consume.
Consume(n) ==
    /\ rate # 0
    /\ Take(IF Refill.tokens >= n THEN n ELSE Refill.tokens)
    /\ asked' = NotAsked
    /\ UNCHANGED <<rate, burst, now, size, since>>

\* What clm_ratelimit_delay returns.
DelayTicks(n) == IF Refill.tokens >= n THEN 0
                 ELSE (((n - Refill.tokens) * Scale) % (MaxWord + 1)) \div rate

\* clm_ratelimit_delay, and clm_ratelimit_tokens when the answer is not kept.
Delay(n) ==
    /\ rate # 0
    /\ Take(0)
    /\ asked' = [n |-> n, at |-> now + DelayTicks(n)]
    /\ UNCHANGED <<rate, burst, now, size, since>>

\* The account begins anew.
Rebase ==
    /\ size' = tokens' /\ since' = last'
    /\ spent' = 0 /\ refills' = 0
    /\ asked' = NotAsked

\* clm_ratelimit_set_rate: settled at the old rate first.
SetRate(r) ==
    /\ tokens' = Refill.tokens /\ last' = Refill.last
    /\ rate' = r
    /\ UNCHANGED <<burst, now>>
    /\ Rebase

\* clm_ratelimit_set_burst.
SetBurst(b) ==
    /\ burst' = b
    /\ tokens' = IF tokens > b THEN b ELSE tokens
    /\ UNCHANGED <<rate, last, now>>
    /\ Rebase

\* CLOCK_MONOTONIC goes on.
Tick(d) ==
    /\ d > 0 /\ now + d <= MaxNow
    /\ now' = now + d
    /\ UNCHANGED <<rate, burst, tokens, last, asked, size, since, spent,
                   refills>>

Next ==
    \/ \E n \in Sizes : Allow(n) \/ Consume(n) \/ Delay(n)
    \/ \E r \in Rates : SetRate(r)
    \/ \E b \in Bursts : SetBurst(b)
    \/ \E d \in Steps : Tick(d)

Spec == Init /\ [][Next]_vars

-----------------------------------------------------------------------------
(* Properties.                                                             *)

\* Types, and the two subtractions of refill that are unsigned: tokens never
\* exceed the burst and the last refill is never in the future.
TypeOK ==
    /\ rate \in Nat /\ burst \in Nat /\ size \in Nat
    /\ tokens \in 0 .. burst
    /\ now \in Nat /\ last \in 0 .. now /\ since \in 0 .. last
    /\ asked \in [n : Nat, at : Nat]
    /\ spent \in Nat /\ refills \in Nat

\* Since the limiter was made or last tuned, no more was granted than the
\* tokens it had, what the time accounted for earned, and less than one tick's
\* worth for each refill, however often and at whatever moments it is asked.
Conservation ==
    rate > 0 =>
      (spent + tokens) * Scale
        <= size * Scale + rate * (last - since) + refills * (rate - 1)

\* Polling loses no time: waiting one tick longer than clm_ratelimit_delay
\* said is enough for any request that fits the bucket, however often the
\* limiter was asked in between.
DelaySuffices ==
    asked.n > 0 /\ asked.n <= burst /\ now > asked.at
      => Refill.tokens >= asked.n

=============================================================================
