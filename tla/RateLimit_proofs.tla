-------------------------- MODULE RateLimit_proofs --------------------------
(* Proofs about the token bucket, for every rate, burst and word size.     *)
EXTENDS RateLimit, TLAPS

-----------------------------------------------------------------------------
(* Arithmetic, in the form refill uses it.                                 *)

\* What integer division leaves behind: the tokens that some ticks earn, and
\* the ticks that some tokens account for.
LEMMA DivisionBounds ==
    ASSUME NEW a \in Nat, NEW b \in Nat \ {0}
    PROVE  /\ a \div b \in Nat
           /\ b * (a \div b) <= a
           /\ a <= b * (a \div b) + (b - 1)
  OBVIOUS

\* Multiplication respects the order of naturals.
LEMMA ProductMonotone ==
    ASSUME NEW a \in Nat, NEW b \in Nat, NEW c \in Nat, a <= b
    PROVE  a * c \in Nat /\ b * c \in Nat /\ a * c <= b * c
  OBVIOUS

\* And a positive factor can be cancelled.
LEMMA ProductCancel ==
    ASSUME NEW a \in Nat, NEW b \in Nat, NEW c \in Nat \ {0}, c * a <= c * b
    PROVE  a <= b
  <1> SUFFICES ASSUME a > b PROVE FALSE
    OBVIOUS
  <1>1. a >= b + 1
    OBVIOUS
  <1>2. a * c >= (b + 1) * c
    BY <1>1, ProductMonotone
  <1> QED
    BY <1>2

-----------------------------------------------------------------------------
(* The inductive invariant: the types, the parameters the limiter was made *)
(* or tuned with, and the account of the tokens granted.                   *)
IInv == /\ TypeOK
        /\ rate \in Rates
        /\ burst \in Rates \cup Bursts
        /\ Conservation

\* What refill does to the bucket: it stays within its bounds, and what it
\* gains is earned by the time that the clock is moved on for, but for less
\* than one tick's worth.
LEMMA RefillFacts ==
    ASSUME TypeOK, rate \in Rates, burst \in Rates \cup Bursts, rate # 0
    PROVE  /\ Refill.tokens \in 0 .. burst
           /\ Refill.last \in last .. now
           /\ Refill.tokens * Scale + rate * last
                <= tokens * Scale + rate * Refill.last
                     + (IF Refill = Same THEN 0 ELSE rate - 1)
  <1> DEFINE used == (Added * Scale) \div rate
  <1>1. /\ rate \in Nat \ {0} /\ burst \in Nat /\ tokens \in 0 .. burst
        /\ last \in Nat /\ now \in Nat /\ last <= now /\ Scale \in Nat \ {0}
        /\ MaxWord \in Nat
        /\ Elapsed \in Nat /\ last + Elapsed = now
    BY ScaleAssumption DEF TypeOK, Elapsed
  <1>2. rate * now = rate * last + rate * Elapsed /\ rate * Elapsed \in Nat
    <2>1. rate * (last + Elapsed) = rate * last + rate * Elapsed
      BY <1>1
    <2>2. rate * Elapsed \in Nat
      BY <1>1, ProductMonotone
    <2> QED
      BY <1>1, <2>1, <2>2
  <1>3. Added \in Nat /\ Scale * Added <= rate * Elapsed
    BY <1>1, <1>2, DivisionBounds DEF Added
  <1>4. CASE Refill = Same
    BY <1>1, <1>4 DEF Same
  <1>5. CASE Refill = Full /\ Elapsed >= MaxWord \div rate
    <2>1. burst * Scale <= MaxWord
      BY <1>1, WordAssumption
    <2>2. /\ MaxWord \div rate \in Nat
          /\ MaxWord <= rate * (MaxWord \div rate) + (rate - 1)
      BY <1>1, DivisionBounds
    <2>3. rate * (MaxWord \div rate) <= rate * Elapsed
      BY <1>1, <1>5, <2>2, ProductMonotone
    <2>4. burst * Scale <= rate * Elapsed + (rate - 1)
      BY <1>1, <1>2, <2>1, <2>2, <2>3
    <2>5. tokens * Scale \in Nat /\ burst * Scale \in Nat
      BY <1>1, ProductMonotone
    <2> QED
      BY <1>1, <1>2, <1>5, <2>4, <2>5 DEF Full, Same
  <1>6. CASE Refill = Full /\ Added >= burst - tokens
    <2>1. (burst - tokens) * Scale <= Added * Scale
      BY <1>1, <1>3, <1>6, ProductMonotone
    <2>2. burst * Scale - tokens * Scale <= rate * Elapsed
      BY <1>1, <1>2, <1>3, <2>1
    <2>3. Refill.tokens = burst /\ Refill.last = now
      BY <1>6 DEF Full
    <2>4. burst * Scale + rate * last <= tokens * Scale + rate * now
      BY <1>1, <1>2, <2>2
    <2>5. (IF Refill = Same THEN 0 ELSE rate - 1) \in Nat
      BY <1>1
    <2> QED
      BY <1>1, <2>3, <2>4, <2>5
  <1>7. CASE Refill = Partly /\ Added < burst - tokens /\ Added # 0
    <2>1. /\ Added * Scale \in Nat
          /\ used \in Nat
          /\ rate * used <= Added * Scale
          /\ Added * Scale <= rate * used + (rate - 1)
      <3>1. Added * Scale \in Nat
        BY <1>1, <1>3, ProductMonotone
      <3> DEFINE earned == Added * Scale
      <3>2. earned \in Nat
        BY <3>1
      <3> HIDE DEF earned
      <3>3. /\ earned \div rate \in Nat
            /\ rate * (earned \div rate) <= earned
            /\ earned <= rate * (earned \div rate) + (rate - 1)
        BY <1>1, <3>2, DivisionBounds
      <3> QED
        BY <3>1, <3>3 DEF earned
    <2>2. used <= Elapsed
      <3>1. rate * used <= rate * Elapsed
        BY <1>1, <1>2, <1>3, <2>1
      <3> QED
        BY <1>1, <2>1, <3>1, ProductCancel
    <2>3. Refill.tokens = tokens + Added /\ Refill.last = last + used
      BY <1>7 DEF Partly
    <2>4. /\ Refill.tokens * Scale = tokens * Scale + Added * Scale
          /\ rate * Refill.last = rate * last + rate * used
      BY <1>1, <1>3, <2>1, <2>3
    <2>5. Refill # Same
      BY <1>1, <1>3, <1>7, <2>3 DEF Same
    <2> QED
      BY <1>1, <1>3, <1>7, <2>1, <2>2, <2>3, <2>4, <2>5
  <1> QED
    BY <1>1, <1>3, <1>4, <1>5, <1>6, <1>7 DEF Refill

\* Taking k tokens, at most those there are, keeps the bounds and the account.
LEMMA TakeKeeps ==
    ASSUME IInv, rate # 0, NEW k \in Nat, k <= Refill.tokens, Take(k),
           UNCHANGED <<rate, burst, now, size, since>>
    PROVE  /\ tokens' \in 0 .. burst' /\ last' \in 0 .. now'
           /\ since' \in 0 .. last'
           /\ spent' \in Nat /\ refills' \in Nat
           /\ Conservation'
  <1>1. /\ rate \in Nat \ {0} /\ burst \in Nat /\ tokens \in Nat /\ last \in Nat
        /\ now \in Nat /\ size \in Nat /\ since \in 0 .. last /\ spent \in Nat /\ refills \in Nat
        /\ Scale \in Nat \ {0}
    BY ScaleAssumption DEF IInv, TypeOK
  <1>2. /\ Refill.tokens \in 0 .. burst
        /\ Refill.last \in last .. now
        /\ Refill.tokens * Scale + rate * last
             <= tokens * Scale + rate * Refill.last
                  + (IF Refill = Same THEN 0 ELSE rate - 1)
    BY RefillFacts DEF IInv
  <1>3. /\ tokens' = Refill.tokens - k /\ last' = Refill.last
        /\ spent' = spent + k
        /\ refills' = IF Refill = Same THEN refills ELSE refills + 1
    BY DEF Take
  <1>4. /\ tokens' \in 0 .. burst' /\ last' \in 0 .. now'
        /\ since' \in 0 .. last'
        /\ spent' \in Nat /\ refills' \in Nat
    BY <1>1, <1>2, <1>3
  <1>5. (spent' + tokens') * Scale
          <= size * Scale + rate * (last' - since) + refills' * (rate - 1)
    <2>1. (spent + tokens) * Scale
            <= size * Scale + rate * (last - since) + refills * (rate - 1)
      BY <1>1 DEF IInv, Conservation
    <2>2. (spent + tokens) * Scale = spent * Scale + tokens * Scale
      BY <1>1
    <2>3. (spent' + tokens') * Scale = spent * Scale + Refill.tokens * Scale
      <3>1. spent' + tokens' = spent + Refill.tokens
        BY <1>1, <1>2, <1>3
      <3> QED
        BY <1>1, <1>2, <3>1
    <2>4. refills' * (rate - 1)
            = refills * (rate - 1) + (IF Refill = Same THEN 0 ELSE rate - 1)
      BY <1>1, <1>3
    <2>5. /\ rate * (last - since) = rate * last - rate * since
          /\ rate * (last' - since) = rate * Refill.last - rate * since
      BY <1>1, <1>2, <1>3
    <2> QED
      BY <1>1, <1>2, <1>3, <2>1, <2>2, <2>3, <2>4, <2>5
  <1> QED
    BY <1>4, <1>5 DEF Conservation

\* The books of an account with t tokens and nothing granted balance.
LEMMA FreshBalance ==
    ASSUME NEW t \in Nat, NEW l \in Nat, NEW r \in Nat
    PROVE  (0 + t) * Scale <= t * Scale + r * (l - l) + 0 * (r - 1)
  <1>1. t * Scale \in Nat
    BY ScaleAssumption
  <1>2. 0 + t = t /\ l - l = 0 /\ r * 0 = 0 /\ 0 * (r - 1) = 0
    OBVIOUS
  <1> QED
    BY <1>1, <1>2

\* An account that set_rate or set_burst begins anew balances.
LEMMA RebasedConserves ==
    ASSUME Rebase, TypeOK' PROVE Conservation'
  <1>1. tokens' \in Nat /\ last' \in Nat /\ rate' \in Nat
    BY DEF TypeOK
  <1>2. (0 + tokens') * Scale
          <= tokens' * Scale + rate' * (last' - last') + 0 * (rate' - 1)
    BY <1>1, FreshBalance
  <1>3. size' = tokens' /\ since' = last' /\ spent' = 0 /\ refills' = 0
    BY DEF Rebase
  <1> QED
    BY <1>2, <1>3, Zenon DEF Conservation

-----------------------------------------------------------------------------
(* The invariant holds at first and is kept by every step.                 *)

\* A new limiter is full and has granted nothing.
LEMMA InitEstablishes == Init => IInv
  <1> SUFFICES ASSUME Init PROVE IInv
    OBVIOUS
  <1>1. rate \in Rates /\ burst \in Rates \cup Bursts
    BY DEF Init
  <1>2. rate \in Nat /\ burst \in Nat /\ Scale \in Nat
    BY <1>1, SetsAssumption, ScaleAssumption
  <1>3. TypeOK
    BY <1>2 DEF Init, TypeOK, NotAsked
  <1>4. Conservation
    BY <1>2 DEF Init, Conservation
  <1> QED
    BY <1>1, <1>3, <1>4 DEF IInv

\* Every call and every tick of the clock keeps it.
LEMMA StepKeeps == IInv /\ [Next]_vars => IInv'
  <1> SUFFICES ASSUME IInv, [Next]_vars PROVE IInv'
    OBVIOUS
  <1> USE SetsAssumption, ScaleAssumption
  <1>1. ASSUME NEW n \in Sizes, Allow(n) PROVE IInv'
    <2>1. \E k \in Nat : k <= Refill.tokens /\ Take(k)
      <3>1. Refill.tokens \in Nat
        BY <1>1, RefillFacts DEF Allow, IInv, TypeOK
      <3> QED
        BY <1>1, <3>1 DEF Allow
    <2>2. rate # 0 /\ UNCHANGED <<rate, burst, now, size, since>>
      BY <1>1 DEF Allow
    <2>3. asked' \in [n : Nat, at : Nat]
      BY <1>1 DEF Allow, IInv, TypeOK, NotAsked
    <2> QED
      BY <2>1, <2>2, <2>3, TakeKeeps DEF IInv, TypeOK
  <1>2. ASSUME NEW n \in Sizes, Consume(n) PROVE IInv'
    <2>1. \E k \in Nat : k <= Refill.tokens /\ Take(k)
      <3>1. Refill.tokens \in Nat
        BY <1>2, RefillFacts DEF Consume, IInv, TypeOK
      <3> QED
        BY <1>2, <3>1 DEF Consume
    <2>2. rate # 0 /\ UNCHANGED <<rate, burst, now, size, since>>
      BY <1>2 DEF Consume
    <2>3. asked' \in [n : Nat, at : Nat]
      BY <1>2 DEF Consume, NotAsked
    <2> QED
      BY <2>1, <2>2, <2>3, TakeKeeps DEF IInv, TypeOK
  <1>3. ASSUME NEW n \in Sizes, Delay(n) PROVE IInv'
    <2>1. /\ rate # 0 /\ Take(0) /\ UNCHANGED <<rate, burst, now, size, since>>
          /\ asked' = [n |-> n, at |-> now + DelayTicks(n)]
      BY <1>3 DEF Delay
    <2>2. Refill.tokens \in Nat /\ rate \in Nat \ {0} /\ now \in Nat
      BY <2>1, RefillFacts DEF IInv, TypeOK
    <2>3. DelayTicks(n) \in Nat
      <3>1. CASE Refill.tokens >= n
        BY <3>1 DEF DelayTicks
      <3>2. CASE ~(Refill.tokens >= n)
        <4> DEFINE wait == ((n - Refill.tokens) * Scale) % (MaxWord + 1)
        <4>1. wait \in Nat
          <5>1. (n - Refill.tokens) * Scale \in Int /\ MaxWord + 1 \in Nat \ {0}
            BY <2>2
          <5> QED
            BY <5>1
        <4> HIDE DEF wait
        <4>2. wait \div rate \in Nat
          BY <2>2, <4>1, DivisionBounds
        <4> QED
          BY <3>2, <4>2 DEF DelayTicks, wait
      <3> QED
        BY <3>1, <3>2
    <2>4. asked' \in [n : Nat, at : Nat]
      BY <2>1, <2>2, <2>3
    <2> QED
      BY <2>1, <2>2, <2>4, TakeKeeps DEF IInv, TypeOK
  <1>4. ASSUME NEW r \in Rates, SetRate(r) PROVE IInv'
    <2>1. /\ tokens' = Refill.tokens /\ last' = Refill.last /\ rate' = r
          /\ Rebase /\ UNCHANGED <<burst, now>>
      BY <1>4 DEF SetRate
    <2>2. Refill.tokens \in 0 .. burst /\ Refill.last \in 0 .. now
      <3>1. CASE rate = 0
        BY <3>1 DEF Refill, Same, IInv, TypeOK
      <3>2. CASE rate # 0
        BY <3>2, RefillFacts DEF IInv, TypeOK
      <3> QED
        BY <3>1, <3>2
    <2>3. TypeOK'
      BY <2>1, <2>2 DEF Rebase, NotAsked, IInv, TypeOK
    <2>4. burst' \in Rates \cup Bursts
      BY <2>1 DEF IInv
    <2> QED
      BY <2>1, <2>3, <2>4, RebasedConserves DEF IInv
  <1>5. ASSUME NEW b \in Bursts, SetBurst(b) PROVE IInv'
    <2>1. TypeOK' /\ Rebase /\ rate' \in Rates /\ burst' \in Bursts
      BY <1>5 DEF SetBurst, Rebase, NotAsked, IInv, TypeOK
    <2> QED
      BY <2>1, RebasedConserves DEF IInv
  <1>6. ASSUME NEW d \in Steps, Tick(d) PROVE IInv'
    BY <1>6 DEF Tick, IInv, TypeOK, Conservation
  <1>7. CASE UNCHANGED vars
    BY <1>7 DEF vars, IInv, TypeOK, Conservation
  <1> QED
    BY <1>1, <1>2, <1>3, <1>4, <1>5, <1>6, <1>7 DEF Next

\* The inductive invariant of the token bucket.
THEOREM Invariance == Spec => []IInv
  BY InitEstablishes, StepKeeps, PTL DEF Spec

\* The unsigned subtractions of refill never wrap: the tokens stay within the
\* burst and the last refill is never ahead of the clock.
THEOREM TypeCorrect == Spec => []TypeOK
  <1>1. IInv => TypeOK
    BY DEF IInv
  <1> QED
    BY <1>1, Invariance, PTL

\* clm_ratelimit_allow and clm_ratelimit_consume never grant more than the
\* bucket and the time accounted for, but for a tick's worth at each refill.
THEOREM AlwaysConserved == Spec => []Conservation
  <1>1. IInv => Conservation
    BY DEF IInv
  <1> QED
    BY <1>1, Invariance, PTL

-----------------------------------------------------------------------------
(* Waiting as long as clm_ratelimit_delay said.  What was asked for is in   *)
(* the bucket, or the tokens and the time up to one tick past the answer    *)
(* earn it.                                                                 *)
Promised ==
    asked.n > 0 /\ asked.n <= burst =>
        /\ rate # 0
        /\ \/ asked.n <= tokens
           \/ asked.n * Scale + rate * last <= tokens * Scale + rate * (asked.at + 1)

DelayInv == IInv /\ Promised

\* A refill takes no token away, and unless it fills the bucket it moves the
\* clock on for no more time than the tokens it adds account for.
LEMMA RefillLosesNothing ==
    ASSUME TypeOK, rate \in Rates, burst \in Rates \cup Bursts, rate # 0
    PROVE  /\ tokens <= Refill.tokens
           /\ \/ Refill.tokens = burst
              \/ tokens * Scale + rate * Refill.last <= Refill.tokens * Scale + rate * last
  <1> DEFINE used == (Added * Scale) \div rate
  <1>1. /\ rate \in Nat \ {0} /\ burst \in Nat /\ tokens \in 0 .. burst
        /\ last \in Nat /\ now \in Nat /\ last <= now /\ Scale \in Nat \ {0}
        /\ Elapsed \in Nat
    BY ScaleAssumption DEF TypeOK, Elapsed
  <1>2. CASE Refill = Same
    BY <1>1, <1>2 DEF Same
  <1>3. CASE Refill = Full
    BY <1>1, <1>3 DEF Full
  <1>4. CASE Refill = Partly
    <2>1. Added \in Nat
      <3>1. rate * Elapsed \in Nat
        BY <1>1, ProductMonotone
      <3> QED
        BY <1>1, <3>1, DivisionBounds DEF Added
    <2> DEFINE earned == Added * Scale
    <2>2. earned \in Nat
      BY <1>1, <2>1, ProductMonotone
    <2>3. used \in Nat /\ rate * used <= earned
      <3> HIDE DEF earned
      <3>1. earned \div rate \in Nat /\ rate * (earned \div rate) <= earned
        BY <1>1, <2>2, DivisionBounds
      <3> QED
        BY <3>1 DEF earned
    <2>4. Refill.tokens = tokens + Added /\ Refill.last = last + used
      BY <1>4 DEF Partly
    <2>5. /\ Refill.tokens * Scale = tokens * Scale + earned
          /\ rate * Refill.last = rate * last + rate * used
      BY <1>1, <2>1, <2>3, <2>4
    <2> QED
      BY <1>1, <2>1, <2>2, <2>3, <2>4, <2>5
  <1> QED
    BY <1>2, <1>3, <1>4 DEF Refill

\* A call that takes nothing keeps what an earlier answer promised.
LEMMA TakeKeepsPromise ==
    ASSUME DelayInv, rate # 0, Take(0), UNCHANGED <<rate, burst, now, size, since, asked>>
    PROVE  Promised'
  <1> SUFFICES ASSUME asked.n > 0, asked.n <= burst
               PROVE  \/ asked.n <= tokens'
                      \/ asked.n * Scale + rate * last' <= tokens' * Scale + rate * (asked.at + 1)
    BY DEF Promised
  <1>1. /\ rate \in Nat \ {0} /\ burst \in Nat /\ tokens \in 0 .. burst /\ last \in Nat
        /\ Scale \in Nat \ {0} /\ asked.n \in Nat /\ asked.at \in Nat
        /\ TypeOK /\ rate \in Rates /\ burst \in Rates \cup Bursts
    BY ScaleAssumption DEF DelayInv, IInv, TypeOK
  <1>2. /\ Refill.tokens \in 0 .. burst /\ Refill.last \in Nat
        /\ tokens' = Refill.tokens /\ last' = Refill.last
    <2>1. Refill.tokens \in 0 .. burst /\ Refill.last \in last .. now /\ now \in Nat
      BY <1>1, RefillFacts DEF TypeOK
    <2>2. tokens' = Refill.tokens - 0 /\ last' = Refill.last
      BY DEF Take
    <2> QED
      BY <1>1, <2>1, <2>2
  <1>3. /\ tokens <= tokens'
        /\ \/ tokens' = burst
           \/ tokens * Scale + rate * last' <= tokens' * Scale + rate * last
    BY <1>1, <1>2, RefillLosesNothing
  <1>4. \/ asked.n <= tokens
        \/ asked.n * Scale + rate * last <= tokens * Scale + rate * (asked.at + 1)
    BY DEF DelayInv, Promised
  <1>5. /\ rate * last \in Nat /\ rate * last' \in Nat /\ tokens * Scale \in Nat
        /\ tokens' * Scale \in Nat /\ asked.n * Scale \in Nat
        /\ rate * (asked.at + 1) \in Nat
    BY <1>1, <1>2
  <1>6. CASE asked.n <= tokens \/ tokens' = burst
    BY <1>1, <1>2, <1>3, <1>6
  <1>7. CASE /\ asked.n * Scale + rate * last <= tokens * Scale + rate * (asked.at + 1)
             /\ tokens * Scale + rate * last' <= tokens' * Scale + rate * last
    BY <1>5, <1>7
  <1> QED
    BY <1>3, <1>4, <1>6, <1>7

\* What clm_ratelimit_delay answers is long enough but for one tick.
LEMMA DelayPromises ==
    ASSUME DelayInv, NEW n \in Sizes, Delay(n)
    PROVE  Promised'
  <1> SUFFICES ASSUME n > 0, n <= burst, Refill.tokens < n
               PROVE  n * Scale + rate * last'
                        <= tokens' * Scale + rate * (now + DelayTicks(n) + 1)
    <2>1. /\ rate # 0 /\ Take(0) /\ UNCHANGED <<rate, burst, now, size, since>>
          /\ asked' = [n |-> n, at |-> now + DelayTicks(n)]
      BY DEF Delay
    <2>2. Refill.tokens \in Nat /\ n \in Nat
      BY <2>1, RefillFacts, SetsAssumption DEF DelayInv, IInv, TypeOK
    <2>3. tokens' = Refill.tokens
      BY <2>1, <2>2 DEF Take
    <2> QED
      BY <2>1, <2>2, <2>3 DEF Promised
  <1>1. /\ rate \in Nat \ {0} /\ burst \in Nat /\ now \in Nat /\ n \in Nat
        /\ Scale \in Nat \ {0} /\ MaxWord \in Nat
        /\ TypeOK /\ rate \in Rates /\ burst \in Rates \cup Bursts
    BY ScaleAssumption, SetsAssumption DEF DelayInv, IInv, TypeOK, Delay
  <1>2. /\ Refill.tokens \in Nat /\ Refill.last \in Nat /\ Refill.last <= now
        /\ tokens' = Refill.tokens /\ last' = Refill.last
    <2>1. Refill.tokens \in 0 .. burst /\ Refill.last \in last .. now /\ last \in Nat
      BY <1>1, RefillFacts DEF TypeOK
    <2>2. tokens' = Refill.tokens - 0 /\ last' = Refill.last
      BY DEF Delay, Take
    <2> QED
      BY <1>1, <2>1, <2>2
  <1> DEFINE lack == (n - Refill.tokens) * Scale
  <1>3. lack \in Nat /\ lack <= MaxWord
    <2>1. burst * Scale <= MaxWord
      BY <1>1, WordAssumption
    <2>2. n - Refill.tokens \in Nat /\ n - Refill.tokens <= burst
      BY <1>1, <1>2
    <2> QED
      BY <1>1, <2>1, <2>2, ProductMonotone
  <1>4. DelayTicks(n) = lack \div rate
    <2>1. lack % (MaxWord + 1) = lack
      <3> HIDE DEF lack
      <3> QED
        BY <1>1, <1>3
    <2> QED
      BY <1>1, <1>2, <2>1 DEF DelayTicks
  <1>5. DelayTicks(n) \in Nat /\ lack <= rate * DelayTicks(n) + (rate - 1)
    <2> HIDE DEF lack
    <2> QED
      BY <1>1, <1>3, <1>4, DivisionBounds
  <1>6. n * Scale = Refill.tokens * Scale + lack
    BY <1>1, <1>2
  <1>7. rate * (now + DelayTicks(n) + 1) = rate * now + rate * DelayTicks(n) + rate
    BY <1>1, <1>5
  <1>8. rate * last' <= rate * now /\ rate * last' \in Nat /\ rate * now \in Nat
    BY <1>1, <1>2, ProductMonotone
  <1>9. Refill.tokens * Scale \in Nat /\ rate * DelayTicks(n) \in Nat
    BY <1>1, <1>2, <1>5
  <1> HIDE DEF lack
  <1> QED
    BY <1>1, <1>2, <1>3, <1>5, <1>6, <1>7, <1>8, <1>9

\* Every step keeps the promise: the clock does not matter to it, a grant or
\* a new setting withdraws it, and a refusal or another question only refills.
LEMMA PromiseKept == DelayInv /\ [Next]_vars => DelayInv'
  <1> SUFFICES ASSUME DelayInv, [Next]_vars PROVE Promised'
    BY StepKeeps DEF DelayInv
  <1>1. ASSUME asked' = NotAsked PROVE Promised'
    BY <1>1 DEF Promised, NotAsked
  <1>2. ASSUME NEW n \in Sizes, Allow(n) PROVE Promised'
    BY <1>1, <1>2, TakeKeepsPromise DEF Allow
  <1>3. ASSUME NEW n \in Sizes, Consume(n) PROVE Promised'
    BY <1>1, <1>3 DEF Consume
  <1>4. ASSUME NEW n \in Sizes, Delay(n) PROVE Promised'
    BY <1>4, DelayPromises
  <1>5. ASSUME NEW r \in Rates, SetRate(r) PROVE Promised'
    BY <1>1, <1>5 DEF SetRate, Rebase
  <1>6. ASSUME NEW b \in Bursts, SetBurst(b) PROVE Promised'
    BY <1>1, <1>6 DEF SetBurst, Rebase
  <1>7. ASSUME NEW d \in Steps, Tick(d) PROVE Promised'
    BY <1>7 DEF Tick, DelayInv, Promised
  <1>8. CASE UNCHANGED vars
    BY <1>8 DEF vars, DelayInv, Promised
  <1> QED
    BY <1>2, <1>3, <1>4, <1>5, <1>6, <1>7, <1>8 DEF Next

\* Once the time is up, the refill that comes first finds the tokens.
LEMMA PromiseSuffices == DelayInv => DelaySuffices
  <1> SUFFICES ASSUME DelayInv, asked.n > 0, asked.n <= burst, now > asked.at
               PROVE  Refill.tokens >= asked.n
    BY DEF DelaySuffices
  <1>1. /\ rate \in Nat \ {0} /\ burst \in Nat /\ tokens \in 0 .. burst
        /\ last \in Nat /\ now \in Nat /\ last <= now /\ Scale \in Nat \ {0}
        /\ asked.n \in Nat /\ asked.at \in Nat
        /\ Elapsed \in Nat /\ now = last + Elapsed
        /\ TypeOK /\ rate \in Rates /\ burst \in Rates \cup Bursts
    BY ScaleAssumption DEF DelayInv, Promised, IInv, TypeOK, Elapsed
  <1>2. tokens <= Refill.tokens /\ Refill.tokens \in 0 .. burst
    BY <1>1, RefillLosesNothing, RefillFacts
  <1>3. CASE asked.n <= tokens \/ Refill.tokens = burst
    BY <1>1, <1>2, <1>3
  <1>4. CASE /\ Refill.tokens # burst
             /\ asked.n * Scale + rate * last <= tokens * Scale + rate * (asked.at + 1)
    <2>1. /\ rate * Elapsed \in Nat /\ rate * last \in Nat
          /\ rate * now = rate * last + rate * Elapsed
      BY <1>1
    <2>2. rate * (asked.at + 1) <= rate * now /\ rate * (asked.at + 1) \in Nat
      BY <1>1, ProductMonotone
    <2>3. asked.n * Scale <= tokens * Scale + rate * Elapsed
      <3>1. asked.n * Scale \in Nat /\ tokens * Scale \in Nat
        BY <1>1
      <3> QED
        BY <1>4, <2>1, <2>2, <3>1
    <2>4. Added \in Nat /\ rate * Elapsed <= Scale * Added + (Scale - 1)
      <3> DEFINE worth == rate * Elapsed
      <3>1. worth \in Nat
        BY <2>1
      <3> HIDE DEF worth
      <3>2. worth \div Scale \in Nat /\ worth <= Scale * (worth \div Scale) + (Scale - 1)
        BY <1>1, <3>1, DivisionBounds
      <3> QED
        BY <3>2 DEF worth, Added
    <2>5. asked.n <= tokens + Added
      <3>1. Scale * asked.n < Scale * (tokens + Added + 1)
        BY <1>1, <2>1, <2>3, <2>4
      <3>2. SUFFICES ASSUME asked.n >= tokens + Added + 1 PROVE FALSE
        BY <1>1, <2>4
      <3>3. (tokens + Added + 1) * Scale <= asked.n * Scale
        BY <1>1, <2>4, <3>2, ProductMonotone
      <3> QED
        BY <1>1, <2>4, <3>1, <3>3
    <2>6. Refill.tokens = tokens + Added
      <3>1. Elapsed = 0 => Added = 0
        BY <1>1, DivisionBounds DEF Added
      <3> QED
        BY <1>1, <1>4, <2>4, <3>1 DEF Refill, Same, Full, Partly
    <2> QED
      BY <2>5, <2>6
  <1> QED
    BY <1>3, <1>4 DEF DelayInv, Promised

\* Waiting one tick longer than clm_ratelimit_delay said is enough, for every
\* rate, burst and pattern of calls in between.
THEOREM DelayAlwaysSuffices == Spec => []DelaySuffices
  <1>1. Init => DelayInv
    <2>1. Init => Promised
      BY DEF Init, Promised, NotAsked
    <2> QED
      BY <2>1, InitEstablishes DEF DelayInv
  <1>2. Spec => []DelayInv
    BY <1>1, PromiseKept, PTL DEF Spec
  <1> QED
    BY <1>2, PromiseSuffices, PTL
=============================================================================
