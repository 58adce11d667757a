---------------------------- MODULE Agent_proofs ----------------------------
(***************************************************************************)
(* Proofs about Agent for any number of texts, turns, rounds and retries,  *)
(* any replies of the server and any calls from the frontend's callbacks.  *)
(*                                                                         *)
(* A turn has at most one thing that will wake it up (TurnOK), a start     *)
(* under way is on top of the C stack (StartOnTop), and the turns owed an  *)
(* on_turn_done are counted by the stack (OneTurnDone).  With a timer that *)
(* never fails a busy turn has exactly one.                                *)
(***************************************************************************)
EXTENDS Agent, SequencesExt, SequenceTheorems, FiniteSetTheorems, TLAPS

-----------------------------------------------------------------------------
(* The sequences of the stack of running functions.                        *)

\* A nonempty stack without its top.
LEMMA FrontLast ==
    ASSUME NEW S, NEW s \in Seq(S), s # <<>>
    PROVE  /\ Len(s) \in Nat /\ Len(s) >= 1
           /\ Last(s) = s[Len(s)] /\ Last(s) \in S
           /\ Front(s) \in Seq(S) /\ Len(Front(s)) = Len(s) - 1
           /\ \A i \in 1 .. Len(s) - 1 : Front(s)[i] = s[i]
<1>1. Len(s) \in Nat /\ Len(s) >= 1
  BY EmptySeq
<1>2. Last(s) = s[Len(s)] /\ Last(s) \in S
  BY <1>1, ElementOfSeq DEF Last
<1>3. \A i \in 1 .. Len(s) - 1 : s[i] \in S
  BY <1>1, ElementOfSeq
<1>4. /\ SubSeq(s, 1, Len(s) - 1) \in Seq(S)
      /\ Len(SubSeq(s, 1, Len(s) - 1)) =
           IF 1 <= Len(s) - 1 THEN Len(s) - 1 - 1 + 1 ELSE 0
      /\ \A i \in 1 .. Len(s) - 1 - 1 + 1 : SubSeq(s, 1, Len(s) - 1)[i] = s[1 + i - 1]
  BY <1>1, <1>3, SubSeqProperties
<1>5. \A i \in 1 .. Len(s) - 1 : SubSeq(s, 1, Len(s) - 1)[i] = s[i]
  BY <1>1, <1>4
<1>6. Len(SubSeq(s, 1, Len(s) - 1)) = Len(s) - 1
  <2> DEFINE n == Len(s)
             m == Len(SubSeq(s, 1, n - 1))
  <2>1. n \in Nat /\ n >= 1 /\ m = IF 1 <= n - 1 THEN n - 1 - 1 + 1 ELSE 0
    BY <1>1, <1>4
  <2> HIDE DEF n, m
  <2>2. m = n - 1
    BY <2>1
  <2> QED BY <2>2 DEF n, m
<1>7. Front(s) = SubSeq(s, 1, Len(s) - 1)
  BY DEF Front
<1> QED BY <1>1, <1>2, <1>4, <1>5, <1>6, <1>7

\* A stack with one more frame, and with two.
LEMMA PushOne ==
    ASSUME NEW S, NEW s \in Seq(S), NEW f \in S
    PROVE  /\ Len(s) \in Nat
           /\ Append(s, f) \in Seq(S) /\ Len(Append(s, f)) = Len(s) + 1
           /\ \A i \in 1 .. Len(s) : i \in 1 .. Len(s) + 1 /\ Append(s, f)[i] = s[i]
           /\ Append(s, f)[Len(s) + 1] = f
           /\ Len(s) + 1 \in 1 .. Len(s) + 1
           /\ \A i \in 1 .. Len(s) + 1 : i \in 1 .. Len(s) \/ i = Len(s) + 1
<1>1. Len(s) \in Nat
  OBVIOUS
<1>2. /\ Append(s, f) \in Seq(S) /\ Len(Append(s, f)) = Len(s) + 1
      /\ \A i \in 1 .. Len(s) : Append(s, f)[i] = s[i]
      /\ Append(s, f)[Len(s) + 1] = f
  BY AppendProperties
<1> QED BY <1>1, <1>2

-----------------------------------------------------------------------------
ScalarOK ==
    /\ state \in States
    /\ req \in {"none", "turn", "upload", "compact"}
    /\ timer \in {"none", "llm", "compact"}
    /\ parked \in BOOLEAN
    /\ batch \in BOOLEAN
    /\ resume \in BOOLEAN
    /\ accepted \in Nat
    /\ ended \in Nat
    /\ kind \in {"none", "prompt", "compact"}

TypeOK == ScalarOK /\ frames \in Seq(Frames)

StartOnTop == \A k \in 1 .. Len(frames) - 1 : frames[k].at # "start"

\* What a turn waits for; `start' says that a start of it is under way.
TurnOK(start) ==
    /\ start \/ req # "none" \/ timer # "none" \/ batch => Busy
    /\ start => req = "none" /\ timer = "none" /\ ~batch
    /\ req # "none" => timer = "none" /\ ~batch
    /\ timer # "none" => ~batch
    /\ ~TimersMayFail =>
         /\ Busy => start \/ req # "none" \/ timer # "none" \/ batch
         /\ parked <=> timer = "llm"
    /\ start \/ req \in {"turn", "upload"} \/ timer = "llm" \/ batch => kind = "prompt"
    /\ resume => ~start

IInv == TypeOK /\ StartOnTop /\ TurnOK(In("start")) /\ ResumeExact /\ OneTurnDone

-----------------------------------------------------------------------------
(* The C stack.                                                            *)

LandingOf(s) == {k \in 1 .. Len(s) : s[k].at = "state"}

\* A stack on which a call may be made: no start is under way in it, and the
\* same turns are landing as before.
Clean(s) ==
    /\ s \in Seq(Frames)
    /\ \A k \in 1 .. Len(s) : s[k].at # "start"
    /\ Cardinality(LandingOf(s)) = Cardinality(Landing)

LEMMA LandingFacts ==
    ASSUME NEW s \in Seq(Frames)
    PROVE  IsFiniteSet(LandingOf(s)) /\ Cardinality(LandingOf(s)) \in Nat
<1>1. IsFiniteSet(1 .. Len(s))
  BY FS_Interval
<1>2. IsFiniteSet(LandingOf(s))
  BY <1>1, FS_Subset DEF LandingOf
<1> QED BY <1>2, FS_CardinalityType

LEMMA LandingHere == TypeOK => Landing = LandingOf(frames) /\ Cardinality(Landing) \in Nat
<1> SUFFICES ASSUME TypeOK PROVE Landing = LandingOf(frames) /\ Cardinality(Landing) \in Nat
  OBVIOUS
<1>1. frames \in Seq(Frames) /\ DOMAIN frames = 1 .. Len(frames)
  BY LenProperties DEF TypeOK
<1>2. Landing = LandingOf(frames)
  BY <1>1 DEF Landing, LandingOf
<1> QED BY <1>1, <1>2, LandingFacts

\* A frame joins the landing turns exactly when it is one.
LEMMA PushLanding ==
    ASSUME NEW s \in Seq(Frames), NEW f \in Frames
    PROVE  Cardinality(LandingOf(Append(s, f))) =
             Cardinality(LandingOf(s)) + (IF f.at = "state" THEN 1 ELSE 0)
<1> DEFINE n == Len(s)
           t == Append(s, f)
<1>1. /\ n \in Nat /\ Len(t) = n + 1 /\ t[n + 1] = f
      /\ \A i \in 1 .. n : i \in 1 .. n + 1 /\ t[i] = s[i]
      /\ n + 1 \in 1 .. n + 1 /\ \A i \in 1 .. n + 1 : i \in 1 .. n \/ i = n + 1
  BY PushOne
<1>2. n + 1 \notin LandingOf(s)
  BY <1>1 DEF LandingOf
<1> HIDE DEF t
<1>3. CASE f.at = "state"
  <2>1. LandingOf(t) = LandingOf(s) \cup {n + 1}
    BY <1>1, <1>3 DEF LandingOf
  <2>2. Cardinality(LandingOf(t)) = Cardinality(LandingOf(s)) + 1
    BY <1>2, <2>1, LandingFacts, FS_AddElement
  <2> QED BY <1>3, <2>2 DEF t
<1>4. CASE f.at # "state"
  <2>1. LandingOf(t) = LandingOf(s)
    BY <1>1, <1>4 DEF LandingOf
  <2> QED BY <1>4, <2>1, LandingFacts DEF t
<1> QED BY <1>3, <1>4

\* The stack without its top.
LEMMA PopFacts ==
    ASSUME TypeOK, StartOnTop, frames # <<>>
    PROVE  /\ Pop \in Seq(Frames) /\ Top \in Frames
           /\ \A k \in 1 .. Len(Pop) : Pop[k].at # "start"
           /\ Cardinality(Landing) =
                Cardinality(LandingOf(Pop)) + (IF Top.at = "state" THEN 1 ELSE 0)
<1> DEFINE n == Len(frames)
<1>1. /\ n \in Nat /\ n >= 1 /\ Pop = Front(frames) /\ Top = Last(frames) /\ Top = frames[n]
      /\ Top \in Frames /\ Pop \in Seq(Frames) /\ Len(Pop) = n - 1
      /\ \A k \in 1 .. n - 1 : Pop[k] = frames[k]
  <2>1. Pop = Front(frames) /\ Top = Last(frames)
    BY DEF Pop, Front, Top, Last
  <2> QED BY <2>1, FrontLast DEF TypeOK
<1>2. \A k \in 1 .. Len(Pop) : Pop[k].at # "start"
  BY <1>1 DEF StartOnTop
<1>3. frames = Append(Pop, Top)
  <2>1. Append(Pop, Top) \in Seq(Frames) /\ Len(Append(Pop, Top)) = n - 1 + 1
    BY <1>1, PushOne
  <2>2. \A k \in 1 .. n - 1 : Append(Pop, Top)[k] = Pop[k]
    BY <1>1, PushOne
  <2>3. Append(Pop, Top)[n - 1 + 1] = Top
    BY <1>1, PushOne
  <2>4. n - 1 + 1 = n /\ \A k \in 1 .. n : k \in 1 .. n - 1 \/ k = n
    BY <1>1
  <2>5. \A k \in 1 .. n : frames[k] = Append(Pop, Top)[k]
    BY <1>1, <2>2, <2>3, <2>4
  <2>6. frames \in Seq(Frames)
    BY DEF TypeOK
  <2> QED BY <2>1, <2>4, <2>5, <2>6, SeqEqual
<1>4. Cardinality(LandingOf(Append(Pop, Top))) =
        Cardinality(LandingOf(Pop)) + (IF Top.at = "state" THEN 1 ELSE 0)
  BY <1>1, PushLanding
<1> QED BY <1>1, <1>2, <1>3, <1>4, LandingHere

\* Calls are made from the loop or from a callback, never into a start.
LEMMA CleanFrames ==
    ASSUME TypeOK, StartOnTop, ~In("start")
    PROVE  Clean(frames)
<1>1. frames \in Seq(Frames) /\ Len(frames) \in Nat
  BY DEF TypeOK
<1>2. ASSUME NEW k \in 1 .. Len(frames) PROVE frames[k].at # "start"
  <2>1. CASE k = Len(frames)
    <3>1. frames # <<>>
      BY <1>1, <2>1
    <3> QED BY <2>1, <3>1 DEF In, Top
  <2>2. CASE k # Len(frames)
    <3>1. k \in 1 .. Len(frames) - 1
      BY <1>1, <2>2
    <3> QED BY <3>1 DEF StartOnTop
  <2> QED BY <2>1, <2>2
<1> QED BY <1>1, <1>2, LandingHere DEF Clean

LEMMA CleanPop ==
    ASSUME TypeOK, StartOnTop, frames # <<>>, Top.at # "state"
    PROVE  Clean(Pop)
<1>1. Pop \in Seq(Frames) /\ Cardinality(LandingOf(Pop)) \in Nat
  BY PopFacts, LandingFacts
<1> QED BY <1>1, PopFacts DEF Clean

\* How a step leaves the stack.
LEMMA StackAfter ==
    ASSUME NEW s \in Seq(Frames), \A k \in 1 .. Len(s) : s[k].at # "start"
    PROVE  /\ frames' = s =>
                /\ frames' \in Seq(Frames) /\ StartOnTop' /\ ~In("start")'
                /\ Cardinality(Landing)' = Cardinality(LandingOf(s))
           /\ \A f \in Frames : frames' = Append(s, f) =>
                /\ frames' \in Seq(Frames) /\ StartOnTop'
                /\ In("start")' <=> f.at = "start"
                /\ Cardinality(Landing)' =
                     Cardinality(LandingOf(s)) + (IF f.at = "state" THEN 1 ELSE 0)
<1>1. ASSUME frames' = s
      PROVE  /\ frames' \in Seq(Frames) /\ StartOnTop' /\ ~In("start")'
             /\ Cardinality(Landing)' = Cardinality(LandingOf(s))
  <2>1. Len(s) \in Nat /\ DOMAIN s = 1 .. Len(s)
    BY LenProperties
  <2>2. StartOnTop'
    BY <1>1, <2>1 DEF StartOnTop
  <2>3. s # <<>> => Len(s) \in 1 .. Len(s)
    BY <2>1, EmptySeq
  <2>4. ~In("start")'
    BY <1>1, <2>3 DEF In, Top
  <2>5. Landing' = LandingOf(s)
    BY <1>1, <2>1 DEF Landing, LandingOf
  <2> QED BY <1>1, <2>2, <2>4, <2>5
<1>2. ASSUME NEW f \in Frames, frames' = Append(s, f)
      PROVE  /\ frames' \in Seq(Frames) /\ StartOnTop'
             /\ In("start")' <=> f.at = "start"
             /\ Cardinality(Landing)' =
                  Cardinality(LandingOf(s)) + (IF f.at = "state" THEN 1 ELSE 0)
  <2>1. /\ Len(s) \in Nat /\ frames' \in Seq(Frames) /\ Len(frames') = Len(s) + 1
        /\ \A i \in 1 .. Len(s) : frames'[i] = s[i]
        /\ frames'[Len(s) + 1] = f
    BY <1>2, PushOne
  <2>2. StartOnTop'
    <3>1. \A k \in 1 .. Len(frames') - 1 : k \in 1 .. Len(s)
      BY <2>1
    <3> QED BY <2>1, <3>1 DEF StartOnTop
  <2>3. frames' # <<>>
    BY <2>1, EmptySeq
  <2>4. In("start")' <=> f.at = "start"
    BY <2>1, <2>3 DEF In, Top
  <2>5. DOMAIN frames' = 1 .. Len(frames')
    BY <2>1, LenProperties
  <2>6. Landing' = LandingOf(frames')
    BY <2>5 DEF Landing, LandingOf
  <2>7. Cardinality(LandingOf(frames')) =
          Cardinality(LandingOf(s)) + (IF f.at = "state" THEN 1 ELSE 0)
    BY <1>2, PushLanding
  <2> QED BY <2>1, <2>2, <2>4, <2>6, <2>7
<1> QED BY <1>1, <1>2

-----------------------------------------------------------------------------
(* How a step ends.                                                        *)

One(b) == IF b THEN 1 ELSE 0

\* The step returns to its caller with nothing on the stack.
LEMMA StepReturns ==
    ASSUME IInv, NEW s, Clean(s), frames' = s, ScalarOK', TurnOK(FALSE)', ResumeExact',
           accepted' - ended' = accepted - ended + One(Busy') - One(Busy)
    PROVE  IInv'
<1> USE DEF IInv
<1>1. /\ s \in Seq(Frames) /\ \A k \in 1 .. Len(s) : s[k].at # "start"
      /\ Cardinality(LandingOf(s)) = Cardinality(Landing)
  BY DEF Clean
<1>2. /\ frames' \in Seq(Frames) /\ StartOnTop' /\ ~In("start")'
      /\ Cardinality(Landing)' = Cardinality(Landing)
  BY <1>1, StackAfter
<1>3. TurnOK(In("start"))'
  BY <1>2 DEF TurnOK
<1>4. Cardinality(Landing) \in Nat /\ accepted \in Nat /\ ended \in Nat
  BY LandingHere DEF TypeOK, ScalarOK
<1>5. OneTurnDone'
  <2>1. accepted - ended = One(Busy) + Cardinality(Landing)
    BY DEF OneTurnDone, One
  <2>2. One(Busy) \in Int /\ One(Busy') \in Int /\ accepted' \in Nat /\ ended' \in Nat
    BY DEF One, ScalarOK
  <2>3. accepted' - ended' = One(Busy') + Cardinality(Landing)
    BY <1>4, <2>1, <2>2
  <2> QED BY <1>2, <2>3 DEF OneTurnDone, One
<1> QED BY <1>2, <1>3, <1>5 DEF TypeOK

\* It calls clm_agent_start_turn.
LEMMA StepStarts ==
    ASSUME IInv, NEW s, Clean(s), Start(s), ScalarOK', TurnOK(TRUE)', ResumeExact',
           accepted' - ended' = accepted - ended + One(Busy') - One(Busy)
    PROVE  IInv'
<1> USE DEF IInv
<1> DEFINE f == Frame("start", {})
<1>1. /\ s \in Seq(Frames) /\ \A k \in 1 .. Len(s) : s[k].at # "start"
      /\ Cardinality(LandingOf(s)) = Cardinality(Landing)
  BY DEF Clean
<1>2. f \in Frames /\ f.at = "start" /\ frames' = Append(s, f)
  BY DEF Frame, Frames, Start
<1> HIDE DEF f
<1>3. Cardinality(Landing) \in Nat /\ accepted \in Nat /\ ended \in Nat
  BY LandingHere DEF TypeOK, ScalarOK
<1>4. /\ frames' \in Seq(Frames) /\ StartOnTop' /\ In("start")'
      /\ Cardinality(Landing)' = Cardinality(Landing)
  BY <1>1, <1>2, <1>3, StackAfter
<1>5. TurnOK(In("start"))'
  BY <1>4 DEF TurnOK
<1>6. OneTurnDone'
  <2>1. accepted - ended = One(Busy) + Cardinality(Landing)
    BY DEF OneTurnDone, One
  <2>2. One(Busy) \in Int /\ One(Busy') \in Int /\ accepted' \in Nat /\ ended' \in Nat
    BY DEF One, ScalarOK
  <2>3. accepted' - ended' = One(Busy') + Cardinality(Landing)
    BY <1>3, <2>1, <2>2
  <2> QED BY <1>4, <2>3 DEF OneTurnDone, One
<1> QED BY <1>4, <1>5, <1>6 DEF TypeOK

\* The turn lands.
LEMMA StepLands ==
    ASSUME IInv, NEW s, Clean(s), NEW st \in {"complete", "error"}, Land(st, s),
           Busy, resume' = FALSE, UNCHANGED <<accepted, ended, kind>>
    PROVE  IInv'
<1> USE DEF IInv
<1> DEFINE f == Frame("state", {})
<1>1. /\ s \in Seq(Frames) /\ \A k \in 1 .. Len(s) : s[k].at # "start"
      /\ Cardinality(LandingOf(s)) = Cardinality(Landing)
  BY DEF Clean
<1>2. f \in Frames /\ f.at = "state" /\ frames' = Append(s, f)
  BY DEF Frame, Frames, Land
<1> HIDE DEF f
<1>3. Cardinality(Landing) \in Nat /\ accepted \in Nat /\ ended \in Nat
  BY LandingHere DEF TypeOK, ScalarOK
<1>4. /\ frames' \in Seq(Frames) /\ StartOnTop' /\ ~In("start")'
      /\ Cardinality(Landing)' = Cardinality(Landing) + 1
  BY <1>1, <1>2, <1>3, StackAfter
<1>5. /\ state' \in {"complete", "error"} /\ ~Busy'
      /\ req' = "none" /\ timer' = "none" /\ parked' = FALSE /\ batch' = FALSE
  BY DEF Land, Busy
<1>6. ScalarOK'
  BY <1>5 DEF TypeOK, ScalarOK, States
<1>7. TurnOK(In("start"))' /\ ResumeExact'
  BY <1>4, <1>5 DEF TurnOK, ResumeExact
<1>8. OneTurnDone'
  BY <1>3, <1>4, <1>5 DEF OneTurnDone
<1> QED BY <1>4, <1>6, <1>7, <1>8 DEF TypeOK

-----------------------------------------------------------------------------
(* The agent's API.                                                        *)

\* Accept keeps the invariant on a stack that no start is under way on.
LEMMA AcceptKeeps ==
    ASSUME IInv, NEW s, Clean(s), ~Busy, Accept(s)
    PROVE  IInv'
<1> USE DEF IInv
<1>1. /\ state' = "thinking" /\ Start(s) /\ accepted' = accepted + 1 /\ kind' = "prompt"
      /\ UNCHANGED <<req, timer, parked, batch, resume, ended>>
  BY DEF Accept, wakeVars, compactVars
<1>2. req = "none" /\ timer = "none" /\ ~batch /\ ~resume /\ (~TimersMayFail => ~parked)
  BY DEF TurnOK, ResumeExact
<1>3. Busy' /\ accepted \in Nat /\ ended \in Nat
  BY <1>1 DEF Busy, TypeOK, ScalarOK
<1>4. ScalarOK'
  BY <1>1, <1>3 DEF TypeOK, ScalarOK, States
<1>5. TurnOK(TRUE)' /\ ResumeExact'
  BY <1>1, <1>2, <1>3 DEF TurnOK, ResumeExact
<1>6. accepted' - ended' = accepted - ended + One(Busy') - One(Busy)
  BY <1>1, <1>3 DEF One
<1> QED BY <1>1, <1>4, <1>5, <1>6, StepStarts

\* Nothing of the turn changes.
LEMMA SameTurn ==
    ASSUME IInv, UNCHANGED <<state, req, timer, parked, batch, resume, kind, accepted, ended, frames>>
    PROVE  IInv'
<1> USE DEF IInv
<1>1. TypeOK' /\ StartOnTop' /\ In("start")' = In("start") /\ Landing' = Landing /\ Busy' = Busy
  BY DEF TypeOK, ScalarOK, StartOnTop, In, Top, Landing, Busy
<1>2. TurnOK(In("start"))'
  BY <1>1 DEF TurnOK
<1>3. ResumeExact' /\ OneTurnDone'
  BY <1>1 DEF ResumeExact, OneTurnDone
<1> QED BY <1>1, <1>2, <1>3

\* An idle agent has no start under way.
LEMMA IdleClean ==
    ASSUME IInv, ~Busy
    PROVE  Clean(frames) /\ ~In("start")
<1>1. ~In("start")
  BY DEF IInv, TurnOK
<1> QED BY <1>1, CleanFrames DEF IInv

LEMMA SubmitKeeps ==
    ASSUME IInv, Submit
    PROVE  IInv'
  BY IdleClean, AcceptKeeps DEF Submit

LEMMA NotifyKeeps ==
    ASSUME IInv, NEW t \in Texts, Notify(t)
    PROVE  IInv'
<1>1. CASE Busy
  <2>1. UNCHANGED <<state, req, timer, parked, batch, resume, kind, accepted, ended, frames>>
    BY <1>1 DEF Notify, OnlyPlace, wakeVars, compactVars, historyVars
  <2> QED BY <2>1, SameTurn
<1>2. CASE ~Busy
  <2>1. Accept(frames)
    BY <1>2 DEF Notify
  <2> QED BY <1>2, <2>1, IdleClean, AcceptKeeps
<1> QED BY <1>1, <1>2

LEMMA CompactKeeps ==
    ASSUME IInv, Compact
    PROVE  IInv'
<1> USE DEF IInv
<1>1. ~Busy /\ UNCHANGED <<timer, parked, batch, frames, resume, ended>>
  BY DEF Compact
<1>2. Clean(frames) /\ ~In("start")
  BY <1>1, IdleClean
<1>3. req = "none" /\ timer = "none" /\ ~batch /\ ~resume /\ (~TimersMayFail => ~parked)
  BY <1>1 DEF TurnOK, ResumeExact
<1>4. accepted \in Nat /\ ended \in Nat
  BY DEF TypeOK, ScalarOK
<1>5. CASE state' = "thinking" /\ req' = "compact" /\ accepted' = accepted + 1 /\ kind' = "compact"
  <2>1. Busy' /\ ScalarOK'
    BY <1>1, <1>4, <1>5 DEF Busy, TypeOK, ScalarOK, States
  <2>2. TurnOK(FALSE)' /\ ResumeExact'
    BY <1>1, <1>3, <1>5, <2>1 DEF TurnOK, ResumeExact
  <2>3. accepted' - ended' = accepted - ended + One(Busy') - One(Busy)
    BY <1>1, <1>4, <1>5, <2>1 DEF One
  <2> QED BY <1>1, <1>2, <2>1, <2>2, <2>3, StepReturns
<1>6. CASE state' = "error" /\ UNCHANGED <<req, accepted, kind>>
  <2>1. ~Busy' /\ ScalarOK'
    BY <1>1, <1>4, <1>6 DEF Busy, TypeOK, ScalarOK, States
  <2>2. TurnOK(FALSE)' /\ ResumeExact'
    BY <1>1, <1>3, <1>6, <2>1 DEF TurnOK, ResumeExact
  <2>3. accepted' - ended' = accepted - ended + One(Busy') - One(Busy)
    BY <1>1, <1>4, <1>6, <2>1 DEF One
  <2> QED BY <1>1, <1>2, <2>1, <2>2, <2>3, StepReturns
<1> QED BY <1>5, <1>6 DEF Compact, historyVars

LEMMA CancelKeeps ==
    ASSUME IInv, Cancel
    PROVE  IInv'
<1> USE DEF IInv
<1>1. ~In("start") /\ UNCHANGED <<ended, accepted, kind>>
  BY DEF Cancel
<1>2. CASE timer # "none" \/ req # "none"
  <2>1. resume' = FALSE /\ Land("complete", frames)
    BY <1>2 DEF Cancel
  <2>2. Busy
    BY <1>2 DEF TurnOK
  <2> QED BY <1>1, <2>1, <2>2, CleanFrames, StepLands
<1>3. CASE ~(timer # "none" \/ req # "none")
  <2>1. UNCHANGED <<state, req, timer, parked, batch, frames, resume>>
    BY <1>3 DEF Cancel, wakeVars
  <2> QED BY <1>1, <2>1, SameTurn
<1> QED BY <1>2, <1>3

-----------------------------------------------------------------------------
(* Starting a request.                                                     *)

\* The host has a request of a turn that was being started.
LEMMA PostedKeeps ==
    ASSUME IInv, In("start"), NEW rq \in {"turn", "upload"}, Posted(rq),
           state' \in {"thinking", "calling_tool", "rate_limited"},
           UNCHANGED <<resume, accepted, ended, kind>>
    PROVE  IInv'
<1> USE DEF IInv
<1>1. req' = rq /\ frames' = Pop /\ UNCHANGED <<timer, parked, batch>>
  BY DEF Posted
<1>2. /\ Busy /\ req = "none" /\ timer = "none" /\ ~batch /\ kind = "prompt" /\ ~resume
      /\ ~TimersMayFail => ~parked
  BY DEF TurnOK
<1>3. Clean(Pop)
  BY CleanPop DEF In
<1>4. Busy' /\ accepted \in Nat /\ ended \in Nat
  BY DEF Busy, TypeOK, ScalarOK
<1>5. ScalarOK'
  BY <1>1 DEF TypeOK, ScalarOK, States
<1>6. TurnOK(FALSE)' /\ ResumeExact'
  BY <1>1, <1>2, <1>4 DEF TurnOK, ResumeExact
<1>7. accepted' - ended' = accepted - ended + One(Busy') - One(Busy)
  BY <1>2, <1>4 DEF One
<1> QED BY <1>1, <1>3, <1>5, <1>6, <1>7, StepReturns

\* A turn that cannot be started lands.
LEMMA StartLands ==
    ASSUME IInv, In("start"), Land("error", Pop), UNCHANGED <<resume, accepted, ended, kind>>
    PROVE  IInv'
<1>1. Busy /\ resume' = FALSE
  BY DEF IInv, TurnOK, TypeOK, ScalarOK
<1>2. Clean(Pop)
  BY CleanPop DEF IInv, In
<1> QED BY <1>1, <1>2, StepLands

LEMMA LlmDispatchKeeps ==
    ASSUME IInv, In("start"), LlmDispatch, UNCHANGED <<resume, accepted, ended, kind>>
    PROVE  IInv'
<1> USE DEF IInv
<1>1. /\ Busy /\ req = "none" /\ timer = "none" /\ ~batch /\ kind = "prompt" /\ ~resume
      /\ ~TimersMayFail => ~parked
  BY DEF TurnOK
<1>2. ASSUME NEW st \in {"thinking", "calling_tool", "rate_limited"}, PostTurn(st)
      PROVE  IInv'
  BY <1>2, PostedKeeps, StartLands DEF PostTurn
<1>3. CASE PostTurn(state)
  BY <1>1, <1>2, <1>3 DEF Busy
<1>4. CASE PostTurn("rate_limited")
  BY <1>2, <1>4
<1>5. CASE /\ state' = "rate_limited" /\ timer' = "llm" /\ parked' = TRUE
           /\ frames' = Pop /\ UNCHANGED <<req, batch>>
  <2>1. Clean(Pop)
    BY CleanPop DEF In
  <2>2. Busy' /\ ScalarOK' /\ accepted \in Nat /\ ended \in Nat
    BY <1>5 DEF Busy, TypeOK, ScalarOK, States
  <2>3. TurnOK(FALSE)' /\ ResumeExact'
    BY <1>1, <1>5, <2>2 DEF TurnOK, ResumeExact
  <2>4. accepted' - ended' = accepted - ended + One(Busy') - One(Busy)
    BY <1>1, <2>2 DEF One
  <2> QED BY <1>5, <2>1, <2>2, <2>3, <2>4, StepReturns
<1> QED BY <1>3, <1>4, <1>5 DEF LlmDispatch

LEMMA StartTurnKeeps ==
    ASSUME IInv, StartTurn
    PROVE  IInv'
<1>1. In("start") /\ UNCHANGED <<resume, accepted, ended, kind>>
  BY DEF StartTurn, compactVars, historyVars
<1>2. state \in {"thinking", "calling_tool", "rate_limited"}
  BY <1>1 DEF IInv, TurnOK, Busy
<1>3. CASE Upload
  <2>1. CASE Posted("upload") /\ UNCHANGED state
    BY <1>1, <1>2, <2>1, PostedKeeps
  <2>2. CASE LlmDispatch
    BY <1>1, <2>2, LlmDispatchKeeps
  <2> QED BY <1>3, <2>1, <2>2 DEF Upload
<1>4. CASE LlmDispatch
  BY <1>1, <1>4, LlmDispatchKeeps
<1>5. CASE Land("error", Pop)
  BY <1>1, <1>5, StartLands
<1> QED BY <1>3, <1>4, <1>5 DEF StartTurn

-----------------------------------------------------------------------------
(* Answers to a request.                                                   *)

\* The turn of a request that fails lands.
LEMMA FailsKeeps ==
    ASSUME IInv, Busy, ~In("start"), Fails, resume' = FALSE, UNCHANGED <<accepted, ended, kind>>
    PROVE  IInv'
  BY CleanFrames, StepLands DEF Fails, IInv

\* The request is dropped and built again.
LEMMA RestartKeeps ==
    ASSUME IInv, ~In("start"), req # "none", kind = "prompt", Restart, resume' = FALSE,
           UNCHANGED <<accepted, ended, kind>>
    PROVE  IInv'
<1> USE DEF IInv
<1>1. req' = "none" /\ Start(frames) /\ UNCHANGED <<state, timer, parked, batch>>
  BY DEF Restart
<1>2. Busy /\ timer = "none" /\ ~batch /\ (~TimersMayFail => ~parked)
  BY DEF TurnOK
<1>3. Busy' /\ accepted \in Nat /\ ended \in Nat
  BY <1>1, <1>2 DEF Busy, TypeOK, ScalarOK
<1>4. ScalarOK'
  BY <1>1 DEF TypeOK, ScalarOK
<1>5. TurnOK(TRUE)' /\ ResumeExact'
  BY <1>1, <1>2, <1>3 DEF TurnOK, ResumeExact
<1>6. accepted' - ended' = accepted - ended + One(Busy') - One(Busy)
  BY <1>2, <1>3 DEF One
<1> QED BY <1>1, <1>4, <1>5, <1>6, CleanFrames, StepStarts

\* The turn goes on to wait for something else, from the loop.
LEMMA WaitsKeeps ==
    ASSUME IInv, ~In("start"), Busy, Busy', ScalarOK', frames' = frames,
           TurnOK(FALSE)', ResumeExact', UNCHANGED <<accepted, ended>>
    PROVE  IInv'
<1>1. accepted \in Nat /\ ended \in Nat
  BY DEF IInv, TypeOK, ScalarOK
<1>2. accepted' - ended' = accepted - ended + One(Busy') - One(Busy)
  BY <1>1 DEF One
<1> QED BY <1>2, CleanFrames, StepReturns DEF IInv

LEMMA LoopFacts == Loop => ~In("start")
  BY DEF Loop, In

\* A turn whose request is at the host waits for nothing else.
LEMMA TurnInFlight ==
    ASSUME IInv, req \in {"turn", "upload"}
    PROVE  /\ Busy /\ timer = "none" /\ batch = FALSE /\ kind = "prompt" /\ resume = FALSE
           /\ ~TimersMayFail => parked = FALSE
  BY DEF IInv, TurnOK, ResumeExact, TypeOK, ScalarOK

LEMMA TurnReplyKeeps ==
    ASSUME IInv, NEW r, TurnReply(r)
    PROVE  IInv'
<1> USE DEF IInv
<1>1. /\ Loop /\ req = "turn"
      /\ UNCHANGED <<resume, accepted, ended, kind>>
  BY DEF TurnReply, compactVars
<1>2. /\ Busy /\ timer = "none" /\ batch = FALSE /\ kind = "prompt" /\ resume = FALSE
      /\ ~TimersMayFail => parked = FALSE
  BY <1>1, TurnInFlight
<1>3. ~In("start")
  BY <1>1, LoopFacts
<1>4. CASE Fails
  BY <1>1, <1>2, <1>3, <1>4, FailsKeeps
<1>5. CASE Restart
  BY <1>1, <1>2, <1>3, <1>5, RestartKeeps
<1>6. CASE AgentFinish(r)
  <2>1. CASE Land("complete", frames)
    BY <1>1, <1>2, <1>3, <2>1, CleanFrames, StepLands
  <2>2. CASE state' = "calling_tool" /\ batch' = TRUE /\ req' = "none"
             /\ UNCHANGED <<timer, parked, frames, rlRetries>>
    <3>1. Busy' /\ ScalarOK'
      BY <1>1, <2>2 DEF Busy, TypeOK, ScalarOK, States
    <3>2. TurnOK(FALSE)' /\ ResumeExact'
      BY <1>1, <1>2, <2>2, <3>1 DEF TurnOK, ResumeExact
    <3> QED BY <1>1, <1>2, <1>3, <2>2, <3>1, <3>2, WaitsKeeps
  <2> QED BY <1>4, <1>6, <2>1, <2>2 DEF AgentFinish
<1>7. CASE RlRetry
  <2>1. /\ state' = "rate_limited" /\ req' = "none" /\ parked' = TRUE
        /\ timer' = "llm" \/ (TimersMayFail /\ timer' = "none")
        /\ UNCHANGED <<batch, frames>>
    BY <1>7 DEF RlRetry
  <2>2. Busy' /\ ScalarOK'
    BY <1>1, <2>1 DEF Busy, TypeOK, ScalarOK, States
  <2>3. TurnOK(FALSE)' /\ ResumeExact'
    BY <1>1, <1>2, <2>1, <2>2 DEF TurnOK, ResumeExact
  <2> QED BY <1>1, <1>2, <1>3, <2>1, <2>2, <2>3, WaitsKeeps
<1> QED BY <1>4, <1>5, <1>6, <1>7 DEF TurnReply

LEMMA TurnErrorKeeps ==
    ASSUME IInv, TurnError
    PROVE  IInv'
<1>1. Loop /\ req = "turn" /\ Fails /\ UNCHANGED <<resume, accepted, ended, kind>>
  BY DEF TurnError, compactVars, historyVars
<1> QED BY <1>1, TurnInFlight, LoopFacts, FailsKeeps

LEMMA UploadDoneKeeps ==
    ASSUME IInv, UploadDone
    PROVE  IInv'
<1>1. Loop /\ req = "upload" /\ Restart /\ UNCHANGED <<resume, accepted, ended, kind>>
  BY DEF UploadDone, compactVars, historyVars
<1> QED BY <1>1, TurnInFlight, LoopFacts, RestartKeeps

LEMMA LlmTimerKeeps ==
    ASSUME IInv, LlmTimer
    PROVE  IInv'
<1> USE DEF IInv
<1>1. Loop /\ timer = "llm" /\ UNCHANGED <<resume, accepted, ended, kind>>
  BY DEF LlmTimer, compactVars, historyVars
<1>2. Busy /\ req = "none" /\ batch = FALSE /\ kind = "prompt" /\ resume = FALSE
  BY <1>1 DEF TurnOK, ResumeExact, TypeOK, ScalarOK
<1>3. ~In("start")
  BY <1>1, LoopFacts
<1>4. CASE timer' = "none" /\ parked' = FALSE /\ req' = "turn" /\ UNCHANGED <<state, batch, frames>>
  <2>1. Busy' /\ ScalarOK'
    BY <1>1, <1>2, <1>4 DEF Busy, TypeOK, ScalarOK
  <2>2. TurnOK(FALSE)' /\ ResumeExact'
    BY <1>1, <1>2, <1>4, <2>1 DEF TurnOK, ResumeExact
  <2> QED BY <1>1, <1>2, <1>3, <1>4, <2>1, <2>2, WaitsKeeps
<1>5. CASE Land("error", frames)
  BY <1>1, <1>2, <1>3, <1>5, CleanFrames, StepLands
<1> QED BY <1>4, <1>5 DEF LlmTimer

-----------------------------------------------------------------------------
(* Compaction.                                                             *)

\* A compaction that is at the host or waits for its timer.
Compacting == req = "compact" \/ timer = "compact"

LEMMA CompactionInFlight ==
    ASSUME IInv, Compacting
    PROVE  /\ Busy /\ batch = FALSE /\ req \in {"none", "compact"} /\ timer \in {"none", "compact"}
           /\ resume => kind = "prompt"
           /\ kind = "prompt" => resume
           /\ ~TimersMayFail => parked = FALSE
  BY DEF IInv, Compacting, TurnOK, ResumeExact, TypeOK, ScalarOK

\* The chain that was compacted goes on.
LEMMA ChainResumes ==
    ASSUME IInv, ~In("start"), Compacting, resume, resume' = FALSE,
           state' = "thinking" \/ state' = state,
           req' = "none", timer' = "none", Start(frames),
           UNCHANGED <<parked, batch, accepted, ended, kind>>
    PROVE  IInv'
<1> USE DEF IInv
<1>1. Busy /\ batch = FALSE /\ kind = "prompt" /\ (~TimersMayFail => parked = FALSE)
  BY CompactionInFlight
<1>2. Busy' /\ accepted \in Nat /\ ended \in Nat
  BY <1>1 DEF Busy, TypeOK, ScalarOK
<1>3. ScalarOK'
  BY DEF TypeOK, ScalarOK, States
<1>4. TurnOK(TRUE)' /\ ResumeExact'
  BY <1>1, <1>2 DEF TurnOK, ResumeExact
<1>5. accepted' - ended' = accepted - ended + One(Busy') - One(Busy)
  BY <1>1, <1>2 DEF One
<1> QED BY <1>3, <1>4, <1>5, CleanFrames, StepStarts

LEMMA CompactFailsKeeps ==
    ASSUME IInv, ~In("start"), req = "compact", CompactFails, UNCHANGED <<accepted, ended, kind>>
    PROVE  IInv'
<1>1. Busy /\ timer = "none" /\ (resume => kind = "prompt") /\ resume' = FALSE
  BY CompactionInFlight DEF Compacting, CompactFails, IInv, TurnOK
<1>2. CASE resume
  BY <1>1, <1>2, RestartKeeps DEF CompactFails
<1>3. CASE ~resume
  BY <1>1, <1>3, FailsKeeps DEF CompactFails
<1> QED BY <1>2, <1>3

LEMMA CompactPostKeeps ==
    ASSUME IInv, ~In("start"), Compacting, CompactPost, UNCHANGED <<accepted, ended, kind>>
    PROVE  IInv'
<1> USE DEF IInv
<1>1. /\ Busy /\ batch = FALSE /\ (resume <=> kind = "prompt")
      /\ ~TimersMayFail => parked = FALSE
  BY CompactionInFlight
<1>2. CASE /\ state' = "thinking" /\ req' = "compact" /\ timer' = "none"
           /\ UNCHANGED <<parked, batch, frames, resume>>
  <2>1. Busy' /\ ScalarOK'
    BY <1>2 DEF Busy, TypeOK, ScalarOK, States
  <2>2. TurnOK(FALSE)' /\ ResumeExact'
    BY <1>1, <1>2, <2>1 DEF TurnOK, ResumeExact
  <2> QED BY <1>1, <1>2, <2>1, <2>2, WaitsKeeps
<1>3. CASE /\ resume /\ resume' = FALSE /\ state' = "thinking" /\ req' = "none" /\ timer' = "none"
           /\ Start(frames) /\ UNCHANGED <<parked, batch>>
  BY <1>3, ChainResumes
<1>4. CASE ~resume /\ resume' = FALSE /\ Fails
  BY <1>1, <1>4, FailsKeeps
<1> QED BY <1>2, <1>3, <1>4 DEF CompactPost

LEMMA CompactReplyKeeps ==
    ASSUME IInv, NEW r, CompactReply(r)
    PROVE  IInv'
<1> USE DEF IInv
<1>1. Loop /\ req = "compact" /\ UNCHANGED <<accepted, ended, kind>>
  BY DEF CompactReply, historyVars
<1>2. ~In("start") /\ Compacting
  BY <1>1, LoopFacts DEF Compacting
<1>3. /\ Busy /\ batch = FALSE /\ timer = "none" /\ (resume <=> kind = "prompt")
      /\ ~TimersMayFail => parked = FALSE
  <2>1. timer = "none"
    BY <1>1 DEF TurnOK
  <2> QED BY <1>2, <2>1, CompactionInFlight
<1>4. CASE resume' = FALSE /\ IF resume THEN Restart
                              ELSE Land("complete", frames) /\ UNCHANGED rlRetries
  <2>1. CASE resume
    BY <1>1, <1>2, <1>3, <1>4, <2>1, RestartKeeps
  <2>2. CASE ~resume
    BY <1>1, <1>2, <1>3, <1>4, <2>2, CleanFrames, StepLands
  <2> QED BY <2>1, <2>2
<1>5. CASE CompactRlRetry
  <2>1. /\ state' = "rate_limited" /\ req' = "none"
        /\ timer' = "compact" \/ (TimersMayFail /\ timer' = "none")
        /\ UNCHANGED <<parked, batch, frames, resume>>
    BY <1>5 DEF CompactRlRetry
  <2>2. Busy' /\ ScalarOK'
    BY <1>1, <2>1 DEF Busy, TypeOK, ScalarOK, States
  <2>3. TurnOK(FALSE)' /\ ResumeExact'
    BY <1>1, <1>2, <1>3, <2>1, <2>2 DEF TurnOK, ResumeExact
  <2> QED BY <1>1, <1>2, <1>3, <2>1, <2>2, <2>3, WaitsKeeps
<1>6. CASE EffortRetry
  BY <1>1, <1>2, <1>6, CompactPostKeeps, CompactFailsKeeps DEF EffortRetry
<1>7. CASE CompactFails
  BY <1>1, <1>2, <1>7, CompactFailsKeeps
<1> QED BY <1>4, <1>5, <1>6, <1>7 DEF CompactReply

LEMMA CompactErrorKeeps ==
    ASSUME IInv, CompactError
    PROVE  IInv'
<1>1. Loop /\ req = "compact" /\ CompactFails /\ UNCHANGED <<accepted, ended, kind>>
  BY DEF CompactError, historyVars
<1> QED BY <1>1, LoopFacts, CompactFailsKeeps

LEMMA CompactTimerKeeps ==
    ASSUME IInv, CompactTimer
    PROVE  IInv'
<1>1. Loop /\ Compacting /\ CompactPost /\ UNCHANGED <<accepted, ended, kind>>
  BY DEF CompactTimer, historyVars, Compacting
<1> QED BY <1>1, LoopFacts, CompactPostKeeps

-----------------------------------------------------------------------------
(* The tools are done, and the turn has landed.                            *)

LEMMA ToolsDoneKeeps ==
    ASSUME IInv, NEW d, NEW ok, ToolsDone(d, ok)
    PROVE  IInv'
<1> USE DEF IInv
<1>1. Loop /\ batch /\ UNCHANGED <<accepted, ended, kind>>
  BY DEF ToolsDone, historyVars
<1>2. /\ Busy /\ req = "none" /\ timer = "none" /\ kind = "prompt" /\ resume = FALSE
      /\ ~TimersMayFail => parked = FALSE
  BY <1>1 DEF TurnOK, ResumeExact, TypeOK, ScalarOK
<1>3. ~In("start") /\ Clean(frames)
  BY <1>1, LoopFacts, CleanFrames
<1>4. CASE (Land("complete", frames) \/ Land("error", frames)) /\ UNCHANGED resume
  BY <1>1, <1>2, <1>3, <1>4, StepLands
<1>5. CASE /\ state' = "thinking" /\ batch' = FALSE /\ Start(frames)
           /\ UNCHANGED <<req, timer, parked, resume>>
  <2>1. Busy' /\ ScalarOK' /\ accepted \in Nat /\ ended \in Nat
    BY <1>1, <1>5 DEF Busy, TypeOK, ScalarOK, States
  <2>2. TurnOK(TRUE)' /\ ResumeExact'
    BY <1>1, <1>2, <1>5, <2>1 DEF TurnOK, ResumeExact
  <2>3. accepted' - ended' = accepted - ended + One(Busy') - One(Busy)
    BY <1>1, <1>2, <2>1 DEF One
  <2> QED BY <1>3, <1>5, <2>1, <2>2, <2>3, StepStarts
<1>6. CASE /\ state' = "thinking" /\ batch' = FALSE /\ req' = "compact" /\ resume' = TRUE
           /\ UNCHANGED <<timer, parked, frames>>
  <2>1. Busy' /\ ScalarOK'
    BY <1>1, <1>6 DEF Busy, TypeOK, ScalarOK, States
  <2>2. TurnOK(FALSE)' /\ ResumeExact'
    BY <1>1, <1>2, <1>6, <2>1 DEF TurnOK, ResumeExact
  <2> QED BY <1>1, <1>2, <1>3, <1>6, <2>1, <2>2, WaitsKeeps
<1> QED BY <1>4, <1>5, <1>6 DEF ToolsDone, MidChainCompact, compactVars

\* One turn fewer is landing, and one more has ended.
LEMMA TurnDoneKeeps ==
    ASSUME IInv, TurnDone
    PROVE  IInv'
<1> USE DEF IInv
<1> DEFINE f == Frame("done", Queued)
<1>1. /\ In("state") /\ frames' = Append(Pop, f) /\ ended' = ended + 1
      /\ UNCHANGED <<state, req, timer, parked, batch, resume, kind, accepted>>
  BY DEF TurnDone, OnlyPlace, wakeVars, compactVars, historyVars
<1>2. f \in Frames /\ f.at = "done"
  BY DEF Frame, Frames, Queued
<1> HIDE DEF f
<1>3. /\ Pop \in Seq(Frames) /\ \A k \in 1 .. Len(Pop) : Pop[k].at # "start"
      /\ Cardinality(Landing) = Cardinality(LandingOf(Pop)) + 1
      /\ Cardinality(LandingOf(Pop)) \in Nat
  BY <1>1, PopFacts, LandingFacts DEF In
<1>4. /\ frames' \in Seq(Frames) /\ StartOnTop' /\ ~In("start")'
      /\ Cardinality(Landing)' = Cardinality(LandingOf(Pop))
  BY <1>1, <1>2, <1>3, StackAfter
<1>5. ~In("start") /\ Busy' = Busy
  BY <1>1 DEF In, Busy
<1>6. ScalarOK'
  BY <1>1 DEF TypeOK, ScalarOK
<1>7. TurnOK(In("start"))' /\ ResumeExact'
  BY <1>1, <1>4, <1>5 DEF TurnOK, ResumeExact
<1>8. OneTurnDone'
  <2>1. accepted \in Nat /\ ended \in Nat /\ One(Busy) \in Int
    BY DEF TypeOK, ScalarOK, One
  <2>2. accepted - ended = One(Busy) + (Cardinality(LandingOf(Pop)) + 1)
    BY <1>3 DEF OneTurnDone, One
  <2>3. accepted - (ended + 1) = One(Busy) + Cardinality(LandingOf(Pop))
    BY <1>3, <2>1, <2>2
  <2> QED BY <1>1, <1>4, <1>5, <2>3 DEF OneTurnDone, One
<1> QED BY <1>4, <1>6, <1>7, <1>8 DEF TypeOK

LEMMA ResubmitKeeps ==
    ASSUME IInv, Resubmit
    PROVE  IInv'
<1> USE DEF IInv
<1>1. In("done") /\ frames # <<>> /\ Top.at = "done" /\ ~In("start")
  BY DEF Resubmit, In
<1>2. Clean(Pop)
  BY <1>1, CleanPop
<1>3. CASE frames' = Pop /\ OnlyPlace /\ UNCHANGED ended
  <2>1. UNCHANGED <<state, req, timer, parked, batch, resume, kind, accepted, ended>>
    BY <1>3 DEF OnlyPlace, wakeVars, compactVars, historyVars
  <2>2. ScalarOK' /\ Busy' = Busy /\ accepted \in Nat /\ ended \in Nat
    BY <2>1 DEF TypeOK, ScalarOK, Busy
  <2>3. TurnOK(FALSE)' /\ ResumeExact'
    BY <1>1, <2>1, <2>2 DEF TurnOK, ResumeExact
  <2>4. accepted' - ended' = accepted - ended + One(Busy') - One(Busy)
    BY <2>1, <2>2 DEF One
  <2> QED BY <1>2, <1>3, <2>2, <2>3, <2>4, StepReturns
<1>4. CASE ~Busy /\ Accept(Pop)
  BY <1>2, <1>4, AcceptKeeps
<1> QED BY <1>3, <1>4 DEF Resubmit

-----------------------------------------------------------------------------
(* The theorems.                                                           *)

LEMMA InitInv == Init => IInv
<1> SUFFICES ASSUME Init PROVE IInv
  OBVIOUS
<1> USE DEF Init
<1>1. frames = <<>> /\ frames \in Seq(Frames) /\ Len(frames) = 0 /\ ~In("start")
  BY DEF In
<1>2. ScalarOK /\ ~Busy
  BY DEF ScalarOK, States, Busy
<1>3. StartOnTop
  BY <1>1 DEF StartOnTop
<1>4. Landing = {}
  BY <1>1 DEF Landing
<1>5. OneTurnDone
  BY <1>2, <1>4, FS_EmptySet DEF OneTurnDone
<1>6. TurnOK(In("start")) /\ ResumeExact
  BY <1>1, <1>2 DEF TurnOK, ResumeExact
<1> QED BY <1>1, <1>2, <1>3, <1>5, <1>6 DEF IInv, TypeOK

LEMMA NextInv == IInv /\ [Next]_vars => IInv'
<1> SUFFICES ASSUME IInv, [Next]_vars PROVE IInv'
  OBVIOUS
<1>1. CASE UNCHANGED vars
  <2>1. UNCHANGED <<state, req, timer, parked, batch, resume, kind, accepted, ended, frames>>
    BY <1>1 DEF vars, wakeVars, compactVars, historyVars
  <2> QED BY <2>1, SameTurn
<1>2. CASE ApiNext
  BY <1>2, SubmitKeeps, CompactKeeps, CancelKeeps, NotifyKeeps DEF ApiNext
<1>3. CASE HostNext
  BY <1>3, TurnReplyKeeps, TurnErrorKeeps, UploadDoneKeeps, LlmTimerKeeps, CompactReplyKeeps,
     CompactErrorKeeps, CompactTimerKeeps, ToolsDoneKeeps DEF HostNext
<1>4. CASE CodeNext
  BY <1>4, StartTurnKeeps, TurnDoneKeeps, ResubmitKeeps DEF CodeNext
<1> QED BY <1>1, <1>2, <1>3, <1>4 DEF Next

\* Every prompt and every compaction that agent.c accepts is owed exactly one
\* on_turn_done: the turns owed are the one in flight and those landing,
\* whatever the callbacks submit, the host fails or the user cancels.
THEOREM EveryTurnReported == Spec => []OneTurnDone
<1>1. IInv => OneTurnDone
  BY DEF IInv
<1> QED BY <1>1, InitInv, NextInv, PTL DEF Spec

\* The chain that a mid-chain compaction interrupts is remembered until it is
\* resumed, and never outlives its turn.
THEOREM ChainRemembered == Spec => []ResumeExact
<1>1. IInv => ResumeExact
  BY DEF IInv
<1> QED BY <1>1, InitInv, NextInv, PTL DEF Spec

\* With a host whose timer_set does not fail, a turn in flight has exactly one
\* thing that will wake it up and an idle agent has none.  rl_retry and
\* compact_rl_retry do not look at timer_set's result, so the hypothesis is
\* needed.
THEOREM ExactlyOneWakeUp == ASSUME ~TimersMayFail PROVE Spec => []OneWakeUp
<1>1. IInv => OneWakeUp
  <2> SUFFICES ASSUME IInv PROVE OneWakeUp
    OBVIOUS
  <2> USE DEF IInv
  <2>1. frames \in Seq(Frames) /\ Len(frames) \in Nat /\ DOMAIN frames = 1 .. Len(frames)
    BY LenProperties DEF TypeOK
  <2>2. Cardinality(Starting) = One(In("start"))
    <3>1. CASE In("start")
      <4>1. Len(frames) \in 1 .. Len(frames) /\ frames[Len(frames)].at = "start"
        BY <2>1, <3>1, EmptySeq DEF In, Top
      <4>2. \A n \in Nat : \A k \in 1 .. n : k = n \/ k \in 1 .. n - 1
        OBVIOUS
      <4>3. Starting = {Len(frames)}
        <5>1. \A k \in DOMAIN frames : k = Len(frames) \/ frames[k].at # "start"
          BY <2>1, <4>2 DEF StartOnTop
        <5> QED BY <2>1, <4>1, <5>1 DEF Starting
      <4> QED BY <3>1, <4>3, FS_Singleton DEF One
    <3>2. CASE ~In("start")
      <4>1. Starting = {}
        BY <2>1, <3>2, CleanFrames DEF Clean, Starting
      <4> QED BY <3>2, <4>1, FS_EmptySet DEF One
    <3> QED BY <3>1, <3>2
  <2>3. WakeUps = One(In("start")) + One(req # "none") + One(timer # "none") + One(batch)
    BY <2>2 DEF WakeUps, One
  <2>4. /\ Busy <=> In("start") \/ req # "none" \/ timer # "none" \/ batch
        /\ In("start") => req = "none" /\ timer = "none" /\ ~batch
        /\ req # "none" => timer = "none" /\ ~batch
        /\ timer # "none" => ~batch
        /\ parked <=> timer = "llm"
    BY DEF TurnOK
  <2>5. WakeUps = One(Busy)
    <3>1. CASE In("start")
      BY <2>3, <2>4, <3>1 DEF One
    <3>2. CASE ~In("start") /\ req # "none"
      BY <2>3, <2>4, <3>2 DEF One
    <3>3. CASE ~In("start") /\ req = "none" /\ timer # "none"
      BY <2>3, <2>4, <3>3 DEF One
    <3>4. CASE ~In("start") /\ req = "none" /\ timer = "none"
      BY <2>3, <2>4, <3>4 DEF One
    <3> QED BY <3>1, <3>2, <3>3, <3>4
  <2> QED BY <2>4, <2>5 DEF OneWakeUp, One
<1> QED BY <1>1, InitInv, NextInv, PTL DEF Spec
=============================================================================
