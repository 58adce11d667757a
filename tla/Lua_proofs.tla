----------------------------- MODULE Lua_proofs -----------------------------
(***************************************************************************)
(* What the model of a Lua plugin guarantees for any number of calls,      *)
(* hooks, commands, timers and children.                                   *)
(***************************************************************************)
EXTENDS Lua, SequenceTheorems, FiniteSetTheorems, WellFoundedInduction, TLAPS

RunRec == [begun : BOOLEAN, co : {"none", "running", "parked", "gone", "lost"}, rooted : BOOLEAN,
           done : BOOLEAN, mem : {"none", "live", "freed"}, timer : {"off", "wall", "answer"},
           answers : Nat, spent : BOOLEAN]
ReqRec == [kind : {"none", "http", "sleep", "exec"}, inv : Tools \cup {None}, ref : Runs \cup {None}]
KidRec == [st : {"none", "live", "settled"}, exited : BOOLEAN, pipes : Nat, detached : BOOLEAN,
           told : Nat]
PlRec == [st : {"new", "up", "tearing", "freed"}, dead : BOOLEAN, inflight : Nat, total : Nat,
          leaked : Nat,
          tool : {"none", "in", "out"}, cmd : {"none", "in", "out"}, on : BOOLEAN, calls : Nat]
Entry == ({"req"} \X Runs) \cup ({"gate"} \X Gates) \cup ({"cmd"} \X Cmds)
         \cup ({"timer"} \X Timers) \cup ({"child"} \X Kids)

\* A timer's function runs on the main state, under the timer's reference;
\* an HTTP completion resumes a run.
FrameOK(f) ==
    /\ f.by = "timer" => f.run = Main /\ f.ref \in Timers
    /\ f.by = "http" => f.run \in Runs

TypeOK ==
    /\ pl \in PlRec
    /\ reg \in Runs \cup {None}
    /\ pend \in Seq(Entry)
    /\ run \in [Runs -> RunRec]
    /\ req \in [Runs -> ReqRec]
    /\ canc \in [Tools -> Runs \cup {None}]
    /\ tm \in [Timers -> {"off", "set", "note", "firing", "freed", "twice"}]
    /\ kid \in [Kids -> KidRec]
    /\ frame \in Frames \cup {None}
    /\ frame # None => FrameOK(frame)
    /\ stale \in BOOLEAN

\* The structs on the pending list.
Held == {pend[i] : i \in 1 .. Len(pend)}

\* Lua runs under a frame for r; r has a request; its coroutine waits on it.
On(r) == frame # None /\ frame.run = r
Asks(r) == req[r].kind # "none"
Waits(r) == Asks(r) /\ run[r].co = "parked"

Unique == \A i, j \in 1 .. Len(pend) : pend[i] = pend[j] => i = j

\* Before the file is loaded nothing has happened.
NewOK ==
    pl.st = "new" => /\ frame = None /\ pl.tool = "none" /\ pend = << >>
                     /\ \A k \in Kids : kid[k].st = "none"

\* What is on the list was put there by its owner.
ListedOK ==
    /\ \A r \in Runs : <<"req", r>> \in Held => Asks(r)
    /\ \A x \in Timers : <<"timer", x>> \in Held => tm[x] # "off"
    /\ \A k \in Kids : <<"child", k>> \in Held => kid[k].st # "none"

\* Every invocation that the registry, a frame or a request names has begun.
BegunOK ==
    /\ reg \in Runs => run[reg].begun
    /\ frame # None => frame.inv = None \/ run[frame.inv].begun
    /\ \A r \in Runs : req[r].inv = None \/ run[req[r].inv].begun

\* The life of one run: nothing before it begins; it never runs and waits at
\* once; a hook or a command that still runs has its struct, and its answer
\* is not on its way; a timer is armed only for an answer not given.
RunOK(r) ==
    /\ pl.st = "new" => ~run[r].begun
    /\ ~run[r].begun => /\ run[r].mem = "none" /\ run[r].timer = "off" /\ ~run[r].done
                        /\ run[r].answers = 0 /\ run[r].co = "none" /\ ~Asks(r) /\ ~On(r)
    /\ On(r) => run[r].co # "parked"
    /\ r \notin Tools =>
        /\ On(r) => pl.st = "up"
        /\ On(r) \/ (Waits(r) /\ pl.st = "up") => run[r].mem = "live"
        /\ On(r) \/ Waits(r) => run[r].timer # "answer"
        /\ run[r].timer # "off" => run[r].mem = "live" /\ run[r].answers = 0
    /\ r \in Gates =>
        /\ run[r].mem = "live" => run[r].answers = 0
        /\ On(r) \/ Waits(r) => ~run[r].done
        /\ <<"gate", r>> \in Held <=> run[r].mem = "live"
    /\ r \in Cmds => (<<"cmd", r>> \in Held <=> run[r].mem = "live")

LifeInv ==
    /\ TypeOK /\ Unique /\ NewOK /\ ListedOK /\ BegunOK
    /\ \A r \in Runs : RunOK(r)

-----------------------------------------------------------------------------
(* The pending list as a set.                                              *)

\* A set of naturals has its minimum in it.
LEMMA MinIsMember ==
    ASSUME NEW I \in SUBSET Nat, I # {}
    PROVE  Min(I) \in I
<1> DEFINE R == OpToRel(<, Nat)
<1>1. IsWellFoundedOn(R, Nat)
  BY NatLessThanWellFounded
<1>2. \A a, b \in Nat : <<a, b>> \in R <=> a < b
  BY DEF OpToRel
<1> HIDE DEF R
<1>3. PICK x \in I : \A y \in I : ~(<<y, x>> \in R)
  BY <1>1, WFMin
<1>4. ASSUME NEW y \in I PROVE x <= y
  <2>1. x \in Nat /\ y \in Nat
    OBVIOUS
  <2>2. ~(y < x)
    BY <1>2, <1>3, <2>1
  <2> QED BY <2>1, <2>2
<1>5. \E n \in I : \A m \in I : n <= m
  BY <1>4
<1> QED BY <1>5 DEF Min

\* A list without its i-th node.
LEMMA RemoveAtFacts ==
    ASSUME NEW S, NEW q \in Seq(S), NEW i \in 1 .. Len(q)
    PROVE  /\ RemoveAt(q, i) \in Seq(S)
           /\ Len(RemoveAt(q, i)) = Len(q) - 1
           /\ \A j \in 1 .. Len(q) - 1 :
                RemoveAt(q, i)[j] = q[IF j < i THEN j ELSE j + 1]
<1> DEFINE a == SubSeq(q, 1, i - 1)
           b == SubSeq(q, i + 1, Len(q))
<1>0. Len(q) \in Nat /\ i \in Nat /\ i >= 1 /\ i <= Len(q)
  OBVIOUS
<1>1. a \in Seq(S) /\ Len(a) = i - 1 /\ \A j \in 1 .. i - 1 : a[j] = q[j]
  BY <1>0, SubSeqProperties
<1>2. b \in Seq(S) /\ Len(b) = Len(q) - i /\ \A j \in 1 .. Len(q) - i : b[j] = q[i + j]
  BY <1>0, SubSeqProperties
<1>3. RemoveAt(q, i) = a \o b
  BY DEF RemoveAt
<1> HIDE DEF a, b
<1>4. /\ a \o b \in Seq(S) /\ Len(a \o b) = Len(a) + Len(b)
      /\ \A j \in 1 .. Len(a) + Len(b) :
           (a \o b)[j] = IF j <= Len(a) THEN a[j] ELSE b[j - Len(a)]
  BY <1>1, <1>2, ConcatProperties
<1>5. ASSUME NEW j \in 1 .. Len(q) - 1
      PROVE  (a \o b)[j] = q[IF j < i THEN j ELSE j + 1]
  <2>0. j \in Nat /\ j >= 1 /\ j \in 1 .. Len(a) + Len(b)
    BY <1>0, <1>1, <1>2
  <2>1. CASE j < i
    <3>1. (a \o b)[j] = a[j] /\ j \in 1 .. i - 1
      BY <1>0, <1>1, <1>4, <2>0, <2>1
    <3> QED BY <1>1, <2>1, <3>1
  <2>2. CASE ~(j < i)
    <3>1. (a \o b)[j] = b[j - (i - 1)]
      BY <1>0, <1>1, <1>4, <2>0, <2>2
    <3>2. j - (i - 1) \in 1 .. Len(q) - i /\ i + (j - (i - 1)) = j + 1
      BY <1>0, <2>0, <2>2
    <3>3. b[j - (i - 1)] = q[i + (j - (i - 1))]
      BY <1>2, <3>2
    <3> QED BY <2>2, <3>1, <3>2, <3>3
  <2> QED BY <2>1, <2>2
<1> QED BY <1>0, <1>1, <1>2, <1>3, <1>4, <1>5

ElemsOf(q) == {q[i] : i \in 1 .. Len(q)}
Distinct(q) == \A i, j \in 1 .. Len(q) : q[i] = q[j] => i = j

LEMMA TakeOne ==
    ASSUME NEW S, NEW q \in Seq(S), Distinct(q), NEW m \in 1 .. Len(q)
    PROVE  /\ RemoveAt(q, m) \in Seq(S) /\ Distinct(RemoveAt(q, m))
           /\ ElemsOf(RemoveAt(q, m)) = ElemsOf(q) \ {q[m]}
<1> DEFINE w == RemoveAt(q, m)
           n == Len(q)
           at(j) == IF j < m THEN j ELSE j + 1
<1>1. /\ w \in Seq(S) /\ Len(w) = n - 1 /\ n \in Nat /\ m \in Nat /\ m >= 1 /\ m <= n
      /\ \A j \in 1 .. n - 1 : w[j] = q[at(j)]
  <2>1. n \in Nat /\ m \in Nat /\ m >= 1 /\ m <= n
    OBVIOUS
  <2>2. w \in Seq(S) /\ Len(w) = n - 1 /\ \A j \in 1 .. n - 1 : w[j] = q[at(j)]
    BY RemoveAtFacts
  <2> QED BY <2>1, <2>2
<1>2. \A i, j \in 1 .. n : q[i] = q[j] => i = j
  BY DEF Distinct
<1> HIDE DEF w, n
<1>3. \A j \in 1 .. n - 1 : at(j) \in 1 .. n /\ at(j) # m
  BY <1>1
<1>4. \A i, j \in 1 .. n - 1 : at(i) = at(j) => i = j
  BY <1>1
<1>5. \A i \in 1 .. n : i # m => \E j \in 1 .. n - 1 : at(j) = i
  <2> SUFFICES ASSUME NEW i \in 1 .. n, i # m PROVE \E j \in 1 .. n - 1 : at(j) = i
    OBVIOUS
  <2>1. CASE i < m
    <3>1. i \in 1 .. n - 1 /\ at(i) = i
      BY <1>1, <2>1
    <3> QED BY <3>1
  <2>2. CASE ~(i < m)
    <3>1. i - 1 \in 1 .. n - 1 /\ at(i - 1) = i
      BY <1>1, <2>2
    <3> QED BY <3>1
  <2> QED BY <2>1, <2>2
<1> HIDE DEF at
<1>6. Distinct(w)
  <2> SUFFICES ASSUME NEW i \in 1 .. n - 1, NEW j \in 1 .. n - 1, w[i] = w[j] PROVE i = j
    BY <1>1 DEF Distinct
  <2>1. q[at(i)] = q[at(j)]
    BY <1>1
  <2> QED BY <1>2, <1>3, <1>4, <2>1
<1>7. ElemsOf(w) = ElemsOf(q) \ {q[m]}
  <2>1. ASSUME NEW e \in ElemsOf(w) PROVE e \in ElemsOf(q) \ {q[m]}
    <3>1. PICK j \in 1 .. n - 1 : e = w[j]
      BY <1>1, <2>1 DEF ElemsOf
    <3> QED BY <1>1, <1>2, <1>3, <3>1 DEF ElemsOf, n
  <2>2. ASSUME NEW e \in ElemsOf(q), e # q[m] PROVE e \in ElemsOf(w)
    <3>1. PICK i \in 1 .. n : e = q[i]
      BY <2>2 DEF ElemsOf, n
    <3>2. PICK j \in 1 .. n - 1 : at(j) = i
      BY <1>5, <2>2, <3>1
    <3> QED BY <1>1, <3>1, <3>2 DEF ElemsOf
  <2> QED BY <2>1, <2>2
<1> QED BY <1>1, <1>6, <1>7 DEF w

\* clm_lua_pending_remove unlinks the node, if there is one.
LEMMA DropOne ==
    ASSUME NEW S, NEW q \in Seq(S), Distinct(q), NEW e
    PROVE  /\ RemoveFirst(q, e) \in Seq(S) /\ Distinct(RemoveFirst(q, e))
           /\ ElemsOf(RemoveFirst(q, e)) = ElemsOf(q) \ {e}
<1> DEFINE I == {i \in 1 .. Len(q) : q[i] = e}
<1>1. CASE I = {}
  <2>1. RemoveFirst(q, e) = q /\ e \notin ElemsOf(q)
    BY <1>1 DEF RemoveFirst, ElemsOf
  <2> QED BY <2>1
<1>2. CASE I # {}
  <2>1. RemoveFirst(q, e) = RemoveAt(q, Min(I))
    BY <1>2 DEF RemoveFirst, SelectInSeq
  <2>2. Min(I) \in I
    <3>1. I \in SUBSET Nat
      OBVIOUS
    <3> QED BY <1>2, <3>1, MinIsMember
  <2> DEFINE m == Min(I)
  <2>3. m \in 1 .. Len(q) /\ q[m] = e /\ RemoveFirst(q, e) = RemoveAt(q, m)
    BY <2>1, <2>2
  <2> HIDE DEF m, I
  <2> QED BY <2>3, TakeOne
<1> QED BY <1>1, <1>2

\* clm_lua_pending_add links a node at the end.
LEMMA AddOne ==
    ASSUME NEW S, NEW q \in Seq(S), Distinct(q), NEW e \in S, e \notin ElemsOf(q)
    PROVE  /\ Append(q, e) \in Seq(S) /\ Distinct(Append(q, e))
           /\ ElemsOf(Append(q, e)) = ElemsOf(q) \cup {e}
<1> DEFINE w == Append(q, e)
           n == Len(q)
<1>1. /\ w \in Seq(S) /\ Len(w) = n + 1 /\ n \in Nat
      /\ \A i \in 1 .. n : w[i] = q[i]
      /\ w[n + 1] = e
  BY AppendProperties
<1>2. \A i \in 1 .. n : q[i] # e
  BY DEF ElemsOf
<1>3. \A i, j \in 1 .. n : q[i] = q[j] => i = j
  BY DEF Distinct
<1>4. ElemsOf(q) = {q[i] : i \in 1 .. n}
  BY DEF ElemsOf
<1> HIDE DEF w, n
<1>5. \A i \in 1 .. n + 1 : i \in 1 .. n \/ i = n + 1
  BY <1>1
<1>6. \A i \in 1 .. n : i \in 1 .. n + 1
  BY <1>1
<1>7. n + 1 \in 1 .. n + 1
  BY <1>1
<1>8. Distinct(w)
  BY <1>1, <1>2, <1>3, <1>5 DEF Distinct
<1>9. ElemsOf(w) = ElemsOf(q) \cup {e}
  BY <1>1, <1>4, <1>5, <1>6, <1>7 DEF ElemsOf
<1> QED BY <1>1, <1>8, <1>9 DEF w

\* clm_lua_pending_teardown_all takes the head.
LEMMA PopOne ==
    ASSUME NEW S, NEW q \in Seq(S), Distinct(q), q # << >>
    PROVE  /\ Tail(q) \in Seq(S) /\ Distinct(Tail(q))
           /\ q[1] \in S /\ q[1] \in ElemsOf(q)
           /\ ElemsOf(Tail(q)) = ElemsOf(q) \ {q[1]}
<1> DEFINE w == Tail(q)
           n == Len(q)
<1>1. /\ w \in Seq(S) /\ Len(w) = n - 1 /\ n \in Nat /\ n >= 1
      /\ \A i \in 1 .. n - 1 : w[i] = q[i + 1]
  BY HeadTailProperties, EmptySeq
<1>2. 1 \in 1 .. n
  BY <1>1
<1>3. q[1] \in S /\ q[1] \in ElemsOf(q)
  BY <1>2, ElementOfSeq DEF ElemsOf
<1>4. \A i, j \in 1 .. n : q[i] = q[j] => i = j
  BY DEF Distinct
<1>5. ElemsOf(q) = {q[i] : i \in 1 .. n}
  BY DEF ElemsOf
<1> HIDE DEF w, n
<1>6. \A i \in 1 .. n - 1 : i + 1 \in 1 .. n /\ i + 1 # 1
  BY <1>1
<1>7. \A i \in 1 .. n : i # 1 => i - 1 \in 1 .. n - 1 /\ (i - 1) + 1 = i
  BY <1>1
<1>8. \A i, j \in 1 .. n - 1 : i + 1 = j + 1 => i = j
  BY <1>1
<1>9. Distinct(w)
  BY <1>1, <1>4, <1>6, <1>8 DEF Distinct
<1>10. ASSUME NEW e \in ElemsOf(w) PROVE e \in ElemsOf(q) \ {q[1]}
  <2>1. PICK j \in 1 .. n - 1 : e = w[j]
    BY <1>1, <1>10 DEF ElemsOf
  <2> QED BY <1>1, <1>2, <1>4, <1>5, <1>6, <2>1
<1>11. ASSUME NEW e \in ElemsOf(q), e # q[1] PROVE e \in ElemsOf(w)
  <2>1. PICK i \in 1 .. n : e = q[i]
    BY <1>5, <1>11
  <2>2. i - 1 \in 1 .. n - 1 /\ w[i - 1] = q[i]
    BY <1>1, <1>7, <1>11, <2>1
  <2> QED BY <1>1, <2>1, <2>2 DEF ElemsOf
<1> QED BY <1>1, <1>3, <1>9, <1>10, <1>11 DEF w

LEMMA Added ==
    ASSUME TypeOK, Unique, NEW e \in Entry, e \notin Held, pend' = Append(pend, e)
    PROVE  pend' \in Seq(Entry) /\ Unique' /\ Held' = Held \cup {e}
<1>1. pend \in Seq(Entry) /\ Distinct(pend) /\ e \notin ElemsOf(pend)
  BY DEF TypeOK, Unique, Distinct, Held, ElemsOf
<1>2. /\ pend' \in Seq(Entry) /\ Distinct(pend')
      /\ ElemsOf(pend') = ElemsOf(pend) \cup {e}
  BY <1>1, AddOne
<1> QED BY <1>2 DEF Unique, Distinct, Held, ElemsOf

LEMMA Dropped ==
    ASSUME TypeOK, Unique, NEW kind, NEW o, pend' = clm_lua_pending_remove(kind, o)
    PROVE  pend' \in Seq(Entry) /\ Unique' /\ Held' = Held \ {<<kind, o>>}
<1>1. pend \in Seq(Entry) /\ Distinct(pend) /\ pend' = RemoveFirst(pend, <<kind, o>>)
  BY DEF TypeOK, Unique, Distinct, clm_lua_pending_remove
<1>2. /\ pend' \in Seq(Entry) /\ Distinct(pend')
      /\ ElemsOf(pend') = ElemsOf(pend) \ {<<kind, o>>}
  BY <1>1, DropOne
<1> QED BY <1>2 DEF Unique, Distinct, Held, ElemsOf

LEMMA Popped ==
    ASSUME TypeOK, Unique, pend # << >>, pend' = Tail(pend)
    PROVE  /\ pend' \in Seq(Entry) /\ Unique' /\ Held' = Held \ {pend[1]}
           /\ pend[1] \in Entry /\ pend[1] \in Held
<1>1. pend \in Seq(Entry) /\ Distinct(pend)
  BY DEF TypeOK, Unique, Distinct
<1>2. /\ pend' \in Seq(Entry) /\ Distinct(pend')
      /\ ElemsOf(pend') = ElemsOf(pend) \ {pend[1]}
      /\ pend[1] \in Entry /\ pend[1] \in ElemsOf(pend)
  BY <1>1, PopOne
<1> QED BY <1>2 DEF Unique, Distinct, Held, ElemsOf

LEMMA SameList ==
    ASSUME TypeOK, Unique, UNCHANGED pend
    PROVE  pend' \in Seq(Entry) /\ Unique' /\ Held' = Held
  BY DEF TypeOK, Unique, Held

LEMMA ListedHeld ==
    ASSUME NEW kind, NEW o
    PROVE  Listed(kind, o) <=> <<kind, o>> \in Held
  BY DEF Listed, Held

LEMMA EmptyList ==
    ASSUME TypeOK
    PROVE  pend = << >> <=> Held = {}
<1>1. pend \in Seq(Entry) /\ Len(pend) \in Nat
  BY DEF TypeOK
<1>2. CASE pend = << >>
  BY <1>2 DEF Held
<1>3. CASE pend # << >>
  <2>1. Len(pend) >= 1
    BY <1>1, <1>3, EmptySeq
  <2>2. 1 \in 1 .. Len(pend)
    BY <1>1, <2>1
  <2>3. pend[1] \in Held
    BY <2>2 DEF Held
  <2> QED BY <1>3, <2>3
<1> QED BY <1>2, <1>3

-----------------------------------------------------------------------------
(* What the reports and the ends of coroutines change of a run.            *)

LEMMA ToldFacts ==
    ASSUME NEW rn \in [Runs -> RunRec], NEW t \in Tools \cup {None}
    PROVE  /\ Told(rn, t) \in [Runs -> RunRec]
           /\ \A j \in Runs :
                /\ Told(rn, t)[j].begun = rn[j].begun /\ Told(rn, t)[j].done = rn[j].done
                /\ Told(rn, t)[j].mem = rn[j].mem /\ Told(rn, t)[j].timer = rn[j].timer
                /\ Told(rn, t)[j].co = rn[j].co /\ Told(rn, t)[j].rooted = rn[j].rooted
                /\ Told(rn, t)[j].answers = IF j = t THEN 1 ELSE rn[j].answers
<1>0. Tools \subseteq Runs /\ None \notin Runs
  BY RunsAssumption DEF Runs
<1>1. CASE t = None
  <2>1. Told(rn, t) = rn
    BY <1>1 DEF Told
  <2> QED BY <1>0, <1>1, <2>1
<1>2. CASE t # None
  <2>1. t \in Runs /\ Told(rn, t) = [rn EXCEPT ![t].answers = 1]
    BY <1>0, <1>2 DEF Told
  <2>2. [rn[t] EXCEPT !.answers = 1] \in RunRec /\ \A j \in Runs : rn[j] \in RunRec
    BY <2>1 DEF RunRec
  <2>3. Told(rn, t) \in [Runs -> RunRec]
    BY <2>1, <2>2
  <2>4. Told(rn, t)[t] = [rn[t] EXCEPT !.answers = 1] /\ \A j \in Runs : j # t => Told(rn, t)[j] = rn[j]
    BY <2>1
  <2>5. \A j \in Runs : j # t =>
                /\ Told(rn, t)[j].begun = rn[j].begun /\ Told(rn, t)[j].done = rn[j].done
                /\ Told(rn, t)[j].mem = rn[j].mem /\ Told(rn, t)[j].timer = rn[j].timer
                /\ Told(rn, t)[j].co = rn[j].co /\ Told(rn, t)[j].rooted = rn[j].rooted
                /\ Told(rn, t)[j].answers = rn[j].answers
    BY <2>4
  <2>6.         /\ Told(rn, t)[t].begun = rn[t].begun /\ Told(rn, t)[t].done = rn[t].done
                /\ Told(rn, t)[t].mem = rn[t].mem /\ Told(rn, t)[t].timer = rn[t].timer
                /\ Told(rn, t)[t].co = rn[t].co /\ Told(rn, t)[t].rooted = rn[t].rooted
                /\ Told(rn, t)[t].answers = 1
    BY <2>1, <2>2, <2>4 DEF RunRec
  <2> QED BY <2>3, <2>5, <2>6
<1> QED BY <1>1, <1>2

LEMMA ReleasedFacts ==
    ASSUME NEW rn \in [Runs -> RunRec], NEW r \in Runs, NEW ref
    PROVE  /\ Released(rn, r, ref) \in [Runs -> RunRec]
           /\ Released(rn, r, ref)[r].co = "gone"
           /\ \A j \in Runs :
                /\ Released(rn, r, ref)[j].begun = rn[j].begun
                /\ Released(rn, r, ref)[j].done = rn[j].done
                /\ Released(rn, r, ref)[j].mem = rn[j].mem
                /\ Released(rn, r, ref)[j].timer = rn[j].timer
                /\ Released(rn, r, ref)[j].answers = rn[j].answers
                /\ j # r => Released(rn, r, ref)[j].co = rn[j].co
                /\ j # ref => Released(rn, r, ref)[j].rooted = rn[j].rooted
<1> DEFINE a == [rn EXCEPT ![r].co = "gone"]
           b == IF ref \in Runs THEN [a EXCEPT ![ref].rooted = FALSE] ELSE a
<1>0. Released(rn, r, ref) = b
  BY DEF Released
<1>1. [rn[r] EXCEPT !.co = "gone"] \in RunRec
  BY DEF RunRec
<1>2. a \in [Runs -> RunRec] /\ a[r] = [rn[r] EXCEPT !.co = "gone"] /\ \A j \in Runs : j # r => a[j] = rn[j]
  BY <1>1
<1>3. \A j \in Runs : /\ a[j].begun = rn[j].begun /\ a[j].done = rn[j].done
                      /\ a[j].mem = rn[j].mem /\ a[j].timer = rn[j].timer
                      /\ a[j].answers = rn[j].answers /\ a[j].rooted = rn[j].rooted
                      /\ j # r => a[j].co = rn[j].co
  <2>1. /\ a[r].begun = rn[r].begun /\ a[r].done = rn[r].done
        /\ a[r].mem = rn[r].mem /\ a[r].timer = rn[r].timer
        /\ a[r].answers = rn[r].answers /\ a[r].rooted = rn[r].rooted /\ a[r].co = "gone"
    BY <1>1, <1>2 DEF RunRec
  <2> QED BY <1>2, <2>1
<1>9. a[r].co = "gone"
  BY <1>1, <1>2 DEF RunRec
<1> HIDE DEF a
<1>4. CASE ref \in Runs
  <2>1. b = [a EXCEPT ![ref].rooted = FALSE]
    BY <1>4
  <2>0. a[ref] \in RunRec
    BY <1>2, <1>4
  <2>2. [a[ref] EXCEPT !.rooted = FALSE] \in RunRec
    BY <2>0 DEF RunRec
  <2> HIDE DEF b
  <2>3. b \in [Runs -> RunRec] /\ b[ref] = [a[ref] EXCEPT !.rooted = FALSE] /\ \A j \in Runs : j # ref => b[j] = a[j]
    BY <1>2, <1>4, <2>1, <2>2
  <2>4. /\ b[ref].begun = a[ref].begun /\ b[ref].done = a[ref].done
        /\ b[ref].mem = a[ref].mem /\ b[ref].timer = a[ref].timer
        /\ b[ref].answers = a[ref].answers /\ b[ref].co = a[ref].co
    BY <2>0, <2>3 DEF RunRec
  <2>5. \A j \in Runs : /\ b[j].begun = a[j].begun /\ b[j].done = a[j].done
                        /\ b[j].mem = a[j].mem /\ b[j].timer = a[j].timer
                        /\ b[j].answers = a[j].answers /\ b[j].co = a[j].co
                        /\ j # ref => b[j].rooted = a[j].rooted
    BY <2>3, <2>4
  <2> QED BY <1>0, <1>3, <1>9, <2>3, <2>5
<1>5. CASE ref \notin Runs
  <2>1. b = a
    BY <1>5
  <2> HIDE DEF b
  <2>2. /\ b \in [Runs -> RunRec] /\ b[r].co = "gone"
        /\ \A j \in Runs : /\ b[j].begun = rn[j].begun /\ b[j].done = rn[j].done
                           /\ b[j].mem = rn[j].mem /\ b[j].timer = rn[j].timer
                           /\ b[j].answers = rn[j].answers /\ b[j].rooted = rn[j].rooted
                           /\ j # r => b[j].co = rn[j].co
    BY <1>2, <1>3, <1>9, <2>1
  <2> QED BY <1>0, <2>2
<1> QED BY <1>4, <1>5

LEMMA FinishFacts ==
    ASSUME NEW rn \in [Runs -> RunRec], NEW r \in Runs
    PROVE  /\ Finish(rn, r) \in [Runs -> RunRec]
           /\ \A j \in Runs :
                /\ j # r => Finish(rn, r)[j] = rn[j]
                /\ Finish(rn, r)[j].begun = rn[j].begun /\ Finish(rn, r)[j].answers = rn[j].answers
                /\ Finish(rn, r)[j].co = rn[j].co /\ Finish(rn, r)[j].rooted = rn[j].rooted
           /\ r \in Tools => Finish(rn, r) = rn
           /\ r \in Gates => /\ Finish(rn, r)[r].mem = rn[r].mem
                             /\ ~rn[r].done => Finish(rn, r)[r].timer = "answer"
           /\ r \in Cmds /\ rn[r].answers > 0 =>
                Finish(rn, r)[r].mem = "freed" /\ Finish(rn, r)[r].timer = "off"
           /\ r \in Cmds /\ ~(rn[r].answers > 0) =>
                Finish(rn, r)[r].mem = rn[r].mem /\ Finish(rn, r)[r].timer = "answer"
<1>0. Tools \cap Gates = {} /\ Tools \cap Cmds = {} /\ Gates \cap Cmds = {}
      /\ r \in Tools \cup Gates \cup Cmds /\ rn[r] \in RunRec
  BY RunsAssumption DEF Runs
<1>1. CASE r \in Gates
  <2>1. Finish(rn, r) = lua_hook_finish(rn, r)
    BY <1>0, <1>1 DEF Finish
  <2>2. CASE rn[r].done
    <3>1. Finish(rn, r) = rn
      BY <2>1, <2>2 DEF lua_hook_finish
    <3> QED BY <1>0, <1>1, <2>2, <3>1
  <2>3. CASE ~rn[r].done
    <3>1. Finish(rn, r) = [rn EXCEPT ![r].done = TRUE, ![r].timer = "answer"]
      BY <2>1, <2>3 DEF lua_hook_finish
    <3>2. [rn[r] EXCEPT !.done = TRUE, !.timer = "answer"] \in RunRec
      BY <1>0 DEF RunRec
    <3> DEFINE f == Finish(rn, r)
    <3>3. f = [rn EXCEPT ![r] = [rn[r] EXCEPT !.done = TRUE, !.timer = "answer"]]
      BY <3>1
    <3>4. f \in [Runs -> RunRec] /\ f[r] = [rn[r] EXCEPT !.done = TRUE, !.timer = "answer"]
          /\ \A j \in Runs : j # r => f[j] = rn[j]
      BY <3>2, <3>3
    <3> HIDE DEF f
    <3>5. f[r].begun = rn[r].begun /\ f[r].answers = rn[r].answers /\ f[r].co = rn[r].co
          /\ f[r].rooted = rn[r].rooted /\ f[r].mem = rn[r].mem /\ f[r].timer = "answer"
      BY <1>0, <3>4 DEF RunRec
    <3>6. \A j \in Runs : /\ j # r => f[j] = rn[j]
                /\ f[j].begun = rn[j].begun /\ f[j].answers = rn[j].answers
                /\ f[j].co = rn[j].co /\ f[j].rooted = rn[j].rooted
      BY <3>4, <3>5
    <3> QED BY <1>0, <1>1, <3>4, <3>5, <3>6 DEF f
  <2> QED BY <2>2, <2>3
<1>2. CASE r \in Cmds
  <2>1. Finish(rn, r) = lua_cmd_finish(rn, r)
    BY <1>0, <1>2 DEF Finish
  <2> DEFINE u == IF rn[r].answers > 0 THEN [rn[r] EXCEPT !.mem = "freed", !.timer = "off"]
                  ELSE [rn[r] EXCEPT !.timer = "answer"]
             f == Finish(rn, r)
  <2>2. f = [rn EXCEPT ![r] = u]
    <3>1. CASE rn[r].answers > 0
      BY <2>1, <3>1 DEF lua_cmd_finish
    <3>2. CASE ~(rn[r].answers > 0)
      BY <2>1, <3>2 DEF lua_cmd_finish
    <3> QED BY <3>1, <3>2
  <2>3. /\ u \in RunRec /\ u.begun = rn[r].begun /\ u.answers = rn[r].answers /\ u.co = rn[r].co
        /\ u.rooted = rn[r].rooted
        /\ rn[r].answers > 0 => u.mem = "freed" /\ u.timer = "off"
        /\ ~(rn[r].answers > 0) => u.mem = rn[r].mem /\ u.timer = "answer"
    <3>1. CASE rn[r].answers > 0
      BY <1>0, <3>1 DEF RunRec
    <3>2. CASE ~(rn[r].answers > 0)
      BY <1>0, <3>2 DEF RunRec
    <3> QED BY <3>1, <3>2
  <2> HIDE DEF u
  <2>4. f \in [Runs -> RunRec] /\ f[r] = u /\ \A j \in Runs : j # r => f[j] = rn[j]
    BY <2>2, <2>3
  <2> HIDE DEF f
  <2>5. \A j \in Runs : /\ j # r => f[j] = rn[j]
                /\ f[j].begun = rn[j].begun /\ f[j].answers = rn[j].answers
                /\ f[j].co = rn[j].co /\ f[j].rooted = rn[j].rooted
    BY <2>3, <2>4
  <2> QED BY <1>0, <1>2, <2>3, <2>4, <2>5 DEF f
<1>3. CASE r \in Tools
  <2>1. Finish(rn, r) = rn
    BY <1>0, <1>3 DEF Finish
  <2> QED BY <1>0, <1>3, <2>1
<1> QED BY <1>0, <1>1, <1>2, <1>3

-----------------------------------------------------------------------------
(* How a step keeps LifeInv.                                               *)

\* What has not begun has no coroutine and no request.
StaysIdle(j) == run[j].begun \/ (run'[j].co = run[j].co /\ (Asks(j)' => Asks(j)))

\* A hook or command whose own fields stay, and that runs or waits only if
\* it did.
LEMMA RunKept ==
    ASSUME NEW j \in Runs, RunOK(j), j \notin Tools,
           run'[j].begun = run[j].begun, run'[j].done = run[j].done, run'[j].mem = run[j].mem,
           run'[j].timer = run[j].timer, run'[j].answers = run[j].answers,
           StaysIdle(j), On(j)' \/ Waits(j)' => On(j) \/ Waits(j),
           On(j)' => run'[j].co # "parked" /\ pl.st = "up" /\ pl'.st = "up",
           pl'.st = "new" => pl.st = "new", pl'.st = "up" => pl.st \in {"new", "up"},
           <<"gate", j>> \in Held' <=> <<"gate", j>> \in Held,
           <<"cmd", j>> \in Held' <=> <<"cmd", j>> \in Held
    PROVE  RunOK(j)'
  BY DEF RunOK, Waits, Asks, On, StaysIdle

\* A tool call that has begun.
LEMMA ToolBegun ==
    ASSUME NEW j \in Tools, run'[j].begun, pl'.st # "new", On(j)' => run'[j].co # "parked"
    PROVE  RunOK(j)'
<1>1. j \notin Gates /\ j \notin Cmds
  BY RunsAssumption
<1> QED BY <1>1 DEF RunOK, Waits, Asks, On

\* The life of j goes on as it was.
SameLife(j) ==
    /\ run'[j].begun = run[j].begun /\ run'[j].done = run[j].done
    /\ run'[j].mem = run[j].mem /\ run'[j].timer = run[j].timer
    /\ run'[j].answers = run[j].answers

\* A tool call that has not.
LEMMA ToolIdle ==
    ASSUME NEW j \in Tools, RunOK(j), ~run[j].begun, SameLife(j), StaysIdle(j), ~On(j)',
           pl'.st = "new" => pl.st = "new"
    PROVE  RunOK(j)'
<1>1. j \notin Gates /\ j \notin Cmds
  BY RunsAssumption
<1> QED BY <1>1 DEF RunOK, Waits, Asks, On, SameLife, StaysIdle

\* Steps that change the life of x, if x is a hook or a command, and may
\* begin or go on with any tool call.
LEMMA LifeStep ==
    ASSUME LifeInv, TypeOK', Unique', NewOK', ListedOK', BegunOK', NEW x,
           x \in Runs \ Tools => RunOK(x)',
           pl'.st = "new" => pl.st = "new", pl'.st = "up" => pl.st \in {"new", "up"},
           \A j \in Runs \ Tools : j # x =>
                /\ run'[j].begun = run[j].begun /\ run'[j].done = run[j].done
                /\ run'[j].mem = run[j].mem /\ run'[j].timer = run[j].timer
                /\ run'[j].answers = run[j].answers
                /\ StaysIdle(j)
                /\ On(j)' \/ Waits(j)' => On(j) \/ Waits(j)
                /\ On(j)' => run'[j].co # "parked" /\ pl.st = "up" /\ pl'.st = "up"
                /\ <<"gate", j>> \in Held' <=> <<"gate", j>> \in Held
                /\ <<"cmd", j>> \in Held' <=> <<"cmd", j>> \in Held,
           \A j \in Tools :
                \/ run'[j].begun /\ pl'.st # "new" /\ (On(j)' => run'[j].co # "parked")
                \/ ~run[j].begun /\ SameLife(j) /\ StaysIdle(j) /\ ~On(j)'
    PROVE  LifeInv'
<1>0. \A j \in Runs : RunOK(j)
  BY DEF LifeInv
<1>1. ASSUME NEW j \in Runs \ Tools, j # x PROVE RunOK(j)'
  BY <1>0, <1>1, RunKept
<1>2. ASSUME NEW j \in Tools PROVE RunOK(j)'
  <2>1. j \in Runs
    BY DEF Runs
  <2>2. CASE run'[j].begun /\ pl'.st # "new" /\ (On(j)' => run'[j].co # "parked")
    BY <2>2, ToolBegun
  <2>3. CASE ~run[j].begun /\ SameLife(j) /\ StaysIdle(j) /\ ~On(j)'
    BY <1>0, <2>1, <2>3, ToolIdle
  <2> QED BY <2>2, <2>3
<1>3. ASSUME NEW j \in Runs PROVE RunOK(j)'
  BY <1>1, <1>2
<1> QED BY <1>3 DEF LifeInv

LEMMA BegunKept ==
    ASSUME BegunOK, TypeOK, TypeOK',
           \A j \in Runs : run[j].begun => run'[j].begun,
           reg' = reg \/ reg' = None \/ run'[reg'].begun,
           frame' = frame \/ frame' = None \/ frame'.inv = None \/ run'[frame'.inv].begun,
           \A r \in Runs : req'[r] = req[r] \/ req'[r].inv = None \/ run'[req'[r].inv].begun
    PROVE  BegunOK'
<1>0. Tools \subseteq Runs /\ None \notin Runs
  BY RunsAssumption DEF Runs
<1>1. reg' \in Runs => run'[reg'].begun
  BY <1>0 DEF BegunOK
<1>2. frame' # None => frame'.inv = None \/ run'[frame'.inv].begun
  <2>1. CASE frame' = frame
    <3>1. frame # None => frame.inv \in Tools \cup {None}
      BY DEF TypeOK, Frames
    <3> QED BY <1>0, <2>1, <3>1 DEF BegunOK
  <2> QED BY <2>1
<1>3. ASSUME NEW r \in Runs PROVE req'[r].inv = None \/ run'[req'[r].inv].begun
  <2>1. CASE req'[r] = req[r]
    <3>1. req[r].inv \in Tools \cup {None}
      BY DEF TypeOK, ReqRec
    <3> QED BY <1>0, <2>1, <3>1 DEF BegunOK
  <2> QED BY <2>1
<1> QED BY <1>1, <1>2, <1>3 DEF BegunOK

\* Steps that change no run and no request: they may open a frame for the
\* main state, or close the frame.
LEMMA QuietStep ==
    ASSUME LifeInv, UNCHANGED <<reg, run, req>>, TypeOK', Unique', NewOK',
           \A r \in Runs :
                /\ <<"req", r>> \in Held' => <<"req", r>> \in Held
                /\ <<"gate", r>> \in Held' <=> <<"gate", r>> \in Held
                /\ <<"cmd", r>> \in Held' <=> <<"cmd", r>> \in Held,
           \A x \in Timers : <<"timer", x>> \in Held' => tm'[x] # "off",
           \A k \in Kids : <<"child", k>> \in Held' => kid'[k].st # "none",
           \/ frame' = frame /\ (frame # None => pl'.st = pl.st)
           \/ frame' = None
           \/ frame' \in Frames /\ frame'.run = Main /\ frame'.inv = None,
           pl'.st = "new" => pl.st = "new", pl'.st = "up" => pl.st \in {"new", "up"}
    PROVE  LifeInv'
<1>0. Tools \subseteq Runs /\ None \notin Runs /\ Main \notin Runs
  BY RunsAssumption DEF Runs
<1>1. ListedOK'
  BY DEF LifeInv, ListedOK, Waits, Asks
<1>2. BegunOK'
  <2>1. BegunOK /\ TypeOK
    BY DEF LifeInv
  <2>2. \A j \in Runs : run[j].begun => run'[j].begun
    OBVIOUS
  <2>3. \A r \in Runs : req'[r] = req[r] \/ req'[r].inv = None \/ run'[req'[r].inv].begun
    OBVIOUS
  <2> QED BY <2>1, <2>2, <2>3, BegunKept
<1>3. \A j \in Runs : (On(j)' => On(j) /\ pl'.st = pl.st) /\ (Waits(j)' <=> Waits(j)) /\ StaysIdle(j)
  BY <1>0 DEF On, Waits, Asks, StaysIdle
<1>4. \A j \in Runs : RunOK(j)
  BY DEF LifeInv
<1>5. \A j \in Runs \ Tools :
                /\ run'[j].begun = run[j].begun /\ run'[j].done = run[j].done
                /\ run'[j].mem = run[j].mem /\ run'[j].timer = run[j].timer
                /\ run'[j].answers = run[j].answers
                /\ StaysIdle(j)
                /\ On(j)' \/ Waits(j)' => On(j) \/ Waits(j)
                /\ On(j)' => run'[j].co # "parked" /\ pl.st = "up" /\ pl'.st = "up"
                /\ <<"gate", j>> \in Held' <=> <<"gate", j>> \in Held
                /\ <<"cmd", j>> \in Held' <=> <<"cmd", j>> \in Held
  BY <1>3, <1>4 DEF RunOK
<1>6. ASSUME NEW j \in Tools
      PROVE  \/ run'[j].begun /\ pl'.st # "new" /\ (On(j)' => run'[j].co # "parked")
             \/ ~run[j].begun /\ SameLife(j) /\ StaysIdle(j) /\ ~On(j)'
  <2>1. j \in Runs /\ RunOK(j)
    BY <1>0, <1>4
  <2>2. (On(j)' => On(j)) /\ StaysIdle(j)
    BY <1>3, <2>1
  <2> QED BY <2>1, <2>2 DEF RunOK, SameLife
<1>7. None \in Runs \ Tools => RunOK(None)'
  BY <1>0
<1> QED BY <1>1, <1>2, <1>5, <1>6, <1>7, LifeStep

\* Steps of the plugin's code and of the loading that change only pl.
LEMMA PlStep ==
    ASSUME LifeInv, UNCHANGED <<reg, pend, run, req, canc, tm, kid, stale>>, pl' \in PlRec,
           \/ frame' = frame /\ (frame # None => pl'.st = pl.st)
           \/ frame' = None
           \/ frame' \in Frames /\ FrameOK(frame') /\ frame'.run = Main /\ frame'.inv = None,
           pl'.st = "new" => pl.st = "new" /\ pl'.tool = pl.tool /\ frame' = frame,
           pl'.st = "up" => pl.st \in {"new", "up"}
    PROVE  LifeInv'
<1>1. TypeOK /\ Unique
  BY DEF LifeInv
<1>2. pend' \in Seq(Entry) /\ Unique' /\ Held' = Held
  BY <1>1, SameList
<1>3. TypeOK'
  BY <1>1, <1>2 DEF TypeOK
<1>4. NewOK'
  BY DEF LifeInv, NewOK
<1>5. /\ \A x \in Timers : <<"timer", x>> \in Held' => tm'[x] # "off"
      /\ \A k \in Kids : <<"child", k>> \in Held' => kid'[k].st # "none"
  BY <1>2 DEF LifeInv, ListedOK
<1>6. \A r \in Runs :
                /\ <<"req", r>> \in Held' => <<"req", r>> \in Held
                /\ <<"gate", r>> \in Held' <=> <<"gate", r>> \in Held
                /\ <<"cmd", r>> \in Held' <=> <<"cmd", r>> \in Held
  BY <1>2
<1> QED BY <1>2, <1>3, <1>4, <1>5, <1>6, QuietStep

LEMMA MainFrame ==
    ASSUME NEW f,
           \/ \E b \in {"load", "callback"} : f = [by |-> b, run |-> Main, inv |-> None, ref |-> None]
           \/ \E x \in Timers : f = [by |-> "timer", run |-> Main, inv |-> None, ref |-> x]
    PROVE  f \in Frames /\ FrameOK(f) /\ f.run = Main /\ f.inv = None
  BY DEF Frames, FrameOK

LEMMA LoadLife ==
    ASSUME LifeInv, Skipped \/ load_one_plugin \/ LoadFails \/ clm_lua_hook_drop_all
                    \/ clm_lua_plugin_callback
    PROVE  LifeInv'
<1>0. pl \in PlRec
  BY DEF LifeInv, TypeOK
<1>1. CASE Skipped
  <2>1. pl' \in PlRec /\ pl'.st = "freed"
    BY <1>0, <1>1 DEF Skipped, PlRec
  <2>2. frame' = frame /\ (frame # None => pl'.st = pl.st)
    BY <1>1 DEF LifeInv, NewOK, Skipped
  <2> QED BY <1>1, <2>1, <2>2, PlStep DEF Skipped
<1>2. CASE load_one_plugin
  <2>1. pl' \in PlRec /\ pl'.st = "up" /\ pl.st = "new"
    BY <1>0, <1>2 DEF load_one_plugin, PlRec
  <2>2. frame' \in Frames /\ FrameOK(frame') /\ frame'.run = Main /\ frame'.inv = None
    BY <1>2, MainFrame DEF load_one_plugin
  <2> QED BY <1>2, <2>1, <2>2, PlStep DEF load_one_plugin
<1>3. CASE LoadFails
  <2>1. pl' \in PlRec /\ pl'.st = "freed"
    BY <1>0, <1>3 DEF LoadFails, PlRec
  <2> QED BY <1>3, <2>1, PlStep DEF LoadFails
<1>4. CASE clm_lua_hook_drop_all
  <2>1. pl' \in PlRec /\ pl'.st = "tearing" /\ frame' = None
    BY <1>0, <1>4 DEF clm_lua_hook_drop_all, PlRec, Loop
  <2> QED BY <1>4, <2>1, PlStep DEF clm_lua_hook_drop_all
<1>5. CASE clm_lua_plugin_callback
  <2>1. pl' = pl /\ pl.st = "up"
    BY <1>5 DEF clm_lua_plugin_callback, Loop
  <2>2. frame' \in Frames /\ FrameOK(frame') /\ frame'.run = Main /\ frame'.inv = None
    BY <1>5, MainFrame DEF clm_lua_plugin_callback
  <2> QED BY <1>0, <1>5, <2>1, <2>2, PlStep DEF clm_lua_plugin_callback
<1> QED BY <1>1, <1>2, <1>3, <1>4, <1>5

\* A frame is open: the plugin is not new.
LEMMA FrameOpen ==
    ASSUME LifeInv, frame # None
    PROVE  pl.st # "new" /\ frame \in Frames
  BY DEF LifeInv, NewOK, TypeOK

LEMMA RegistersLife ==
    ASSUME LifeInv, lua_clm_tool_register \/ lua_clm_tool_remove \/ lua_clm_on
                    \/ lua_clm_command_register \/ lua_clm_command_remove
    PROVE  LifeInv'
<1>0. pl \in PlRec
  BY DEF LifeInv, TypeOK
<1>1. Counted \in PlRec /\ Counted.st = pl.st
  BY <1>0 DEF Counted, PlRec
<1>2. ASSUME NEW was PROVE Registered(was) \in PlRec /\ Registered(was).st = pl.st
  <2>1. CASE was = "none"
    BY <1>0, <2>1 DEF Registered
  <2>2. CASE was # "none"
    BY <1>1, <2>2 DEF Registered
  <2> QED BY <2>1, <2>2
<1>3. frame # None /\ frame' = frame
  BY DEF lua_clm_tool_register, lua_clm_tool_remove, lua_clm_on, lua_clm_command_register,
         lua_clm_command_remove
<1>4. pl.st # "new"
  BY <1>3, FrameOpen
<1>5. UNCHANGED <<reg, pend, run, req, canc, tm, kid, stale>>
  BY DEF lua_clm_tool_register, lua_clm_tool_remove, lua_clm_on, lua_clm_command_register,
         lua_clm_command_remove
<1>6. pl' \in PlRec /\ pl'.st = pl.st
  <2>1. CASE lua_clm_tool_register
    <3> DEFINE p == Registered(pl.tool)
    <3>1. p \in PlRec /\ p.st = pl.st /\ pl' = [p EXCEPT !.tool = "in"]
      BY <1>2, <2>1 DEF lua_clm_tool_register
    <3> HIDE DEF p
    <3> QED BY <3>1 DEF PlRec
  <2>2. CASE lua_clm_tool_remove
    <3> DEFINE p == Counted
    <3>1. p \in PlRec /\ p.st = pl.st /\ pl' = [p EXCEPT !.tool = "out"]
      BY <1>1, <2>2 DEF lua_clm_tool_remove
    <3> HIDE DEF p
    <3> QED BY <3>1 DEF PlRec
  <2>3. CASE lua_clm_on
    BY <1>0, <2>3 DEF lua_clm_on, PlRec
  <2>4. CASE lua_clm_command_register
    <3> DEFINE p == Registered(pl.cmd)
    <3>1. p \in PlRec /\ p.st = pl.st /\ pl' = [p EXCEPT !.cmd = "in"]
      BY <1>2, <2>4 DEF lua_clm_command_register
    <3> HIDE DEF p
    <3> QED BY <3>1 DEF PlRec
  <2>5. CASE lua_clm_command_remove
    <3> DEFINE p == Counted
    <3>1. p \in PlRec /\ p.st = pl.st /\ pl' = [p EXCEPT !.cmd = "out"]
      BY <1>1, <2>5 DEF lua_clm_command_remove
    <3> HIDE DEF p
    <3> QED BY <3>1 DEF PlRec
  <2> QED BY <2>1, <2>2, <2>3, <2>4, <2>5
<1>7. pl'.st \in {"up", "tearing", "freed"}
  BY <1>0, <1>4, <1>6 DEF PlRec
<1> QED BY <1>3, <1>4, <1>5, <1>6, <1>7, PlStep

-----------------------------------------------------------------------------
(* Timers and children keep LifeInv.                                       *)

\* No entry of the list is of two kinds.
LEMMA KindsApart ==
    ASSUME NEW e, NEW r
    PROVE  /\ <<"req", r>> # <<"timer", e>> /\ <<"gate", r>> # <<"timer", e>>
           /\ <<"cmd", r>> # <<"timer", e>> /\ <<"child", r>> # <<"timer", e>>
           /\ <<"req", r>> # <<"child", e>> /\ <<"gate", r>> # <<"child", e>>
           /\ <<"cmd", r>> # <<"child", e>> /\ <<"timer", r>> # <<"child", e>>
           /\ <<"gate", r>> # <<"req", e>> /\ <<"cmd", r>> # <<"req", e>>
           /\ <<"timer", r>> # <<"req", e>> /\ <<"child", r>> # <<"req", e>>
           /\ <<"cmd", r>> # <<"gate", e>> /\ <<"timer", r>> # <<"gate", e>>
           /\ <<"child", r>> # <<"gate", e>> /\ <<"req", r>> # <<"gate", e>>
           /\ <<"gate", r>> # <<"cmd", e>> /\ <<"timer", r>> # <<"cmd", e>>
           /\ <<"child", r>> # <<"cmd", e>> /\ <<"req", r>> # <<"cmd", e>>
  OBVIOUS

TmSet == {"off", "set", "note", "firing", "freed", "twice"}

LEMMA FreedFacts ==
    ASSUME tm \in [Timers -> TmSet], NEW x \in Timers
    PROVE  /\ Freed(x) \in [Timers -> TmSet] /\ Freed(x)[x] \in {"freed", "twice"}
           /\ tm[x] # "freed" => Freed(x)[x] = "freed"
           /\ \A y \in Timers : y # x => Freed(x)[y] = tm[y]
<1> DEFINE v == IF tm[x] = "freed" THEN "twice" ELSE "freed"
<1>1. Freed(x) = [tm EXCEPT ![x] = v]
  BY DEF Freed
<1>2. v \in {"freed", "twice"} /\ (tm[x] # "freed" => v = "freed")
  OBVIOUS
<1> HIDE DEF v
<1>3. v \in TmSet
  BY <1>2 DEF TmSet
<1> QED BY <1>1, <1>2, <1>3

\* The gates, commands and requests on the list are left.
LEMMA OthersHeld ==
    ASSUME NEW b \in {"timer", "child"}, NEW o, Held' = Held \cup {<<b, o>>} \/ Held' = Held \ {<<b, o>>}
    PROVE  \A r \in Runs :
                /\ <<"req", r>> \in Held' <=> <<"req", r>> \in Held
                /\ <<"gate", r>> \in Held' <=> <<"gate", r>> \in Held
                /\ <<"cmd", r>> \in Held' <=> <<"cmd", r>> \in Held
  OBVIOUS

LEMMA TimersLife ==
    ASSUME LifeInv, NEW x \in Timers,
           lua_clm_after(x) \/ lua_clm_notify(x) \/ lua_timer_cancel(x) \/ lua_timer_fire(x)
    PROVE  LifeInv'
<1>0. /\ TypeOK /\ Unique /\ pl \in PlRec /\ tm \in [Timers -> TmSet] /\ NewOK
      /\ \A y \in Timers : <<"timer", y>> \in Held => tm[y] # "off"
      /\ \A k \in Kids : <<"child", k>> \in Held => kid[k].st # "none"
  BY DEF LifeInv, TypeOK, ListedOK, TmSet
<1>1. ASSUME NEW k \in {"set", "note"}, lua_timer_start(x, k) PROVE LifeInv'
  <2>1. <<"timer", x>> \in Entry
    BY DEF Entry
  <2>2. frame # None /\ frame' = frame /\ pl.st = "up" /\ tm[x] = "off" /\ pl' = Counted
    BY <1>1 DEF lua_timer_start
  <2>3. <<"timer", x>> \notin Held
    BY <1>0, <2>2
  <2>4. pend' \in Seq(Entry) /\ Unique' /\ Held' = Held \cup {<<"timer", x>>}
    BY <1>0, <1>1, <2>1, <2>3, Added DEF lua_timer_start
  <2>5. pl' \in PlRec /\ pl'.st = "up"
    BY <1>0, <2>2 DEF Counted, PlRec
  <2>6. tm' \in [Timers -> TmSet] /\ tm'[x] # "off" /\ \A y \in Timers : y # x => tm'[y] = tm[y]
    BY <1>0, <1>1 DEF lua_timer_start, TmSet
  <2>7. UNCHANGED <<reg, run, req, canc, kid, frame, stale>>
    BY <1>1 DEF lua_timer_start
  <2>8. TypeOK'
    BY <1>0, <2>4, <2>5, <2>6, <2>7 DEF TypeOK, TmSet
  <2>9. NewOK'
    BY <2>5 DEF NewOK
  <2>10. \A r \in Runs :
                /\ <<"req", r>> \in Held' => <<"req", r>> \in Held
                /\ <<"gate", r>> \in Held' <=> <<"gate", r>> \in Held
                /\ <<"cmd", r>> \in Held' <=> <<"cmd", r>> \in Held
    BY <2>4, OthersHeld
  <2>11. /\ \A y \in Timers : <<"timer", y>> \in Held' => tm'[y] # "off"
         /\ \A j \in Kids : <<"child", j>> \in Held' => kid'[j].st # "none"
    BY <1>0, <2>4, <2>6, <2>7
  <2> QED BY <2>2, <2>4, <2>5, <2>7, <2>8, <2>9, <2>10, <2>11, QuietStep
<1>2. CASE lua_timer_cancel(x)
  <2>1. frame # None /\ UNCHANGED <<pl, reg, run, req, canc, kid, frame, stale>> /\ tm' = Freed(x)
    BY <1>2 DEF lua_timer_cancel
  <2>2. pend' \in Seq(Entry) /\ Unique' /\ Held' = Held \ {<<"timer", x>>}
    BY <1>0, <1>2, Dropped DEF lua_timer_cancel
  <2>3. tm' \in [Timers -> TmSet] /\ tm'[x] # "off" /\ \A y \in Timers : y # x => tm'[y] = tm[y]
    BY <1>0, <2>1, FreedFacts
  <2>4. TypeOK'
    BY <1>0, <2>1, <2>2, <2>3 DEF TypeOK, TmSet
  <2>5. NewOK'
    BY <1>0, <2>1 DEF NewOK
  <2>6. \A r \in Runs :
                /\ <<"req", r>> \in Held' => <<"req", r>> \in Held
                /\ <<"gate", r>> \in Held' <=> <<"gate", r>> \in Held
                /\ <<"cmd", r>> \in Held' <=> <<"cmd", r>> \in Held
    BY <2>2, OthersHeld
  <2>7. /\ \A y \in Timers : <<"timer", y>> \in Held' => tm'[y] # "off"
        /\ \A j \in Kids : <<"child", j>> \in Held' => kid'[j].st # "none"
    BY <1>0, <2>1, <2>2, <2>3
  <2>8. pl'.st = "new" => pl.st = "new"
    BY <2>1
  <2>9. pl'.st = "up" => pl.st \in {"new", "up"}
    BY <2>1
  <2> QED BY <2>1, <2>2, <2>4, <2>5, <2>6, <2>7, <2>8, <2>9, QuietStep
<1>3. CASE lua_timer_fire(x)
  <2>1. UNCHANGED <<pl, reg, run, req, canc, kid, stale>> /\ frame = None /\ pl.st = "up"
    BY <1>3 DEF lua_timer_fire, Loop
  <2>2. pend' \in Seq(Entry) /\ Unique' /\ Held' = Held \ {<<"timer", x>>}
    BY <1>0, <1>3, Dropped DEF lua_timer_fire
  <2>3. tm' \in [Timers -> TmSet] /\ tm'[x] # "off" /\ \A y \in Timers : y # x => tm'[y] = tm[y]
    <3>1. CASE tm' = [tm EXCEPT ![x] = "firing"]
      BY <1>0, <3>1 DEF TmSet
    <3>2. CASE tm' = Freed(x)
      BY <1>0, <3>2, FreedFacts
    <3> QED BY <1>3, <3>1, <3>2 DEF lua_timer_fire
  <2>4. \/ frame' = frame
        \/ frame' \in Frames /\ FrameOK(frame') /\ frame'.run = Main /\ frame'.inv = None
    BY <1>3, MainFrame DEF lua_timer_fire
  <2>5. TypeOK'
    BY <1>0, <2>1, <2>2, <2>3, <2>4 DEF TypeOK, TmSet
  <2>6. NewOK'
    BY <2>1 DEF NewOK
  <2>7. \A r \in Runs :
                /\ <<"req", r>> \in Held' => <<"req", r>> \in Held
                /\ <<"gate", r>> \in Held' <=> <<"gate", r>> \in Held
                /\ <<"cmd", r>> \in Held' <=> <<"cmd", r>> \in Held
    BY <2>2, OthersHeld
  <2>8. /\ \A y \in Timers : <<"timer", y>> \in Held' => tm'[y] # "off"
        /\ \A j \in Kids : <<"child", j>> \in Held' => kid'[j].st # "none"
    BY <1>0, <2>1, <2>2, <2>3
  <2> QED BY <2>1, <2>2, <2>4, <2>5, <2>6, <2>7, <2>8, QuietStep
<1> QED BY <1>1, <1>2, <1>3 DEF lua_clm_after, lua_clm_notify

\* What settling changes of a child.
LEMMA SettleFacts ==
    ASSUME NEW kd \in KidRec, NEW k
    PROVE  /\ host_uv_proc_settle(kd, k) \in KidRec
           /\ kd.st # "none" => host_uv_proc_settle(kd, k).st # "none"
           /\ host_uv_proc_settle(kd, k).detached = kd.detached
           /\ host_uv_proc_settle(kd, k).told > kd.told =>
                ~kd.detached /\ host_uv_proc_settle(kd, k).st = "settled"
           /\ ~(host_uv_proc_settle(kd, k).told > kd.told) /\ ~kd.detached =>
                host_uv_proc_settle(kd, k).st = kd.st
<1>1. CASE ~(kd.st = "live" /\ kd.exited /\ kd.pipes = 0)
  <2>1. host_uv_proc_settle(kd, k) = kd
    BY <1>1 DEF host_uv_proc_settle
  <2>2. kd.told \in Nat
    BY DEF KidRec
  <2>3. ~(kd.told > kd.told)
    BY <2>2
  <2> QED BY <2>1, <2>3
<1>2. CASE kd.st = "live" /\ kd.exited /\ kd.pipes = 0
  <2> DEFINE n == IF kd.detached THEN kd.told ELSE kd.told + 1
             s == host_uv_proc_settle(kd, k)
  <2>1. s = [kd EXCEPT !.st = "settled", !.told = n]
    BY <1>2 DEF host_uv_proc_settle
  <2>2. kd.told \in Nat /\ n \in Nat /\ (n > kd.told <=> ~kd.detached)
    <3>1. kd.told \in Nat /\ kd.detached \in BOOLEAN
      BY DEF KidRec
    <3>2. CASE kd.detached
      BY <3>1, <3>2
    <3>3. CASE ~kd.detached
      BY <3>1, <3>3
    <3> QED BY <3>1, <3>2, <3>3
  <2> HIDE DEF n, s
  <2>3. s \in KidRec /\ s.st = "settled" /\ s.detached = kd.detached /\ s.told = n
    BY <2>1, <2>2 DEF KidRec
  <2> QED BY <2>2, <2>3 DEF s
<1> QED BY <1>1, <1>2

LEMMA KidsLife ==
    ASSUME LifeInv, NEW k \in Kids,
           lua_clm_spawn(k) \/ host_uv_proc_read(k) \/ host_uv_proc_on_exit(k)
    PROVE  LifeInv'
<1>0. /\ TypeOK /\ Unique /\ pl \in PlRec /\ kid \in [Kids -> KidRec] /\ NewOK
      /\ \A y \in Timers : <<"timer", y>> \in Held => tm[y] # "off"
      /\ \A j \in Kids : <<"child", j>> \in Held => kid[j].st # "none"
  BY DEF LifeInv, TypeOK, ListedOK
<1>1. CASE lua_clm_spawn(k)
  <2>1. <<"child", k>> \in Entry
    BY DEF Entry
  <2>2. frame # None /\ pl.st = "up" /\ kid[k].st = "none" /\ pl' = Counted
        /\ UNCHANGED <<reg, run, req, canc, tm, frame, stale>>
    BY <1>1 DEF lua_clm_spawn
  <2>3. <<"child", k>> \notin Held
    BY <1>0, <2>2
  <2>4. pend' \in Seq(Entry) /\ Unique' /\ Held' = Held \cup {<<"child", k>>}
    BY <1>0, <1>1, <2>1, <2>3, Added DEF lua_clm_spawn
  <2>5. pl' \in PlRec /\ pl'.st = "up"
    BY <1>0, <2>2 DEF Counted, PlRec
  <2>6. host_uv_proc_spawn \in KidRec /\ host_uv_proc_spawn.st = "live"
    BY DEF host_uv_proc_spawn, NoKid, KidRec
  <2>7. kid' \in [Kids -> KidRec] /\ kid'[k].st # "none" /\ \A j \in Kids : j # k => kid'[j] = kid[j]
    BY <1>0, <1>1, <2>6 DEF lua_clm_spawn
  <2>8. TypeOK'
    BY <1>0, <2>2, <2>4, <2>5, <2>7 DEF TypeOK
  <2>9. NewOK'
    BY <2>5 DEF NewOK
  <2>10. \A r \in Runs :
                /\ <<"req", r>> \in Held' => <<"req", r>> \in Held
                /\ <<"gate", r>> \in Held' <=> <<"gate", r>> \in Held
                /\ <<"cmd", r>> \in Held' <=> <<"cmd", r>> \in Held
    BY <2>4, OthersHeld
  <2>11. /\ \A y \in Timers : <<"timer", y>> \in Held' => tm'[y] # "off"
         /\ \A j \in Kids : <<"child", j>> \in Held' => kid'[j].st # "none"
    BY <1>0, <2>2, <2>4, <2>7
  <2> QED BY <2>2, <2>4, <2>5, <2>8, <2>9, <2>10, <2>11, QuietStep
<1>2. ASSUME NEW kd \in KidRec, kd.st = "live",
             frame = None, pl.st # "tearing", kid[k].st = "live", kd.told = kid[k].told,
             Settles(k, host_uv_proc_settle(kd, k))
      PROVE  LifeInv'
  <2> DEFINE s == host_uv_proc_settle(kd, k)
  <2>1. s \in KidRec /\ s.st # "none"
    BY <1>2, SettleFacts
  <2>2. UNCHANGED <<pl, reg, run, req, canc, tm, stale>> /\ kid' = [kid EXCEPT ![k] = s]
    BY <1>2 DEF Settles
  <2>3. kid' \in [Kids -> KidRec] /\ kid'[k].st # "none" /\ \A j \in Kids : j # k => kid'[j] = kid[j]
    BY <1>0, <2>1, <2>2
  <2>4. /\ pend' \in Seq(Entry) /\ Unique'
        /\ Held' = Held \/ Held' = Held \ {<<"child", k>>}
    <3>1. CASE pend' = pend
      BY <1>0, <3>1, SameList
    <3>2. CASE pend' = clm_lua_pending_remove("child", k)
      BY <1>0, <3>2, Dropped
    <3> QED BY <1>2, <3>1, <3>2 DEF Settles
  <2>5. pl.st # "new"
    BY <1>0, <1>2 DEF NewOK
  <2>6. \/ frame' = None
        \/ frame' \in Frames /\ FrameOK(frame') /\ frame'.run = Main /\ frame'.inv = None
    BY <1>2, MainFrame DEF Settles
  <2>7. TypeOK'
    BY <1>0, <2>2, <2>3, <2>4, <2>6 DEF TypeOK
  <2>8. NewOK'
    BY <2>2, <2>5 DEF NewOK
  <2>9. \A r \in Runs :
                /\ <<"req", r>> \in Held' => <<"req", r>> \in Held
                /\ <<"gate", r>> \in Held' <=> <<"gate", r>> \in Held
                /\ <<"cmd", r>> \in Held' <=> <<"cmd", r>> \in Held
    BY <2>4, OthersHeld
  <2>10. /\ \A y \in Timers : <<"timer", y>> \in Held' => tm'[y] # "off"
         /\ \A j \in Kids : <<"child", j>> \in Held' => kid'[j].st # "none"
    BY <1>0, <2>2, <2>3, <2>4
  <2>11. (pl'.st = "new" => pl.st = "new") /\ (pl'.st = "up" => pl.st \in {"new", "up"})
    BY <2>2
  <2> QED BY <2>2, <2>4, <2>6, <2>7, <2>8, <2>9, <2>10, <2>11, QuietStep
<1>3. CASE host_uv_proc_read(k)
  <2> DEFINE kd == [kid[k] EXCEPT !.pipes = @ - 1]
  <2>1. kid[k] \in KidRec /\ kid[k].pipes > 0 /\ kid[k].st = "live"
    BY <1>0, <1>3 DEF host_uv_proc_read
  <2>2. kid[k].pipes - 1 \in Nat
    BY <2>1 DEF KidRec
  <2>3. kd \in KidRec /\ kd.st = "live" /\ kd.told = kid[k].told
    BY <2>1, <2>2 DEF KidRec
  <2>4. frame = None /\ pl.st # "tearing" /\ Settles(k, host_uv_proc_settle(kd, k))
    BY <1>3 DEF host_uv_proc_read
  <2> HIDE DEF kd
  <2> QED BY <1>2, <2>1, <2>3, <2>4
<1>4. CASE host_uv_proc_on_exit(k)
  <2> DEFINE kd == [kid[k] EXCEPT !.exited = TRUE]
  <2>1. kid[k] \in KidRec /\ kid[k].st = "live"
    BY <1>0, <1>4 DEF host_uv_proc_on_exit
  <2>2. kd \in KidRec /\ kd.st = "live" /\ kd.told = kid[k].told
    BY <2>1 DEF KidRec
  <2>3. frame = None /\ pl.st # "tearing" /\ Settles(k, host_uv_proc_settle(kd, k))
    BY <1>4 DEF host_uv_proc_on_exit
  <2> HIDE DEF kd
  <2> QED BY <1>2, <2>1, <2>2, <2>3
<1> QED BY <1>1, <1>3, <1>4

LEMMA CallbackEndsLife ==
    ASSUME LifeInv, CallbackEnds
    PROVE  LifeInv'
<1>0. /\ TypeOK /\ Unique /\ tm \in [Timers -> TmSet]
      /\ \A y \in Timers : <<"timer", y>> \in Held => tm[y] # "off"
      /\ \A j \in Kids : <<"child", j>> \in Held => kid[j].st # "none"
  BY DEF LifeInv, TypeOK, ListedOK, TmSet
<1>1. UNCHANGED <<pl, reg, pend, run, req, canc, kid, stale>> /\ frame # None /\ frame' = None
  BY DEF CallbackEnds
<1>2. pend' \in Seq(Entry) /\ Unique' /\ Held' = Held
  BY <1>0, <1>1, SameList
<1>3. tm' \in [Timers -> TmSet] /\ \A y \in Timers : tm[y] # "off" => tm'[y] # "off"
  <2>1. CASE frame.by = "timer"
    <3>1. frame.ref \in Timers /\ tm' = Freed(frame.ref)
      BY <1>0, <1>1, <2>1 DEF CallbackEnds, TypeOK, FrameOK
    <3> QED BY <1>0, <3>1, FreedFacts
  <2>2. CASE frame.by # "timer"
    BY <1>0, <2>2 DEF CallbackEnds
  <2> QED BY <2>1, <2>2
<1>4. pl.st # "new"
  BY <1>1, FrameOpen
<1>5. TypeOK' /\ NewOK'
  BY <1>0, <1>1, <1>2, <1>3, <1>4 DEF TypeOK, TmSet, NewOK
<1>6. \A r \in Runs :
                /\ <<"req", r>> \in Held' => <<"req", r>> \in Held
                /\ <<"gate", r>> \in Held' <=> <<"gate", r>> \in Held
                /\ <<"cmd", r>> \in Held' <=> <<"cmd", r>> \in Held
  BY <1>2
<1>7. /\ \A y \in Timers : <<"timer", y>> \in Held' => tm'[y] # "off"
      /\ \A j \in Kids : <<"child", j>> \in Held' => kid'[j].st # "none"
  BY <1>0, <1>1, <1>2, <1>3
<1>8. (pl'.st = "new" => pl.st = "new") /\ (pl'.st = "up" => pl.st \in {"new", "up"})
  BY <1>1
<1> QED BY <1>1, <1>2, <1>5, <1>6, <1>7, <1>8, QuietStep

-----------------------------------------------------------------------------
(* Entries keep LifeInv.                                                   *)

LEMMA RunSets ==
    /\ Tools \subseteq Runs /\ Gates \subseteq Runs /\ Cmds \subseteq Runs
    /\ Runs = Tools \cup Gates \cup Cmds
    /\ None \notin Runs /\ Main \notin Runs /\ None \notin Frames
    /\ Tools \cap Gates = {} /\ Tools \cap Cmds = {} /\ Gates \cap Cmds = {}
    /\ IsFiniteSet(Runs)
  BY RunsAssumption DEF Runs

LEMMA RunFrame ==
    ASSUME NEW b \in {"invoke", "hook", "command", "http", "sleep", "exec"}, NEW r \in Runs,
           NEW i \in Tools \cup {None}, NEW x \in Runs \cup {None}, NEW f,
           f = [by |-> b, run |-> r, inv |-> i, ref |-> x]
    PROVE  /\ f \in Frames /\ FrameOK(f) /\ f # None
           /\ f.by = b /\ f.run = r /\ f.inv = i /\ f.ref = x
<1>1. f \in Frames /\ f.by = b /\ f.run = r /\ f.inv = i /\ f.ref = x
  BY DEF Frames
<1>2. f # None
  BY <1>1, RunSets
<1> QED BY <1>1, <1>2 DEF FrameOK

LEMMA EnterFacts ==
    ASSUME NEW b \in {"invoke", "hook", "command"}, NEW rn \in [Runs -> RunRec], NEW r \in Runs,
           Enter(b, r, rn)
    PROVE  /\ run' \in [Runs -> RunRec]
           /\ run'[r].begun /\ run'[r].rooted /\ run'[r].co = "running"
           /\ run'[r].done = rn[r].done /\ run'[r].mem = rn[r].mem /\ run'[r].timer = rn[r].timer
           /\ run'[r].answers = rn[r].answers
           /\ \A j \in Runs : j # r => run'[j] = rn[j]
           /\ reg' = r
           /\ frame' \in Frames /\ FrameOK(frame') /\ frame' # None
           /\ frame'.by = b /\ frame'.run = r /\ frame'.ref = r
           /\ frame'.inv = IF r \in Tools THEN r ELSE None
<1>1. rn[r] \in RunRec
  OBVIOUS
<1> DEFINE u == [rn[r] EXCEPT !.begun = TRUE, !.co = "running", !.rooted = TRUE]
<1>2. run' = [rn EXCEPT ![r] = u]
  BY DEF Enter
<1>3. u \in RunRec /\ u.begun = TRUE /\ u.rooted = TRUE /\ u.co = "running" /\ u.done = rn[r].done /\ u.mem = rn[r].mem
      /\ u.timer = rn[r].timer /\ u.answers = rn[r].answers
  BY <1>1 DEF RunRec
<1> HIDE DEF u
<1>4. run' \in [Runs -> RunRec] /\ run'[r] = u /\ \A j \in Runs : j # r => run'[j] = rn[j]
  BY <1>2, <1>3
<1>5. reg' = r
  BY DEF Enter
<1> DEFINE i == IF r \in Tools THEN r ELSE None
<1>6. i \in Tools \cup {None} /\ frame' = [by |-> b, run |-> r, inv |-> i, ref |-> r]
  BY DEF Enter
<1>7. /\ frame' \in Frames /\ FrameOK(frame') /\ frame' # None
      /\ frame'.by = b /\ frame'.run = r /\ frame'.ref = r /\ frame'.inv = i
  <2> HIDE DEF i
  <2> QED BY <1>6, RunFrame
<1> QED BY <1>3, <1>4, <1>5, <1>7

\* The parts of LifeInv by name.
LEMMA LifeParts ==
    ASSUME LifeInv
    PROVE  /\ TypeOK /\ Unique /\ NewOK /\ ListedOK /\ BegunOK
           /\ pl \in PlRec /\ run \in [Runs -> RunRec] /\ req \in [Runs -> ReqRec]
           /\ frame \in Frames \cup {None} /\ \A r \in Runs : RunOK(r)
  BY DEF LifeInv, TypeOK

LEMMA InvokeLife ==
    ASSUME LifeInv, NEW t \in Tools, lua_tool_invoke(t)
    PROVE  LifeInv'
<1>0. /\ TypeOK /\ Unique /\ NewOK /\ ListedOK /\ BegunOK
      /\ pl \in PlRec /\ run \in [Runs -> RunRec] /\ req \in [Runs -> ReqRec]
      /\ \A r \in Runs : RunOK(r)
  BY LifeParts
<1>1. t \in Runs /\ ~run[t].begun /\ frame = None /\ pl.tool # "none"
  BY RunSets DEF lua_tool_invoke
<1>2. UNCHANGED <<pend, req, canc, tm, kid, stale>> /\ Enter("invoke", t, run)
  BY DEF lua_tool_invoke
<1>3. pl' \in PlRec /\ pl'.st = pl.st /\ pl.st # "new"
  BY <1>0, <1>1 DEF lua_tool_invoke, PlRec, NewOK
<1>4. /\ run' \in [Runs -> RunRec] /\ run'[t].begun /\ run'[t].co = "running"
      /\ \A j \in Runs : j # t => run'[j] = run[j]
      /\ reg' = t /\ frame' \in Frames /\ FrameOK(frame') /\ frame' # None
      /\ frame'.run = t /\ frame'.inv = t
  BY <1>0, <1>1, <1>2, EnterFacts
<1>5. pend' \in Seq(Entry) /\ Unique' /\ Held' = Held
  BY <1>0, <1>2, SameList
<1>6. TypeOK'
  BY <1>0, <1>1, <1>2, <1>3, <1>4, <1>5 DEF TypeOK
<1>7. NewOK'
  BY <1>3 DEF NewOK
<1>8. \A j \in Runs : /\ On(j)' <=> j = t
                      /\ j # t => (Waits(j)' <=> Waits(j)) /\ StaysIdle(j)
  BY <1>2, <1>4 DEF Waits, Asks, On, StaysIdle
<1>9. ListedOK'
  BY <1>0, <1>2, <1>5 DEF ListedOK, Waits, Asks
<1>10. BegunOK'
  <2>1. \A j \in Runs : run[j].begun => run'[j].begun
    BY <1>4
  <2>2. reg' = None \/ run'[reg'].begun
    BY <1>4
  <2>3. frame' = None \/ run'[frame'.inv].begun
    BY <1>4
  <2>4. \A r \in Runs : req'[r] = req[r]
    BY <1>2
  <2> QED BY <1>0, <1>6, <2>1, <2>2, <2>3, <2>4, BegunKept
<1>11. ASSUME NEW j \in Runs \ Tools
       PROVE  /\ run'[j].begun = run[j].begun /\ run'[j].done = run[j].done
              /\ run'[j].mem = run[j].mem /\ run'[j].timer = run[j].timer
              /\ run'[j].answers = run[j].answers
              /\ StaysIdle(j)
              /\ On(j)' \/ Waits(j)' => On(j) \/ Waits(j)
              /\ On(j)' => run'[j].co # "parked" /\ pl.st = "up" /\ pl'.st = "up"
              /\ <<"gate", j>> \in Held' <=> <<"gate", j>> \in Held
              /\ <<"cmd", j>> \in Held' <=> <<"cmd", j>> \in Held
  <2>1. j # t
    OBVIOUS
  <2> QED BY <1>4, <1>5, <1>8, <2>1
<1>12. ASSUME NEW j \in Tools
       PROVE  \/ run'[j].begun /\ pl'.st # "new" /\ (On(j)' => run'[j].co # "parked")
              \/ ~run[j].begun /\ SameLife(j) /\ StaysIdle(j) /\ ~On(j)'
  <2>1. j \in Runs /\ RunOK(j)
    BY <1>0, RunSets
  <2>2. CASE j = t
    BY <1>1, <1>3, <1>4, <1>8, <2>1, <2>2 DEF RunOK
  <2>3. CASE j # t
    <3>1. run'[j] = run[j] /\ ~On(j)' /\ StaysIdle(j)
      BY <1>4, <1>8, <2>1, <2>3
    <3> QED BY <1>3, <2>1, <3>1 DEF RunOK, SameLife
  <2> QED BY <2>2, <2>3
<1>13. (pl'.st = "new" => pl.st = "new") /\ (pl'.st = "up" => pl.st \in {"new", "up"})
  BY <1>3
<1>14. None \in Runs \ Tools => RunOK(None)'
  BY RunSets
<1> QED BY <1>5, <1>6, <1>7, <1>9, <1>10, <1>11, <1>12, <1>13, <1>14, LifeStep

\* A step of a plugin that is loaded. Only x, if it is a hook or a command,
\* changes its life, and only x starts to run or to wait.
LEMMA RunStep ==
    ASSUME LifeInv, TypeOK', Unique', NEW x, x \notin Tools, x \in Runs => RunOK(x)',
           \A t \in Tools : ~run'[t].begun => SameLife(t),
           pl.st # "new", pl'.st # "new", pl'.st = "up" => pl.st = "up",
           \A j \in Runs : run[j].begun => run'[j].begun,
           reg' = reg \/ reg' = None \/ run'[reg'].begun,
           frame' = frame \/ frame' = None \/ frame'.inv = None \/ run'[frame'.inv].begun,
           \A r \in Runs : req'[r] = req[r] \/ req'[r].inv = None \/ run'[req'[r].inv].begun,
           \A r \in Runs : <<"req", r>> \in Held' => Asks(r)',
           \A y \in Timers : <<"timer", y>> \in Held' => tm'[y] # "off",
           \A k \in Kids : <<"child", k>> \in Held' => kid'[k].st # "none",
           \A j \in Runs \ Tools : j # x =>
                /\ run'[j].begun = run[j].begun /\ run'[j].done = run[j].done
                /\ run'[j].mem = run[j].mem /\ run'[j].timer = run[j].timer
                /\ run'[j].answers = run[j].answers
                /\ <<"gate", j>> \in Held' <=> <<"gate", j>> \in Held
                /\ <<"cmd", j>> \in Held' <=> <<"cmd", j>> \in Held
                /\ On(j)' => pl.st = "up" /\ pl'.st = "up",
           \A j \in Runs : j # x =>
                /\ On(j)' \/ Waits(j)' => On(j) \/ Waits(j)
                /\ On(j)' => run'[j].co # "parked"
                /\ StaysIdle(j)
    PROVE  LifeInv'
<1>0. /\ TypeOK /\ BegunOK /\ \A r \in Runs : RunOK(r)
  BY LifeParts
<1>1. NewOK'
  BY DEF NewOK
<1>2. ListedOK'
  BY DEF ListedOK
<1>3. BegunOK'
  BY <1>0, BegunKept
<1>4. ASSUME NEW j \in Runs \ Tools, j # x
      PROVE  /\ run'[j].begun = run[j].begun /\ run'[j].done = run[j].done
             /\ run'[j].mem = run[j].mem /\ run'[j].timer = run[j].timer
             /\ run'[j].answers = run[j].answers
             /\ StaysIdle(j)
             /\ On(j)' \/ Waits(j)' => On(j) \/ Waits(j)
             /\ On(j)' => run'[j].co # "parked" /\ pl.st = "up" /\ pl'.st = "up"
             /\ <<"gate", j>> \in Held' <=> <<"gate", j>> \in Held
             /\ <<"cmd", j>> \in Held' <=> <<"cmd", j>> \in Held
  BY <1>4
<1>5. ASSUME NEW j \in Tools
      PROVE  \/ run'[j].begun /\ pl'.st # "new" /\ (On(j)' => run'[j].co # "parked")
             \/ ~run[j].begun /\ SameLife(j) /\ StaysIdle(j) /\ ~On(j)'
  <2>1. j \in Runs /\ RunOK(j) /\ j # x
    BY <1>0, RunSets
  <2>2. CASE run'[j].begun
    BY <2>1, <2>2
  <2>3. CASE ~run'[j].begun
    <3>1. ~run[j].begun /\ SameLife(j)
      BY <2>1, <2>3
    <3>2. ~On(j) /\ ~Waits(j)
      BY <2>1, <3>1 DEF RunOK, Waits
    <3> QED BY <2>1, <3>1, <3>2
  <2> QED BY <2>2, <2>3
<1>6. (pl'.st = "new" => pl.st = "new") /\ (pl'.st = "up" => pl.st \in {"new", "up"})
  OBVIOUS
<1> QED BY <1>1, <1>2, <1>3, <1>4, <1>5, <1>6, LifeStep

LEMMA InvokeFailsLife ==
    ASSUME LifeInv, NEW t \in Tools, lua_tool_invoke_fails(t)
    PROVE  LifeInv'
<1>0. /\ TypeOK /\ Unique /\ NewOK /\ ListedOK /\ BegunOK
      /\ pl \in PlRec /\ run \in [Runs -> RunRec] /\ req \in [Runs -> ReqRec]
      /\ \A r \in Runs : RunOK(r)
  BY LifeParts
<1>1. t \in Runs /\ pl.tool # "none" /\ UNCHANGED <<reg, pend, req, canc, tm, kid, frame, stale>>
  BY RunSets DEF lua_tool_invoke_fails
<1>2. PICK panic \in BOOLEAN : pl' = [pl EXCEPT !.total = 0, !.dead = @ \/ panic]
  BY DEF lua_tool_invoke_fails
<1>3. pl' \in PlRec /\ pl'.st = pl.st /\ pl.st # "new"
  BY <1>0, <1>1, <1>2 DEF PlRec, NewOK
<1> DEFINE rn == [run EXCEPT ![t].begun = TRUE]
<1>4. run[t] \in RunRec /\ [run[t] EXCEPT !.begun = TRUE] \in RunRec
      /\ [run[t] EXCEPT !.begun = TRUE].begun = TRUE
      /\ [run[t] EXCEPT !.begun = TRUE].co = run[t].co
  BY <1>0, <1>1 DEF RunRec
<1>5. rn \in [Runs -> RunRec] /\ rn[t].begun /\ rn[t].co = run[t].co /\ \A j \in Runs : j # t => rn[j] = run[j]
  BY <1>0, <1>1, <1>4
<1>6. run' = Told(rn, t)
  BY DEF lua_tool_invoke_fails
<1> HIDE DEF rn
<1>7. /\ run' \in [Runs -> RunRec]
      /\ \A j \in Runs :
            /\ run'[j].begun = rn[j].begun /\ run'[j].done = rn[j].done
            /\ run'[j].mem = rn[j].mem /\ run'[j].timer = rn[j].timer
            /\ run'[j].answers = IF j = t THEN 1 ELSE rn[j].answers
            /\ run'[j].co = rn[j].co
  BY <1>5, <1>6, ToldFacts
<1>8. pend' \in Seq(Entry) /\ Unique' /\ Held' = Held
  BY <1>0, <1>1, SameList
<1>9. TypeOK'
  BY <1>0, <1>1, <1>3, <1>7, <1>8 DEF TypeOK
<1>10. \A j \in Runs : /\ On(j)' <=> On(j)
                       /\ run'[j].co = run[j].co
                       /\ (Waits(j)' <=> Waits(j)) /\ (Asks(j)' <=> Asks(j)) /\ StaysIdle(j)
  BY <1>1, <1>5, <1>7 DEF On, Waits, Asks, StaysIdle
<1>11. \A j \in Runs : j # t => run'[j] = run[j]
  BY <1>1, <1>5, <1>6, RunSets DEF Told
<1>12. run'[t].begun /\ \A j \in Runs : run[j].begun => run'[j].begun
  BY <1>1, <1>5, <1>7, <1>11
<1>13. \A j \in Tools : ~run'[j].begun => SameLife(j)
  BY <1>11, <1>12, RunSets DEF SameLife
<1>14. /\ \A r \in Runs : <<"req", r>> \in Held' => Asks(r)'
       /\ \A y \in Timers : <<"timer", y>> \in Held' => tm'[y] # "off"
       /\ \A k \in Kids : <<"child", k>> \in Held' => kid'[k].st # "none"
  BY <1>0, <1>1, <1>8, <1>10 DEF ListedOK
<1>15. ASSUME NEW j \in Runs \ Tools
       PROVE  /\ run'[j].begun = run[j].begun /\ run'[j].done = run[j].done
              /\ run'[j].mem = run[j].mem /\ run'[j].timer = run[j].timer
              /\ run'[j].answers = run[j].answers
              /\ <<"gate", j>> \in Held' <=> <<"gate", j>> \in Held
              /\ <<"cmd", j>> \in Held' <=> <<"cmd", j>> \in Held
              /\ On(j)' => pl.st = "up" /\ pl'.st = "up"
  <2>1. j # t /\ RunOK(j)
    BY <1>0
  <2> QED BY <1>3, <1>8, <1>10, <1>11, <2>1 DEF RunOK
<1>16. \A j \in Runs : /\ On(j)' \/ Waits(j)' => On(j) \/ Waits(j)
                       /\ On(j)' => run'[j].co # "parked"
                       /\ StaysIdle(j)
  BY <1>0, <1>10 DEF RunOK
<1>17. \A r \in Runs : req'[r] = req[r]
  BY <1>1
<1>18. None \notin Tools /\ None \notin Runs
  BY RunSets
<1>19. pl'.st # "new" /\ (pl'.st = "up" => pl.st = "up")
  BY <1>3
<1> QED BY <1>1, <1>3, <1>8, <1>9, <1>12, <1>13, <1>14, <1>15, <1>16, <1>17, <1>18, <1>19, RunStep

LEMMA HookLife ==
    ASSUME LifeInv, NEW g \in Gates, lua_pre_tool_hook(g)
    PROVE  LifeInv'
<1>0. /\ TypeOK /\ Unique /\ NewOK /\ ListedOK /\ BegunOK
      /\ pl \in PlRec /\ run \in [Runs -> RunRec] /\ req \in [Runs -> ReqRec]
      /\ \A r \in Runs : RunOK(r)
  BY LifeParts
<1>1. /\ g \in Runs /\ g \notin Tools /\ g \notin Cmds /\ g # None /\ frame = None /\ pl.st = "up"
      /\ UNCHANGED <<pl, req, canc, tm, kid, stale>> /\ ~run[g].begun
  BY RunSets DEF lua_pre_tool_hook, Loop
<1>2. /\ run[g] \in RunRec /\ RunOK(g) /\ run[g].mem = "none" /\ run[g].timer = "off" /\ ~run[g].done
      /\ run[g].answers = 0 /\ run[g].co = "none" /\ ~Asks(g) /\ ~On(g) /\ <<"gate", g>> \notin Held
  BY <1>0, <1>1 DEF RunOK
<1>3. /\ pend' \in Seq(Entry) /\ Unique' /\ run' \in [Runs -> RunRec] /\ run'[g].begun
      /\ \A j \in Runs : j # g => run'[j] = run[j]
      /\ Held' \subseteq Held \cup {<<"gate", g>>} /\ Held \subseteq Held'
      /\ RunOK(g)' /\ reg' \in Runs \cup {None} /\ frame' \in Frames \cup {None}
      /\ frame' # None => FrameOK(frame') /\ frame'.run = g /\ frame'.inv = None
      /\ reg' = reg \/ run'[reg'].begun
      /\ run'[g].co # "parked"
  <2>1. CASE pl.dead
    <3>1. run' = [run EXCEPT ![g] = [run[g] EXCEPT !.begun = TRUE, !.answers = 1]]
          /\ UNCHANGED <<reg, pend, frame>>
      BY <2>1 DEF lua_pre_tool_hook
    <3>2. pend' \in Seq(Entry) /\ Unique' /\ Held' = Held
      BY <1>0, <3>1, SameList
    <3> DEFINE u == [run[g] EXCEPT !.begun = TRUE, !.answers = 1]
    <3>3. u \in RunRec /\ u.begun = TRUE /\ u.answers = 1 /\ u.co = "none" /\ u.mem = "none" /\ u.timer = "off" /\ u.done = run[g].done
      BY <1>2 DEF RunRec
    <3> HIDE DEF u
    <3>4. run' \in [Runs -> RunRec] /\ run'[g] = u /\ \A j \in Runs : j # g => run'[j] = run[j]
      BY <1>0, <1>1, <3>1, <3>3 DEF u
    <3>5. RunOK(g)'
      BY <1>1, <1>2, <3>1, <3>2, <3>3, <3>4 DEF RunOK, On, Waits, Asks
    <3> QED BY <1>0, <1>1, <3>1, <3>2, <3>3, <3>4, <3>5 DEF TypeOK
  <2>2. CASE ~pl.dead
    <3> DEFINE rn == [run EXCEPT ![g].mem = "live"]
               u == [run[g] EXCEPT !.mem = "live"]
    <3>1. pend' = Append(pend, <<"gate", g>>) /\ Enter("hook", g, rn)
      BY <2>2 DEF lua_pre_tool_hook
    <3>2. pend' \in Seq(Entry) /\ Unique' /\ Held' = Held \cup {<<"gate", g>>}
      <4>1. <<"gate", g>> \in Entry
        BY DEF Entry
      <4> QED BY <1>0, <1>2, <3>1, <4>1, Added
    <3>3. u \in RunRec /\ u.begun = run[g].begun /\ u.answers = 0 /\ u.mem = "live" /\ u.timer = "off"
          /\ u.done = run[g].done
      BY <1>2 DEF RunRec
    <3>4. rn = [run EXCEPT ![g] = u]
      OBVIOUS
    <3> HIDE DEF u, rn
    <3>5. rn \in [Runs -> RunRec] /\ rn[g] = u /\ \A j \in Runs : j # g => rn[j] = run[j]
      BY <1>0, <1>1, <3>3, <3>4
    <3>6. /\ run' \in [Runs -> RunRec] /\ run'[g].begun
          /\ run'[g].done = u.done /\ run'[g].mem = "live" /\ run'[g].timer = "off"
          /\ run'[g].answers = 0 /\ run'[g].co = "running"
          /\ \A j \in Runs : j # g => run'[j] = run[j]
          /\ reg' = g
          /\ frame' \in Frames /\ FrameOK(frame') /\ frame' # None
          /\ frame'.run = g /\ frame'.inv = None
      BY <1>1, <3>1, <3>3, <3>5, EnterFacts
    <3>7. RunOK(g)'
      BY <1>1, <1>2, <3>2, <3>3, <3>6 DEF RunOK, On, Waits, Asks
    <3> QED BY <1>1, <3>2, <3>6, <3>7
  <2> QED BY <2>1, <2>2
<1>4. TypeOK'
  BY <1>0, <1>1, <1>3 DEF TypeOK
<1>5. \A j \in Runs : /\ Asks(j)' <=> Asks(j)
                      /\ On(j)' => j = g
                      /\ j # g => (Waits(j)' <=> Waits(j)) /\ StaysIdle(j)
  BY <1>1, <1>3 DEF Waits, Asks, On, StaysIdle
<1>6. \A r : /\ <<"req", r>> \in Held' <=> <<"req", r>> \in Held
             /\ <<"timer", r>> \in Held' <=> <<"timer", r>> \in Held
             /\ <<"child", r>> \in Held' <=> <<"child", r>> \in Held
             /\ <<"cmd", r>> \in Held' <=> <<"cmd", r>> \in Held
             /\ r # g => (<<"gate", r>> \in Held' <=> <<"gate", r>> \in Held)
  BY <1>3
<1>7. /\ \A r \in Runs : <<"req", r>> \in Held' => Asks(r)'
      /\ \A y \in Timers : <<"timer", y>> \in Held' => tm'[y] # "off"
      /\ \A k \in Kids : <<"child", k>> \in Held' => kid'[k].st # "none"
  BY <1>0, <1>1, <1>5, <1>6 DEF ListedOK
<1>8. \A j \in Runs \ Tools : j # g =>
                /\ run'[j].begun = run[j].begun /\ run'[j].done = run[j].done
                /\ run'[j].mem = run[j].mem /\ run'[j].timer = run[j].timer
                /\ run'[j].answers = run[j].answers
                /\ <<"gate", j>> \in Held' <=> <<"gate", j>> \in Held
                /\ <<"cmd", j>> \in Held' <=> <<"cmd", j>> \in Held
                /\ On(j)' => pl.st = "up" /\ pl'.st = "up"
  BY <1>3, <1>5, <1>6
<1>9. \A j \in Runs : j # g => /\ On(j)' \/ Waits(j)' => On(j) \/ Waits(j)
                               /\ On(j)' => run'[j].co # "parked"
                               /\ StaysIdle(j)
  BY <1>5
<1>10. \A j \in Runs : run[j].begun => run'[j].begun
  BY <1>3
<1>11. \A t \in Tools : ~run'[t].begun => SameLife(t)
  BY <1>1, <1>3, RunSets DEF SameLife
<1>12. \A r \in Runs : req'[r] = req[r]
  BY <1>1
<1>13. frame' = None \/ frame'.inv = None
  BY <1>3
<1>14. pl.st # "new" /\ pl'.st # "new" /\ (pl'.st = "up" => pl.st = "up")
  BY <1>1
<1> QED BY <1>1, <1>3, <1>4, <1>7, <1>8, <1>9, <1>10, <1>11, <1>12, <1>13, <1>14, RunStep

LEMMA CommandLife ==
    ASSUME LifeInv, NEW c \in Cmds, clm_lua_hook_command_run(c)
    PROVE  LifeInv'
<1>0. /\ TypeOK /\ Unique /\ NewOK /\ ListedOK /\ BegunOK
      /\ pl \in PlRec /\ run \in [Runs -> RunRec] /\ req \in [Runs -> ReqRec]
      /\ \A r \in Runs : RunOK(r)
  BY LifeParts
<1>1. /\ c \in Runs /\ c \notin Tools /\ c \notin Gates /\ c # None /\ frame = None /\ pl.st = "up"
      /\ UNCHANGED <<pl, req, canc, tm, kid, stale>> /\ ~run[c].begun
  BY RunSets DEF clm_lua_hook_command_run, Loop
<1>2. /\ run[c] \in RunRec /\ RunOK(c) /\ ~run[c].done
      /\ run[c].answers = 0 /\ ~Asks(c) /\ ~On(c) /\ <<"cmd", c>> \notin Held
  BY <1>0, <1>1 DEF RunOK
<1> DEFINE rn == [run EXCEPT ![c].mem = "live", ![c].timer = "wall"]
           u == [run[c] EXCEPT !.mem = "live", !.timer = "wall"]
<1>3. pend' = Append(pend, <<"cmd", c>>) /\ Enter("command", c, rn)
  BY DEF clm_lua_hook_command_run
<1>4. pend' \in Seq(Entry) /\ Unique' /\ Held' = Held \cup {<<"cmd", c>>}
  <2>1. <<"cmd", c>> \in Entry
    BY DEF Entry
  <2> QED BY <1>0, <1>2, <1>3, <2>1, Added
<1>5. u \in RunRec /\ u.begun = run[c].begun /\ u.answers = 0 /\ u.mem = "live" /\ u.timer = "wall"
      /\ u.done = run[c].done
  BY <1>2 DEF RunRec
<1>6. rn = [run EXCEPT ![c] = u]
  OBVIOUS
<1> HIDE DEF u, rn
<1>7. rn \in [Runs -> RunRec] /\ rn[c] = u /\ \A j \in Runs : j # c => rn[j] = run[j]
  BY <1>0, <1>1, <1>5, <1>6
<1>8. /\ run' \in [Runs -> RunRec] /\ run'[c].begun
      /\ run'[c].done = u.done /\ run'[c].mem = "live" /\ run'[c].timer = "wall"
      /\ run'[c].answers = 0 /\ run'[c].co = "running"
      /\ \A j \in Runs : j # c => run'[j] = run[j]
      /\ reg' = c
      /\ frame' \in Frames /\ FrameOK(frame') /\ frame' # None
      /\ frame'.run = c /\ frame'.inv = None
  BY <1>1, <1>3, <1>5, <1>7, EnterFacts
<1>9. RunOK(c)'
  BY <1>1, <1>2, <1>4, <1>5, <1>8 DEF RunOK, On, Waits, Asks
<1>10. TypeOK'
  BY <1>0, <1>1, <1>4, <1>8 DEF TypeOK
<1>11. \A j \in Runs : /\ Asks(j)' <=> Asks(j)
                       /\ On(j)' => j = c
                       /\ j # c => (Waits(j)' <=> Waits(j)) /\ StaysIdle(j)
  BY <1>1, <1>8 DEF Waits, Asks, On, StaysIdle
<1>12. \A r : /\ <<"req", r>> \in Held' <=> <<"req", r>> \in Held
              /\ <<"timer", r>> \in Held' <=> <<"timer", r>> \in Held
              /\ <<"child", r>> \in Held' <=> <<"child", r>> \in Held
              /\ <<"gate", r>> \in Held' <=> <<"gate", r>> \in Held
              /\ r # c => (<<"cmd", r>> \in Held' <=> <<"cmd", r>> \in Held)
  BY <1>4
<1>13. /\ \A r \in Runs : <<"req", r>> \in Held' => Asks(r)'
       /\ \A y \in Timers : <<"timer", y>> \in Held' => tm'[y] # "off"
       /\ \A k \in Kids : <<"child", k>> \in Held' => kid'[k].st # "none"
  BY <1>0, <1>1, <1>11, <1>12 DEF ListedOK
<1>14. \A j \in Runs \ Tools : j # c =>
                /\ run'[j].begun = run[j].begun /\ run'[j].done = run[j].done
                /\ run'[j].mem = run[j].mem /\ run'[j].timer = run[j].timer
                /\ run'[j].answers = run[j].answers
                /\ <<"gate", j>> \in Held' <=> <<"gate", j>> \in Held
                /\ <<"cmd", j>> \in Held' <=> <<"cmd", j>> \in Held
                /\ On(j)' => pl.st = "up" /\ pl'.st = "up"
  BY <1>8, <1>11, <1>12
<1>15. \A j \in Runs : j # c => /\ On(j)' \/ Waits(j)' => On(j) \/ Waits(j)
                                /\ On(j)' => run'[j].co # "parked"
                                /\ StaysIdle(j)
  BY <1>11
<1>16. \A j \in Runs : run[j].begun => run'[j].begun
  BY <1>8
<1>17. \A t \in Tools : ~run'[t].begun => SameLife(t)
  BY <1>1, <1>8, RunSets DEF SameLife
<1>18. \A r \in Runs : req'[r] = req[r]
  BY <1>1
<1>19. (frame' = None \/ frame'.inv = None) /\ run'[reg'].begun
  BY <1>8
<1>20. pl.st # "new" /\ pl'.st # "new" /\ (pl'.st = "up" => pl.st = "up")
  BY <1>1
<1> QED BY <1>1, <1>4, <1>9, <1>10, <1>13, <1>14, <1>15, <1>16, <1>17, <1>18, <1>19, <1>20, RunStep

-----------------------------------------------------------------------------
(* What the plugin's code does under a frame of its own keeps LifeInv.     *)

LEMMA SlotsFacts ==
    ASSUME NEW p \in PlRec
    PROVE  Slots(p) \in PlRec /\ Slots(p).st = p.st /\ Slots(p).dead = p.dead
<1>1. CASE frame.by = "http" /\ p.inflight > 0
  <2>1. p.inflight - 1 \in Nat /\ Slots(p) = [p EXCEPT !.inflight = p.inflight - 1]
    BY <1>1 DEF Slots, clm_lua_http_done, PlRec
  <2> QED BY <2>1 DEF PlRec
<1>2. CASE ~(frame.by = "http" /\ p.inflight > 0)
  <2>1. Slots(p) = p
    BY <1>2 DEF Slots, clm_lua_http_done
  <2> QED BY <2>1
<1> QED BY <1>1, <1>2

LEMMA RegInvFacts ==
    ASSUME LifeInv
    PROVE  /\ RegInv \in Tools \cup {None} /\ (RegInv # None => RegInv = reg)
           /\ RegInv = None \/ run[RegInv].begun
<1>1. CASE reg \in Tools
  BY <1>1, RunSets DEF RegInv, LifeInv, BegunOK
<1>2. CASE reg \notin Tools
  BY <1>2 DEF RegInv
<1> QED BY <1>1, <1>2

LEMMA CompleteLife ==
    ASSUME LifeInv, NEW t \in Tools, lua_ctx_complete(t)
    PROVE  LifeInv'
<1>0. /\ TypeOK /\ Unique /\ NewOK /\ ListedOK /\ BegunOK
      /\ pl \in PlRec /\ run \in [Runs -> RunRec] /\ req \in [Runs -> ReqRec]
      /\ \A r \in Runs : RunOK(r)
  BY LifeParts
<1> DEFINE rn == Told(run, t)
<1>1. /\ t \in Runs /\ frame # None /\ t # None /\ run[t].co # "none"
      /\ UNCHANGED <<pl, reg, pend, req, canc, tm, kid, frame>>
      /\ run' = [rn EXCEPT ![t].done = TRUE] /\ stale' = (stale \/ Late(t))
  BY RunSets DEF lua_ctx_complete, UsesCtx
<1>2. pl.st # "new"
  BY <1>1, FrameOpen
<1>3. rn \in [Runs -> RunRec] /\ rn[t] \in RunRec
      /\ rn[t].begun = run[t].begun /\ rn[t].co = run[t].co /\ \A j \in Runs : j # t => rn[j] = run[j]
  BY <1>0, <1>1, ToldFacts DEF Told
<1> HIDE DEF rn
<1>4. [rn[t] EXCEPT !.done = TRUE] \in RunRec /\ [rn[t] EXCEPT !.done = TRUE].begun = rn[t].begun
      /\ [rn[t] EXCEPT !.done = TRUE].co = rn[t].co
  BY <1>3 DEF RunRec
<1>5. /\ run' \in [Runs -> RunRec] /\ run'[t] = [rn[t] EXCEPT !.done = TRUE]
      /\ \A j \in Runs : j # t => run'[j] = run[j]
  BY <1>1, <1>3, <1>4
<1>6. \A j \in Runs : run'[j].begun = run[j].begun /\ run'[j].co = run[j].co
  BY <1>3, <1>4, <1>5
<1>7. run[t].begun
  <2>1. RunOK(t)
    BY <1>0, <1>1
  <2> QED BY <1>1, <2>1 DEF RunOK
<1>8. pend' \in Seq(Entry) /\ Unique' /\ Held' = Held
  BY <1>0, <1>1, SameList
<1>9. stale' \in BOOLEAN
  BY <1>0, <1>1 DEF TypeOK, Late
<1>10. TypeOK'
  BY <1>0, <1>1, <1>5, <1>8, <1>9 DEF TypeOK
<1>11. \A j \in Runs : /\ On(j)' <=> On(j)
                       /\ (Waits(j)' <=> Waits(j)) /\ (Asks(j)' <=> Asks(j)) /\ StaysIdle(j)
  BY <1>1, <1>6 DEF On, Waits, Asks, StaysIdle
<1>12. \A j \in Runs : /\ On(j)' \/ Waits(j)' => On(j) \/ Waits(j)
                       /\ On(j)' => run'[j].co # "parked"
                       /\ StaysIdle(j)
  BY <1>0, <1>6, <1>11 DEF RunOK
<1>13. /\ \A r \in Runs : <<"req", r>> \in Held' => Asks(r)'
       /\ \A y \in Timers : <<"timer", y>> \in Held' => tm'[y] # "off"
       /\ \A k \in Kids : <<"child", k>> \in Held' => kid'[k].st # "none"
  BY <1>0, <1>1, <1>8, <1>11 DEF ListedOK
<1>14. ASSUME NEW j \in Runs \ Tools
       PROVE  /\ run'[j].begun = run[j].begun /\ run'[j].done = run[j].done
              /\ run'[j].mem = run[j].mem /\ run'[j].timer = run[j].timer
              /\ run'[j].answers = run[j].answers
              /\ <<"gate", j>> \in Held' <=> <<"gate", j>> \in Held
              /\ <<"cmd", j>> \in Held' <=> <<"cmd", j>> \in Held
              /\ On(j)' => pl.st = "up" /\ pl'.st = "up"
  <2>1. j # t /\ RunOK(j)
    BY <1>0, <1>1
  <2> QED BY <1>1, <1>5, <1>8, <1>11, <2>1 DEF RunOK
<1>15. \A j \in Tools : ~run'[j].begun => SameLife(j)
  BY <1>5, <1>6, <1>7, RunSets DEF SameLife
<1>16. \A r \in Runs : req'[r] = req[r]
  BY <1>1
<1>17. None \notin Tools /\ None \notin Runs
  BY RunSets
<1>18. pl'.st # "new" /\ (pl'.st = "up" => pl.st = "up")
  BY <1>1, <1>2
<1>19. \A j \in Runs : run[j].begun => run'[j].begun
  BY <1>6
<1> QED BY <1>1, <1>2, <1>8, <1>10, <1>12, <1>13, <1>14, <1>15, <1>16, <1>17, <1>18, <1>19, RunStep

LEMMA ArgsLife ==
    ASSUME LifeInv, NEW t \in Tools, lua_ctx_args_raw(t)
    PROVE  LifeInv'
<1>0. TypeOK /\ Unique /\ NewOK /\ ListedOK
  BY LifeParts
<1>1. UNCHANGED <<pl, reg, pend, run, req, canc, tm, kid, frame>>
  BY DEF lua_ctx_args_raw
<1>2. stale' \in BOOLEAN
  BY <1>0 DEF lua_ctx_args_raw, TypeOK, Late
<1>3. pend' \in Seq(Entry) /\ Unique' /\ Held' = Held
  BY <1>0, <1>1, SameList
<1>4. TypeOK' /\ NewOK'
  BY <1>0, <1>1, <1>2, <1>3 DEF TypeOK, NewOK
<1>5. /\ \A x \in Timers : <<"timer", x>> \in Held' => tm'[x] # "off"
      /\ \A k \in Kids : <<"child", k>> \in Held' => kid'[k].st # "none"
  BY <1>0, <1>1, <1>3 DEF ListedOK
<1>6. \A r \in Runs :
                /\ <<"req", r>> \in Held' => <<"req", r>> \in Held
                /\ <<"gate", r>> \in Held' <=> <<"gate", r>> \in Held
                /\ <<"cmd", r>> \in Held' <=> <<"cmd", r>> \in Held
  BY <1>3
<1>7. (pl'.st = "new" => pl.st = "new") /\ (pl'.st = "up" => pl.st \in {"new", "up"})
  BY <1>1
<1> QED BY <1>1, <1>3, <1>4, <1>5, <1>6, <1>7, QuietStep

\* What a coroutine that starts to wait leaves, or one whose yield raises.
LEMMA YieldFacts ==
    ASSUME LifeInv, frame # None, NEW r \in Runs, r = frame.run, NEW k \in {"http", "sleep", "exec"},
           NEW p \in PlRec, p.st = pl.st, Yields(k, p), ~Asks(r)
    PROVE  /\ On(r) /\ run[r].begun /\ pl.st # "new"
           /\ req' \in [Runs -> ReqRec] /\ req'[r] = [kind |-> k, inv |-> RegInv, ref |-> reg]
           /\ Asks(r)' /\ \A j \in Runs : j # r => req'[j] = req[j]
           /\ canc' \in [Tools -> Runs \cup {None}]
           /\ run' \in [Runs -> RunRec]
           /\ \/ frame' = None /\ run'[r].co = "parked"
              \/ "yields_in_c" \in Quirks /\ frame' = frame /\ run'[r].co = run[r].co
           /\ \A j \in Runs : /\ j # r => run'[j] = run[j]
                              /\ run'[j].begun = run[j].begun /\ run'[j].done = run[j].done
                              /\ run'[j].mem = run[j].mem /\ run'[j].timer = run[j].timer
                              /\ run'[j].answers = run[j].answers /\ run'[j].rooted = run[j].rooted
           /\ pl' \in PlRec /\ pl'.st = pl.st /\ pl'.dead = p.dead
           /\ stale' \in BOOLEAN
<1> DEFINE q == [kind |-> k, inv |-> RegInv, ref |-> reg]
           u == [run[r] EXCEPT !.co = "parked"]
<1>0. TypeOK /\ run \in [Runs -> RunRec] /\ req \in [Runs -> ReqRec] /\ \A j \in Runs : RunOK(j)
  BY LifeParts
<1>1. On(r) /\ r \in Runs
  BY DEF On
<1>2. run[r].begun
  BY <1>0, <1>1 DEF RunOK
<1>3. pl.st # "new"
  BY FrameOpen
<1>4. q \in ReqRec /\ q.kind # "none"
  <2>1. RegInv \in Tools \cup {None} /\ reg \in Runs \cup {None}
    BY <1>0, RegInvFacts DEF TypeOK
  <2> QED BY <2>1 DEF ReqRec
<1>5. req' = [req EXCEPT ![r] = q]
  BY DEF Yields
<1>6. u \in RunRec /\ u.begun = run[r].begun /\ u.done = run[r].done /\ u.mem = run[r].mem
      /\ u.timer = run[r].timer /\ u.answers = run[r].answers /\ u.rooted = run[r].rooted /\ u.co = "parked"
  <2>1. run[r] \in RunRec
    BY <1>0, <1>1
  <2> QED BY <2>1 DEF RunRec
<1>7. \/ frame' = None /\ run' = [run EXCEPT ![r] = u]
      \/ "yields_in_c" \in Quirks /\ frame' = frame /\ run' = run
  BY DEF Yields
<1>8. canc' \in [Tools -> Runs \cup {None}]
  <2>1. canc \in [Tools -> Runs \cup {None}]
    BY <1>0 DEF TypeOK
  <2>2. CASE RegInv = None
    BY <2>1, <2>2 DEF Yields
  <2>3. CASE RegInv # None
    <3>1. RegInv \in Tools /\ canc' = [canc EXCEPT ![RegInv] = r]
      BY <2>3, RegInvFacts DEF Yields
    <3> QED BY <1>1, <2>1, <3>1
  <2> QED BY <2>2, <2>3
<1>9. pl' \in PlRec /\ pl'.st = pl.st /\ pl'.dead = p.dead
  BY SlotsFacts DEF Yields
<1>10. stale' \in BOOLEAN
  BY <1>0 DEF Yields, TypeOK, Late
<1> HIDE DEF q, u
<1>11. req' \in [Runs -> ReqRec] /\ req'[r] = q /\ \A j \in Runs : j # r => req'[j] = req[j]
  BY <1>0, <1>1, <1>4, <1>5
<1>12. /\ run' \in [Runs -> RunRec] /\ \A j \in Runs : j # r => run'[j] = run[j]
       /\ \/ frame' = None /\ run'[r] = u
          \/ "yields_in_c" \in Quirks /\ frame' = frame /\ run'[r] = run[r]
  BY <1>0, <1>1, <1>6, <1>7
<1>13. Asks(r)'
  BY <1>4, <1>11 DEF Asks
<1>14. \A j \in Runs : /\ j # r => run'[j] = run[j]
                       /\ run'[j].begun = run[j].begun /\ run'[j].done = run[j].done
                       /\ run'[j].mem = run[j].mem /\ run'[j].timer = run[j].timer
                       /\ run'[j].answers = run[j].answers /\ run'[j].rooted = run[j].rooted
  BY <1>6, <1>12
<1> QED BY <1>1, <1>2, <1>3, <1>6, <1>8, <1>9, <1>10, <1>11, <1>12, <1>13, <1>14 DEF q

LEMMA YieldLife ==
    ASSUME LifeInv, frame # None, frame.run \in Runs, NEW k \in {"http", "sleep", "exec"},
           NEW p \in PlRec, p.st = pl.st, Yields(k, p), ~Asks(frame.run), UNCHANGED <<reg, tm, kid>>,
           pend' = pend \/ pend' = Append(pend, <<"req", frame.run>>)
    PROVE  LifeInv'
<1>0. /\ TypeOK /\ Unique /\ NewOK /\ ListedOK /\ BegunOK /\ \A r \in Runs : RunOK(r)
  BY LifeParts
<1>a. PICK r \in Runs : r = frame.run
  OBVIOUS
<1>1. /\ On(r) /\ ~Asks(r) /\ run[r].begun /\ pl.st # "new"
      /\ req' \in [Runs -> ReqRec] /\ req'[r] = [kind |-> k, inv |-> RegInv, ref |-> reg]
      /\ Asks(r)' /\ \A j \in Runs : j # r => req'[j] = req[j]
      /\ canc' \in [Tools -> Runs \cup {None}]
      /\ run' \in [Runs -> RunRec]
      /\ frame' = None \/ (frame' = frame /\ run'[r].co = run[r].co)
      /\ \A j \in Runs : /\ j # r => run'[j] = run[j]
                         /\ run'[j].begun = run[j].begun /\ run'[j].done = run[j].done
                         /\ run'[j].mem = run[j].mem /\ run'[j].timer = run[j].timer
                         /\ run'[j].answers = run[j].answers
      /\ pl' \in PlRec /\ pl'.st = pl.st
      /\ stale' \in BOOLEAN
  BY <1>a, YieldFacts
<1>2. /\ pend' \in Seq(Entry) /\ Unique'
      /\ Held' = Held \/ Held' = Held \cup {<<"req", r>>}
  <2>1. CASE pend' = pend
    BY <1>0, <2>1, SameList
  <2>2. CASE pend' = Append(pend, <<"req", frame.run>>)
    <3>1. <<"req", r>> \in Entry /\ <<"req", r>> \notin Held
      BY <1>0, <1>1 DEF Entry, ListedOK
    <3> QED BY <1>0, <1>a, <2>2, <3>1, Added
  <2> QED BY <2>1, <2>2
<1>3. TypeOK'
  BY <1>0, <1>1, <1>2 DEF TypeOK
<1>4. \A j \in Runs : /\ On(j)' => On(j) /\ run'[j].co = run[j].co
                      /\ j # r => /\ run'[j] = run[j]
                                  /\ (Asks(j)' <=> Asks(j)) /\ (Waits(j)' <=> Waits(j))
                      /\ StaysIdle(j)
  BY <1>1 DEF On, Waits, Asks, StaysIdle
<1>5. \A j : /\ j # r => (<<"req", j>> \in Held' <=> <<"req", j>> \in Held)
             /\ <<"timer", j>> \in Held' <=> <<"timer", j>> \in Held
             /\ <<"child", j>> \in Held' <=> <<"child", j>> \in Held
             /\ <<"gate", j>> \in Held' <=> <<"gate", j>> \in Held
             /\ <<"cmd", j>> \in Held' <=> <<"cmd", j>> \in Held
  BY <1>2
<1>6. /\ \A j \in Runs : <<"req", j>> \in Held' => Asks(j)'
      /\ \A y \in Timers : <<"timer", y>> \in Held' => tm'[y] # "off"
      /\ \A j \in Kids : <<"child", j>> \in Held' => kid'[j].st # "none"
  BY <1>0, <1>1, <1>4, <1>5 DEF ListedOK
<1>7. \A j \in Runs \ Tools :
              /\ run'[j].begun = run[j].begun /\ run'[j].done = run[j].done
              /\ run'[j].mem = run[j].mem /\ run'[j].timer = run[j].timer
              /\ run'[j].answers = run[j].answers
              /\ <<"gate", j>> \in Held' <=> <<"gate", j>> \in Held
              /\ <<"cmd", j>> \in Held' <=> <<"cmd", j>> \in Held
              /\ On(j)' => pl.st = "up" /\ pl'.st = "up"
  BY <1>0, <1>1, <1>4, <1>5 DEF RunOK
<1>8. \A j \in Runs : /\ On(j)' \/ Waits(j)' => On(j) \/ Waits(j)
                      /\ On(j)' => run'[j].co # "parked"
                      /\ StaysIdle(j)
  <2> SUFFICES ASSUME NEW j \in Runs
               PROVE  /\ On(j)' \/ Waits(j)' => On(j) \/ Waits(j)
                      /\ On(j)' => run'[j].co # "parked"
                      /\ StaysIdle(j)
    OBVIOUS
  <2>1. On(j) => run[j].co # "parked"
    BY <1>0 DEF RunOK
  <2>2. (On(j)' => On(j) /\ run'[j].co = run[j].co) /\ StaysIdle(j)
    BY <1>4
  <2>3. Waits(j)' => On(j) \/ Waits(j)
    BY <1>1, <1>4
  <2> QED BY <2>1, <2>2, <2>3
<1>9. \A j \in Tools : ~run'[j].begun => SameLife(j)
  BY <1>1, RunSets DEF SameLife
<1>10. \A j \in Runs : req'[j] = req[j] \/ req'[j].inv = None \/ run'[req'[j].inv].begun
  <2>1. req'[r].inv = None \/ run'[req'[r].inv].begun
    <3>1. req'[r].inv = RegInv
      BY <1>1
    <3>2. RegInv = None \/ (RegInv \in Runs /\ run[RegInv].begun)
      BY RegInvFacts, RunSets
    <3> QED BY <1>1, <3>1, <3>2
  <2> QED BY <1>1, <2>1
<1>11. \A j \in Runs : run[j].begun => run'[j].begun
  BY <1>1
<1>12. pl'.st # "new" /\ (pl'.st = "up" => pl.st = "up")
  BY <1>1
<1>13. None \notin Tools /\ None \notin Runs
  BY RunSets
<1> QED BY <1>1, <1>2, <1>3, <1>6, <1>7, <1>8, <1>9, <1>10, <1>11, <1>12, <1>13, RunStep

LEMMA WaitsLife ==
    ASSUME LifeInv, lua_ctx_http_get \/ lua_ctx_http_post \/ lua_clm_sleep \/ lua_clm_exec
    PROVE  LifeInv'
<1>0. pl \in PlRec /\ frame # None /\ frame.run \in Runs /\ ~Asks(frame.run)
  BY LifeParts DEF lua_ctx_http_get, lua_ctx_http_post, lua_clm_sleep, lua_clm_exec, MayYield, Asks
<1>1. pl.st # "new"
  BY <1>0, FrameOpen
<1>2. CASE lua_ctx_http_get
  <2> DEFINE p == [pl EXCEPT !.inflight = @ + 1, !.total = @ + 1, !.calls = @ + 1]
  <2>1. p \in PlRec /\ p.st = pl.st
    <3>1. pl.inflight + 1 \in Nat /\ pl.total + 1 \in Nat /\ pl.calls + 1 \in Nat
      BY <1>0 DEF PlRec
    <3> QED BY <1>0, <3>1 DEF PlRec
  <2>2. UNCHANGED <<reg, tm, kid>>
    BY <1>2 DEF lua_ctx_http_get
  <2>3. \/ Yields("http", p) /\ pend' = Append(pend, <<"req", frame.run>>)
        \/ /\ pl' = IF pl.st = "up" THEN [p EXCEPT !.inflight = pl.inflight] ELSE p
           /\ UNCHANGED <<pend, run, req, canc, frame, stale>>
        \/ /\ pl' = [p EXCEPT !.leaked = @ + 1]
           /\ UNCHANGED <<pend, run, req, canc, frame, stale>>
    BY <1>2 DEF lua_ctx_http_get
  <2> HIDE DEF p
  <2>4. CASE Yields("http", p) /\ pend' = Append(pend, <<"req", frame.run>>)
    BY <1>0, <2>1, <2>2, <2>4, YieldLife
  <2>5. CASE /\ pl' = IF pl.st = "up" THEN [p EXCEPT !.inflight = pl.inflight] ELSE p
             /\ UNCHANGED <<pend, run, req, canc, frame, stale>>
    <3>1. pl.inflight \in Nat
      BY <1>0 DEF PlRec
    <3>2. pl' \in PlRec /\ pl'.st = pl.st
      <4>1. [p EXCEPT !.inflight = pl.inflight] \in PlRec /\ [p EXCEPT !.inflight = pl.inflight].st = pl.st
        BY <2>1, <3>1 DEF PlRec
      <4> QED BY <2>1, <2>5, <4>1
    <3>3. pl'.st # "new" /\ (pl'.st = "up" => pl.st \in {"new", "up"})
      BY <1>1, <3>2
    <3>4. frame' = frame /\ (frame # None => pl'.st = pl.st)
      BY <2>5, <3>2
    <3> QED BY <2>2, <2>5, <3>2, <3>3, <3>4, PlStep
  <2>6. CASE pl' = [p EXCEPT !.leaked = @ + 1] /\ UNCHANGED <<pend, run, req, canc, frame, stale>>
    <3>1. p.leaked + 1 \in Nat
      BY <2>1 DEF PlRec
    <3>2. pl' \in PlRec /\ pl'.st = pl.st
      BY <2>1, <2>6, <3>1 DEF PlRec
    <3>3. pl'.st # "new" /\ (pl'.st = "up" => pl.st \in {"new", "up"})
      BY <1>1, <3>2
    <3>4. frame' = frame /\ (frame # None => pl'.st = pl.st)
      BY <2>6, <3>2
    <3> QED BY <2>2, <2>6, <3>2, <3>3, <3>4, PlStep
  <2> QED BY <2>3, <2>4, <2>5, <2>6
<1>3. Counted \in PlRec /\ Counted.st = pl.st
  BY <1>0 DEF Counted, PlRec
<1>4. CASE lua_clm_sleep
  <2>1. Yields("sleep", Counted) /\ pend' = Append(pend, <<"req", frame.run>>) /\ UNCHANGED <<reg, tm, kid>>
    BY <1>4 DEF lua_clm_sleep
  <2> QED BY <1>0, <1>3, <2>1, YieldLife
<1>5. CASE lua_clm_exec
  <2>1. /\ Yields("exec", Counted) /\ UNCHANGED <<reg, tm, kid>>
        /\ pend' = Append(pend, <<"req", frame.run>>) \/ pend' = pend
    BY <1>5 DEF lua_clm_exec
  <2> QED BY <1>0, <1>3, <2>1, YieldLife
<1> QED BY <1>2, <1>4, <1>5 DEF lua_ctx_http_post

\* What the return of the frame's coroutine leaves of the runs.
LEMMA ReturnFacts ==
    ASSUME LifeInv, Returns, NEW r, r = frame.run
    PROVE  /\ r \in Runs /\ On(r) /\ run[r].begun /\ run'[r].co = "gone"
           /\ run' \in [Runs -> RunRec]
           /\ \A j \in Runs : run'[j].begun = run[j].begun
           /\ \A j \in Runs : j # r => /\ run'[j].done = run[j].done /\ run'[j].mem = run[j].mem
                                       /\ run'[j].timer = run[j].timer /\ run'[j].co = run[j].co
                                       /\ run'[j].answers = run[j].answers
                                       /\ j # frame.ref => run'[j].rooted = run[j].rooted
           /\ r \notin Tools => run'[r].answers = run[r].answers
           /\ r \in Tools => run'[r].answers = run[r].answers \/ run'[r].answers = 1
           /\ r \in Gates => /\ run'[r].mem = run[r].mem
                             /\ ~run[r].done => run'[r].timer = "answer"
           /\ r \in Cmds /\ run[r].answers > 0 =>
                run'[r].mem = "freed" /\ run'[r].timer = "off"
           /\ r \in Cmds /\ ~(run[r].answers > 0) =>
                run'[r].mem = run[r].mem /\ run'[r].timer = "answer"
<1>0. run \in [Runs -> RunRec] /\ \A j \in Runs : RunOK(j)
  BY LifeParts
<1>1. r \in Runs /\ On(r)
  BY DEF Returns, On
<1>2. run[r].begun
  BY <1>0, <1>1 DEF RunOK
<1> DEFINE i == IF (r \in Tools /\ ~run[r].done) /\ frame.by = "invoke" THEN r ELSE None
           f == Finish(run, r)
           e == Released(f, r, frame.ref)
<1>3. i \in Tools \cup {None} /\ (i # None => i = r) /\ run' = Told(e, i)
  BY DEF Returns
<1> HIDE DEF i
<1>4. /\ f \in [Runs -> RunRec]
      /\ \A j \in Runs :
            /\ j # r => f[j] = run[j]
            /\ f[j].begun = run[j].begun /\ f[j].answers = run[j].answers
      /\ r \in Gates => /\ f[r].mem = run[r].mem
                        /\ ~run[r].done => f[r].timer = "answer"
      /\ r \in Cmds /\ run[r].answers > 0 => f[r].mem = "freed" /\ f[r].timer = "off"
      /\ r \in Cmds /\ ~(run[r].answers > 0) => f[r].mem = run[r].mem /\ f[r].timer = "answer"
  BY <1>0, <1>1, FinishFacts
<1> HIDE DEF f
<1>5. /\ e \in [Runs -> RunRec] /\ e[r].co = "gone"
      /\ \A j \in Runs :
            /\ e[j].begun = f[j].begun /\ e[j].done = f[j].done /\ e[j].mem = f[j].mem
            /\ e[j].timer = f[j].timer /\ e[j].answers = f[j].answers
            /\ j # r => e[j].co = f[j].co
            /\ j # frame.ref => e[j].rooted = f[j].rooted
  BY <1>1, <1>4, ReleasedFacts
<1> HIDE DEF e
<1>6. /\ run' \in [Runs -> RunRec]
      /\ \A j \in Runs :
            /\ run'[j].begun = e[j].begun /\ run'[j].done = e[j].done /\ run'[j].mem = e[j].mem
            /\ run'[j].timer = e[j].timer /\ run'[j].co = e[j].co /\ run'[j].rooted = e[j].rooted
            /\ run'[j].answers = IF j = i THEN 1 ELSE e[j].answers
  BY <1>3, <1>5, ToldFacts
<1>7. \A j \in Runs : j # r => /\ run'[j].done = run[j].done /\ run'[j].mem = run[j].mem
                               /\ run'[j].timer = run[j].timer /\ run'[j].co = run[j].co
                               /\ run'[j].answers = run[j].answers
                               /\ j # frame.ref => run'[j].rooted = run[j].rooted
  <2> SUFFICES ASSUME NEW j \in Runs, j # r
               PROVE  /\ run'[j].done = run[j].done /\ run'[j].mem = run[j].mem
                      /\ run'[j].timer = run[j].timer /\ run'[j].co = run[j].co
                      /\ run'[j].answers = run[j].answers
                      /\ j # frame.ref => run'[j].rooted = run[j].rooted
    OBVIOUS
  <2>1. j # i
    BY <1>3, RunSets
  <2> QED BY <1>4, <1>5, <1>6, <2>1
<1>8. \A j \in Runs : run'[j].begun = run[j].begun
  BY <1>4, <1>5, <1>6
<1>9. r \notin Tools => run'[r].answers = run[r].answers
  BY <1>1, <1>3, <1>4, <1>5, <1>6, RunSets
<1>10. run'[r].answers = run[r].answers \/ run'[r].answers = 1
  BY <1>1, <1>4, <1>5, <1>6
<1>11. /\ r \in Gates => /\ run'[r].mem = run[r].mem
                         /\ ~run[r].done => run'[r].timer = "answer"
       /\ r \in Cmds /\ run[r].answers > 0 => run'[r].mem = "freed" /\ run'[r].timer = "off"
       /\ r \in Cmds /\ ~(run[r].answers > 0) => run'[r].mem = run[r].mem /\ run'[r].timer = "answer"
  BY <1>1, <1>4, <1>5, <1>6
<1>12. run'[r].co = "gone"
  BY <1>1, <1>5, <1>6
<1> QED BY <1>1, <1>2, <1>6, <1>7, <1>8, <1>9, <1>10, <1>11, <1>12

LEMMA ReturnsLife ==
    ASSUME LifeInv, Returns
    PROVE  LifeInv'
<1>0. /\ TypeOK /\ Unique /\ NewOK /\ ListedOK /\ BegunOK /\ pl \in PlRec
      /\ \A j \in Runs : RunOK(j)
  BY LifeParts
<1>a. PICK r \in Runs : r = frame.run
  BY DEF Returns
<1>1. /\ On(r) /\ run[r].begun /\ run'[r].co = "gone"
      /\ run' \in [Runs -> RunRec]
      /\ \A j \in Runs : run'[j].begun = run[j].begun
      /\ \A j \in Runs : j # r => /\ run'[j].done = run[j].done /\ run'[j].mem = run[j].mem
                                  /\ run'[j].timer = run[j].timer
                                  /\ run'[j].answers = run[j].answers
                                  /\ run'[j].co = run[j].co
      /\ r \notin Tools => run'[r].answers = run[r].answers
      /\ r \in Gates => /\ run'[r].mem = run[r].mem
                        /\ ~run[r].done => run'[r].timer = "answer"
      /\ r \in Cmds /\ run[r].answers > 0 => run'[r].mem = "freed" /\ run'[r].timer = "off"
      /\ r \in Cmds /\ ~(run[r].answers > 0) => run'[r].mem = run[r].mem /\ run'[r].timer = "answer"
  BY <1>a, ReturnFacts
<1>2. /\ frame # None /\ pl' = Slots(pl) /\ reg' = None /\ frame' = None
      /\ UNCHANGED <<req, canc, tm, kid>>
      /\ pend' = IF r \in Cmds /\ run[r].answers > 0 THEN clm_lua_pending_remove("cmd", r) ELSE pend
  BY <1>a DEF Returns
<1>3. /\ pend' \in Seq(Entry) /\ Unique'
      /\ r \in Cmds /\ run[r].answers > 0 => Held' = Held \ {<<"cmd", r>>}
      /\ ~(r \in Cmds /\ run[r].answers > 0) => Held' = Held
  <2>1. CASE r \in Cmds /\ run[r].answers > 0
    BY <1>0, <1>2, <2>1, Dropped
  <2>2. CASE ~(r \in Cmds /\ run[r].answers > 0)
    BY <1>0, <1>2, <2>2, SameList
  <2> QED BY <2>1, <2>2
<1>4. pl' \in PlRec /\ pl'.st = pl.st /\ pl.st # "new"
  BY <1>0, <1>2, SlotsFacts, FrameOpen
<1>5. stale' \in BOOLEAN
  BY <1>0 DEF Returns, TypeOK
<1>6. TypeOK'
  BY <1>0, <1>1, <1>2, <1>3, <1>4, <1>5 DEF TypeOK
<1>7. \A j \in Runs : /\ ~On(j)' /\ (Asks(j)' <=> Asks(j)) /\ StaysIdle(j)
                      /\ Waits(j)' <=> (Waits(j) /\ j # r)
  BY <1>1, <1>2 DEF On, Waits, Asks, StaysIdle
<1>8. \A j : /\ <<"req", j>> \in Held' <=> <<"req", j>> \in Held
             /\ <<"timer", j>> \in Held' <=> <<"timer", j>> \in Held
             /\ <<"child", j>> \in Held' <=> <<"child", j>> \in Held
             /\ <<"gate", j>> \in Held' <=> <<"gate", j>> \in Held
             /\ j # r => (<<"cmd", j>> \in Held' <=> <<"cmd", j>> \in Held)
  BY <1>3
<1>9. ASSUME r \notin Tools PROVE RunOK(r)'
  <2>1. RunOK(r) /\ run[r].mem = "live" /\ run'[r].begun /\ ~On(r)' /\ ~Waits(r)'
        /\ run'[r].answers = run[r].answers /\ run[r].answers \in Nat
    BY <1>0, <1>1, <1>7, <1>9 DEF RunOK, TypeOK, RunRec
  <2>2. CASE r \in Gates
    <3>1. ~run[r].done /\ run[r].answers = 0 /\ r \notin Cmds
      BY <1>1, <2>1, <2>2, RunSets DEF RunOK
    <3>2. run'[r].mem = "live" /\ run'[r].timer = "answer" /\ <<"gate", r>> \in Held'
      BY <1>1, <1>8, <2>1, <2>2, <3>1 DEF RunOK
    <3> QED BY <1>4, <1>9, <2>1, <2>2, <3>1, <3>2 DEF RunOK
  <2>3. CASE r \in Cmds
    <3>0. r \notin Gates
      BY <2>3, RunSets
    <3>1. CASE run[r].answers > 0
      <4>1. run'[r].mem = "freed" /\ run'[r].timer = "off" /\ <<"cmd", r>> \notin Held'
        BY <1>1, <1>3, <2>3, <3>1
      <4> QED BY <1>4, <1>9, <2>1, <2>3, <3>0, <4>1 DEF RunOK
    <3>2. CASE ~(run[r].answers > 0)
      <4>1. run'[r].mem = "live" /\ run'[r].timer = "answer" /\ <<"cmd", r>> \in Held'
        BY <1>1, <1>3, <2>1, <2>3, <3>2 DEF RunOK
      <4>2. run'[r].answers = 0
        BY <2>1, <3>2
      <4> QED BY <1>4, <1>9, <2>1, <2>3, <3>0, <4>1, <4>2 DEF RunOK
    <3> QED BY <3>1, <3>2
  <2> QED BY <1>9, <2>2, <2>3, RunSets
<1>10. /\ \A j \in Runs : <<"req", j>> \in Held' => Asks(j)'
       /\ \A y \in Timers : <<"timer", y>> \in Held' => tm'[y] # "off"
       /\ \A k \in Kids : <<"child", k>> \in Held' => kid'[k].st # "none"
  BY <1>0, <1>2, <1>7, <1>8 DEF ListedOK
<1>11. \A j \in Runs \ Tools : j # r =>
                /\ run'[j].begun = run[j].begun /\ run'[j].done = run[j].done
                /\ run'[j].mem = run[j].mem /\ run'[j].timer = run[j].timer
                /\ run'[j].answers = run[j].answers
                /\ <<"gate", j>> \in Held' <=> <<"gate", j>> \in Held
                /\ <<"cmd", j>> \in Held' <=> <<"cmd", j>> \in Held
                /\ On(j)' => pl.st = "up" /\ pl'.st = "up"
  BY <1>1, <1>7, <1>8
<1>12. \A j \in Runs : /\ On(j)' \/ Waits(j)' => On(j) \/ Waits(j)
                       /\ On(j)' => run'[j].co # "parked"
                       /\ StaysIdle(j)
  BY <1>7
<1>13. \A j \in Runs : run[j].begun => run'[j].begun
  BY <1>1
<1>14. ASSUME NEW t \in Tools, ~run'[t].begun PROVE SameLife(t)
  <2>1. t \in Runs /\ t # r
    BY <1>1, <1>14, RunSets
  <2> QED BY <1>1, <2>1 DEF SameLife
<1>15. \A j \in Runs : req'[j] = req[j]
  BY <1>2
<1>16. pl'.st # "new" /\ (pl'.st = "up" => pl.st = "up")
  BY <1>4
<1>17. CASE r \in Tools
  <2>1. None \notin Tools /\ None \notin Runs
    BY RunSets
  <2>2. \A j \in Runs \ Tools : j # r
    BY <1>17
  <2> QED BY <1>2, <1>3, <1>4, <1>6, <1>10, <1>11, <1>12, <1>13, <1>14, <1>15, <1>16, <2>1, <2>2, RunStep
<1>18. CASE r \notin Tools
  BY <1>2, <1>3, <1>4, <1>6, <1>9, <1>10, <1>11, <1>12, <1>13, <1>14, <1>15, <1>16, <1>18, RunStep
<1> QED BY <1>17, <1>18

LEMMA RaisesLife ==
    ASSUME LifeInv, Raises
    PROVE  LifeInv'
<1>0. /\ TypeOK /\ Unique /\ NewOK /\ ListedOK /\ BegunOK /\ pl \in PlRec
      /\ run \in [Runs -> RunRec] /\ frame \in Frames \cup {None} /\ \A j \in Runs : RunOK(j)
  BY LifeParts
<1> DEFINE t == frame.run
           i == IF frame.by = "invoke" /\ run[t].done THEN None ELSE frame.inv
           e == Released(run, t, frame.ref)
<1>1. /\ frame # None /\ t \in Tools /\ t \in Runs /\ pl' = Slots(pl) /\ reg' = None /\ frame' = None
      /\ UNCHANGED <<pend, req, canc, tm, kid>>
      /\ run' = Told(e, i) /\ stale' = (stale \/ Late(i))
  BY RunSets DEF Raises
<1>2. i \in Tools \cup {None} /\ (i = None \/ run[i].begun)
  <2>1. frame.inv \in Tools \cup {None} /\ (frame.inv = None \/ run[frame.inv].begun)
    BY <1>0, <1>1 DEF Frames, BegunOK
  <2> QED BY <2>1
<1>3. On(t)
  BY <1>1 DEF On
<1> HIDE DEF t, i
<1>4. run[t].begun
  BY <1>0, <1>1, <1>3 DEF RunOK
<1>5. /\ e \in [Runs -> RunRec] /\ e[t].co = "gone"
      /\ \A j \in Runs : /\ e[j].begun = run[j].begun /\ e[j].done = run[j].done
                         /\ e[j].mem = run[j].mem /\ e[j].timer = run[j].timer
                         /\ e[j].answers = run[j].answers
                         /\ j # t => e[j].co = run[j].co
  BY <1>0, <1>1, ReleasedFacts
<1> HIDE DEF e
<1>6. /\ run' \in [Runs -> RunRec]
      /\ \A j \in Runs : /\ run'[j].begun = run[j].begun /\ run'[j].done = run[j].done
                         /\ run'[j].mem = run[j].mem /\ run'[j].timer = run[j].timer
                         /\ run'[j].answers = IF j = i THEN 1 ELSE run[j].answers
                         /\ run'[j].co = e[j].co
  BY <1>1, <1>2, <1>5, ToldFacts
<1>7. pend' \in Seq(Entry) /\ Unique' /\ Held' = Held
  BY <1>0, <1>1, SameList
<1>8. pl' \in PlRec /\ pl'.st = pl.st /\ pl.st # "new"
  BY <1>0, <1>1, SlotsFacts, FrameOpen
<1>9. stale' \in BOOLEAN
  BY <1>0, <1>1 DEF TypeOK, Late
<1>10. TypeOK'
  BY <1>0, <1>1, <1>6, <1>7, <1>8, <1>9 DEF TypeOK
<1>11. \A j \in Runs : /\ ~On(j)' /\ (Asks(j)' <=> Asks(j)) /\ StaysIdle(j)
                       /\ Waits(j)' <=> (Waits(j) /\ j # t)
  BY <1>1, <1>4, <1>5, <1>6 DEF On, Waits, Asks, StaysIdle
<1>12. /\ \A j \in Runs : <<"req", j>> \in Held' => Asks(j)'
       /\ \A y \in Timers : <<"timer", y>> \in Held' => tm'[y] # "off"
       /\ \A k \in Kids : <<"child", k>> \in Held' => kid'[k].st # "none"
  BY <1>0, <1>1, <1>7, <1>11 DEF ListedOK
<1>13. \A j \in Runs \ Tools :
                /\ run'[j].begun = run[j].begun /\ run'[j].done = run[j].done
                /\ run'[j].mem = run[j].mem /\ run'[j].timer = run[j].timer
                /\ run'[j].answers = run[j].answers
                /\ <<"gate", j>> \in Held' <=> <<"gate", j>> \in Held
                /\ <<"cmd", j>> \in Held' <=> <<"cmd", j>> \in Held
                /\ On(j)' => pl.st = "up" /\ pl'.st = "up"
  BY <1>2, <1>6, <1>7, <1>11, RunSets
<1>14. \A j \in Runs : /\ On(j)' \/ Waits(j)' => On(j) \/ Waits(j)
                       /\ On(j)' => run'[j].co # "parked"
                       /\ StaysIdle(j)
  BY <1>11
<1>15. \A j \in Runs : run[j].begun => run'[j].begun
  BY <1>6
<1>16. \A j \in Tools : ~run'[j].begun => SameLife(j)
  BY <1>2, <1>6, RunSets DEF SameLife
<1>17. \A j \in Runs : req'[j] = req[j]
  BY <1>1
<1>18. pl'.st # "new" /\ (pl'.st = "up" => pl.st = "up")
  BY <1>8
<1>19. None \notin Tools /\ None \notin Runs
  BY RunSets
<1> QED BY <1>1, <1>7, <1>8, <1>10, <1>12, <1>13, <1>14, <1>15, <1>16, <1>17, <1>18, <1>19, RunStep

-----------------------------------------------------------------------------
(* Completions, timeouts and cancellations keep LifeInv.                   *)

\* A request that is over: off the list, its cancel dropped.
LEMMA TakenFacts ==
    ASSUME LifeInv, NEW r \in Runs, Taken(r)
    PROVE  /\ pend' \in Seq(Entry) /\ Unique' /\ Held' = Held \ {<<"req", r>>}
           /\ canc' \in [Tools -> Runs \cup {None}]
           /\ req' \in [Runs -> ReqRec] /\ req'[r] = NoReq
           /\ \A j \in Runs : j # r => req'[j] = req[j]
<1>0. TypeOK /\ Unique /\ req \in [Runs -> ReqRec]
  BY LifeParts
<1>1. pend' \in Seq(Entry) /\ Unique' /\ Held' = Held \ {<<"req", r>>}
  BY <1>0, Dropped DEF Taken
<1>2. NoReq \in ReqRec
  BY DEF NoReq, ReqRec
<1>3. req' = [req EXCEPT ![r] = NoReq]
  BY DEF Taken
<1>4. canc' \in [Tools -> Runs \cup {None}]
  <2>1. canc \in [Tools -> Runs \cup {None}] /\ req[r].inv \in Tools \cup {None}
    BY <1>0 DEF TypeOK, ReqRec
  <2>2. canc' = Unset(req[r].inv)
    BY DEF Taken
  <2>3. CASE req[r].inv = None
    BY <2>1, <2>2, <2>3 DEF Unset
  <2>4. CASE req[r].inv # None
    <3>1. canc' = [canc EXCEPT ![req[r].inv] = None] /\ req[r].inv \in Tools
      BY <2>1, <2>2, <2>4 DEF Unset
    <3> QED BY <2>1, <3>1
  <2> QED BY <2>3, <2>4
<1> QED BY <1>0, <1>1, <1>2, <1>3, <1>4

\* From the runs a to the runs b no life has changed, but that some tool calls
\* that have begun may have been answered; of the coroutines only r's moved.
Leaves(r, a, b) ==
    /\ b \in [Runs -> RunRec]
    /\ \A j \in Runs : /\ b[j].begun = a[j].begun /\ b[j].done = a[j].done
                       /\ b[j].mem = a[j].mem /\ b[j].timer = a[j].timer
                       /\ j # r => b[j].co = a[j].co
                       /\ j \notin Tools \/ ~a[j].begun => b[j].answers = a[j].answers

LEMMA LeavesTrans ==
    ASSUME NEW r, NEW a, NEW b, NEW c, Leaves(r, a, b), Leaves(r, b, c)
    PROVE  Leaves(r, a, c)
  BY DEF Leaves

LEMMA ToldLeaves ==
    ASSUME NEW r, NEW a \in [Runs -> RunRec], NEW t \in Tools \cup {None}, t = None \/ a[t].begun
    PROVE  Leaves(r, a, Told(a, t))
<1>1. /\ Told(a, t) \in [Runs -> RunRec]
      /\ \A j \in Runs :
            /\ Told(a, t)[j].begun = a[j].begun /\ Told(a, t)[j].done = a[j].done
            /\ Told(a, t)[j].mem = a[j].mem /\ Told(a, t)[j].timer = a[j].timer
            /\ Told(a, t)[j].co = a[j].co
            /\ Told(a, t)[j].answers = IF j = t THEN 1 ELSE a[j].answers
  BY ToldFacts
<1>2. ASSUME NEW j \in Runs, j \notin Tools \/ ~a[j].begun PROVE j # t
  BY <1>2, RunSets
<1> QED BY <1>1, <1>2 DEF Leaves

LEMMA ReleasedLeaves ==
    ASSUME NEW r \in Runs, NEW a \in [Runs -> RunRec], NEW ref
    PROVE  Leaves(r, a, Released(a, r, ref))
  BY ReleasedFacts DEF Leaves

\* Where the coroutine of r is, and that t's timeout has been spent, is no
\* part of a life.
LEMMA CoEdit ==
    ASSUME NEW rn \in [Runs -> RunRec], NEW r \in Runs, NEW c \in {"running", "parked", "gone", "lost"},
           NEW f, f = [rn EXCEPT ![r].co = c]
    PROVE  /\ f \in [Runs -> RunRec] /\ f[r].co = c
           /\ \A j \in Runs : /\ f[j].begun = rn[j].begun /\ f[j].done = rn[j].done
                              /\ f[j].mem = rn[j].mem /\ f[j].timer = rn[j].timer
                              /\ f[j].answers = rn[j].answers /\ f[j].rooted = rn[j].rooted
                              /\ j # r => f[j].co = rn[j].co
<1> DEFINE u == [rn[r] EXCEPT !.co = c]
<1>1. rn[r] \in RunRec /\ f = [rn EXCEPT ![r] = u]
  OBVIOUS
<1>2. u \in RunRec /\ u.begun = rn[r].begun /\ u.done = rn[r].done /\ u.mem = rn[r].mem
      /\ u.timer = rn[r].timer /\ u.answers = rn[r].answers /\ u.rooted = rn[r].rooted /\ u.co = c
  BY <1>1 DEF RunRec
<1> HIDE DEF u
<1>3. f \in [Runs -> RunRec] /\ f[r] = u /\ \A j \in Runs : j # r => f[j] = rn[j]
  BY <1>1, <1>2
<1> QED BY <1>2, <1>3

LEMMA LostFacts ==
    ASSUME NEW rn \in [Runs -> RunRec], NEW r \in Runs
    PROVE  /\ Lost(rn, r) \in [Runs -> RunRec] /\ Lost(rn, r)[r].co # "parked"
           /\ rn[r].co # "parked" => Lost(rn, r) = rn
           /\ \A j \in Runs : /\ Lost(rn, r)[j].begun = rn[j].begun /\ Lost(rn, r)[j].done = rn[j].done
                              /\ Lost(rn, r)[j].mem = rn[j].mem /\ Lost(rn, r)[j].timer = rn[j].timer
                              /\ Lost(rn, r)[j].answers = rn[j].answers
                              /\ Lost(rn, r)[j].rooted = rn[j].rooted
                              /\ j # r => Lost(rn, r)[j].co = rn[j].co
<1>1. CASE rn[r].co = "parked"
  <2>1. Lost(rn, r) = [rn EXCEPT ![r].co = "lost"]
    BY <1>1 DEF Lost
  <2> QED BY <1>1, <2>1, CoEdit
<1>2. CASE rn[r].co # "parked"
  <2>1. Lost(rn, r) = [rn EXCEPT ![r].co = @]
    BY <1>2 DEF Lost
  <2>2. Lost(rn, r) = rn
    BY <2>1 DEF RunRec
  <2> QED BY <1>2, <2>2
<1> QED BY <1>1, <1>2

LEMMA SpentRec ==
    ASSUME NEW v \in RunRec, NEW u, u = [v EXCEPT !.spent = TRUE]
    PROVE  /\ u \in RunRec /\ u.begun = v.begun /\ u.done = v.done /\ u.mem = v.mem
           /\ u.timer = v.timer /\ u.answers = v.answers /\ u.rooted = v.rooted /\ u.co = v.co
  BY DEF RunRec

\* f is rn once the call t has used up its limit.
Spends(rn, t, f) == f = [rn EXCEPT ![t].spent = TRUE]

LEMMA SpentEdit ==
    ASSUME NEW rn \in [Runs -> RunRec], NEW t \in Runs, NEW f, Spends(rn, t, f)
    PROVE  /\ f \in [Runs -> RunRec]
           /\ \A j \in Runs : /\ f[j].begun = rn[j].begun /\ f[j].done = rn[j].done
                              /\ f[j].mem = rn[j].mem /\ f[j].timer = rn[j].timer
                              /\ f[j].answers = rn[j].answers /\ f[j].rooted = rn[j].rooted
                              /\ f[j].co = rn[j].co
<1>0. PICK u : u = [rn[t] EXCEPT !.spent = TRUE]
  OBVIOUS
<1>1. /\ u \in RunRec /\ u.begun = rn[t].begun /\ u.done = rn[t].done /\ u.mem = rn[t].mem
      /\ u.timer = rn[t].timer /\ u.answers = rn[t].answers /\ u.rooted = rn[t].rooted /\ u.co = rn[t].co
  BY <1>0, SpentRec
<1>2. f = [rn EXCEPT ![t] = u]
  BY <1>0 DEF Spends
<1>3. f \in [Runs -> RunRec] /\ f[t] = u /\ \A j \in Runs : j # t => f[j] = rn[j]
  BY <1>1, <1>2
<1> QED BY <1>1, <1>3

\* The request of r is taken. If r runs after it, it waited and the plugin is
\* up.
LEMMA TakenLife ==
    ASSUME LifeInv, NEW r \in Runs, Asks(r), Taken(r), UNCHANGED <<tm, kid>>,
           pl' \in PlRec, pl'.st = pl.st, stale' \in BOOLEAN, Leaves(r, run, run'),
           reg' = reg \/ reg' = None,
           \/ frame' = frame /\ frame = None
           \/ /\ frame' \in Frames /\ FrameOK(frame') /\ frame'.run = r /\ pl.st = "up"
              /\ frame'.inv = req[r].inv /\ Waits(r) /\ run'[r].co = "running"
    PROVE  LifeInv'
<1>0. /\ TypeOK /\ Unique /\ NewOK /\ ListedOK /\ BegunOK /\ pl \in PlRec
      /\ run \in [Runs -> RunRec] /\ req \in [Runs -> ReqRec] /\ \A j \in Runs : RunOK(j)
  BY LifeParts
<1>1. /\ pend' \in Seq(Entry) /\ Unique' /\ Held' = Held \ {<<"req", r>>}
      /\ canc' \in [Tools -> Runs \cup {None}]
      /\ req' \in [Runs -> ReqRec] /\ req'[r] = NoReq
      /\ \A j \in Runs : j # r => req'[j] = req[j]
  BY TakenFacts
<1>2. UNCHANGED <<tm, kid>>
  OBVIOUS
<1>a. /\ run' \in [Runs -> RunRec]
      /\ \A j \in Runs : /\ run'[j].begun = run[j].begun /\ run'[j].done = run[j].done
                         /\ run'[j].mem = run[j].mem /\ run'[j].timer = run[j].timer
                         /\ j # r => run'[j].co = run[j].co
                         /\ j \notin Tools \/ ~run[j].begun => run'[j].answers = run[j].answers
  BY DEF Leaves
<1>3. TypeOK'
  BY <1>0, <1>1, <1>2, <1>a DEF TypeOK
<1>5. run[r].begun /\ pl.st # "new"
  BY <1>0 DEF RunOK
<1>4. \A j \in Runs : /\ Asks(j)' <=> (Asks(j) /\ j # r)
                      /\ Waits(j)' <=> (Waits(j) /\ j # r)
                      /\ On(j)' => j = r /\ pl.st = "up" /\ Waits(r) /\ run'[r].co = "running"
                      /\ StaysIdle(j)
  BY <1>1, <1>5, <1>a, RunSets DEF Waits, Asks, On, NoReq, StaysIdle
<1>6. \A j : /\ <<"timer", j>> \in Held' <=> <<"timer", j>> \in Held
             /\ <<"child", j>> \in Held' <=> <<"child", j>> \in Held
             /\ <<"gate", j>> \in Held' <=> <<"gate", j>> \in Held
             /\ <<"cmd", j>> \in Held' <=> <<"cmd", j>> \in Held
             /\ <<"req", j>> \in Held' <=> (<<"req", j>> \in Held /\ j # r)
  BY <1>1
<1>7. /\ \A j \in Runs : <<"req", j>> \in Held' => Asks(j)'
      /\ \A y \in Timers : <<"timer", y>> \in Held' => tm'[y] # "off"
      /\ \A k \in Kids : <<"child", k>> \in Held' => kid'[k].st # "none"
  BY <1>0, <1>2, <1>4, <1>6 DEF ListedOK
<1>8. \A j \in Runs \ Tools :
                /\ run'[j].begun = run[j].begun /\ run'[j].done = run[j].done
                /\ run'[j].mem = run[j].mem /\ run'[j].timer = run[j].timer
                /\ run'[j].answers = run[j].answers
                /\ <<"gate", j>> \in Held' <=> <<"gate", j>> \in Held
                /\ <<"cmd", j>> \in Held' <=> <<"cmd", j>> \in Held
                /\ On(j)' => pl.st = "up" /\ pl'.st = "up"
  BY <1>4, <1>6, <1>a
<1>9. \A j \in Runs : /\ On(j)' \/ Waits(j)' => On(j) \/ Waits(j)
                      /\ On(j)' => run'[j].co # "parked"
                      /\ StaysIdle(j)
  BY <1>4
<1>10. \A j \in Runs : run[j].begun => run'[j].begun
  BY <1>a
<1>11. \A j \in Tools : ~run'[j].begun => SameLife(j)
  BY <1>a, RunSets DEF SameLife
<1>12. \A j \in Runs : req'[j] = req[j] \/ req'[j].inv = None
  BY <1>1 DEF NoReq
<1>13. pl'.st # "new" /\ (pl'.st = "up" => pl.st = "up")
  BY <1>5
<1>14. None \notin Tools /\ None \notin Runs
  BY RunSets
<1>15. frame' = frame \/ frame'.inv = None \/ run'[frame'.inv].begun
  <2>1. CASE frame'.inv = req[r].inv /\ req[r].inv # None
    <3>1. req[r].inv \in Tools /\ run[req[r].inv].begun
      BY <1>0, <2>1 DEF ReqRec, BegunOK
    <3> QED BY <1>a, <2>1, <3>1, RunSets
  <2> QED BY <2>1
<1> QED BY <1>1, <1>3, <1>5, <1>7, <1>8, <1>9, <1>10, <1>11, <1>12, <1>13, <1>14, <1>15, RunStep

\* A request names an invocation that has begun, and a frame made from it is
\* one.
LEMMA ReqFacts ==
    ASSUME LifeInv, NEW r \in Runs
    PROVE  /\ req[r].inv \in Tools \cup {None} /\ req[r].ref \in Runs \cup {None}
           /\ req[r].inv = None \/ run[req[r].inv].begun
  BY DEF LifeInv, TypeOK, ReqRec, BegunOK

LEMMA ResumeLife ==
    ASSUME LifeInv, NEW r \in Runs, Waits(r), Loop, NEW b \in {"http", "sleep", "exec"}, Resume(b, r)
    PROVE  LifeInv'
<1>0. TypeOK /\ pl \in PlRec /\ run \in [Runs -> RunRec]
  BY LifeParts
<1>1. /\ Taken(r) /\ run' = [run EXCEPT ![r].co = "running"]
      /\ frame' = [by |-> b, run |-> r, inv |-> req[r].inv, ref |-> req[r].ref]
      /\ stale' = (stale \/ pl.dead) /\ UNCHANGED <<pl, reg, tm, kid>> /\ frame = None /\ pl.st = "up"
  BY DEF Resume, Loop
<1>2. frame' \in Frames /\ FrameOK(frame') /\ frame'.run = r /\ frame'.inv = req[r].inv
  BY <1>1, ReqFacts, RunFrame
<1>3. Leaves(r, run, run') /\ run'[r].co = "running"
  BY <1>0, <1>1, CoEdit DEF Leaves
<1>4. stale' \in BOOLEAN /\ Asks(r)
  BY <1>0, <1>1 DEF TypeOK, Waits
<1> QED BY <1>0, <1>1, <1>2, <1>3, <1>4, TakenLife

LEMMA DoneFacts ==
    ASSUME NEW p \in PlRec
    PROVE  /\ clm_lua_http_done(p) \in PlRec /\ clm_lua_http_done(p).st = p.st
           /\ clm_lua_http_done(p).dead = p.dead
<1>1. CASE p.inflight > 0
  <2>1. p.inflight - 1 \in Nat /\ clm_lua_http_done(p) = [p EXCEPT !.inflight = p.inflight - 1]
    BY <1>1 DEF clm_lua_http_done, PlRec
  <2> QED BY <2>1 DEF PlRec
<1>2. CASE ~(p.inflight > 0)
  BY <1>2 DEF clm_lua_http_done
<1> QED BY <1>1, <1>2

\* The completion of a request whose coroutine does not wait for it.
LEMMA SkipLife ==
    ASSUME LifeInv, NEW r \in Runs, Asks(r), frame = None, NEW rn, Leaves(r, run, rn), SkipsResume(r, rn)
    PROVE  LifeInv'
<1>0. pl \in PlRec
  BY LifeParts
<1>1. /\ Taken(r) /\ UNCHANGED <<tm, kid>> /\ frame' = frame /\ stale' = TRUE
      /\ reg' = reg \/ reg' = None
      /\ pl' = pl \/ pl' = clm_lua_http_done(pl)
      /\ run' = Released(rn, r, req[r].ref)
  BY DEF SkipsResume
<1>2. pl' \in PlRec /\ pl'.st = pl.st
  BY <1>0, <1>1, DoneFacts
<1>3. Leaves(r, run, run')
  <2>1. rn \in [Runs -> RunRec]
    BY DEF Leaves
  <2>2. Leaves(r, rn, run')
    BY <1>1, <2>1, ReleasedLeaves
  <2> QED BY <2>2, LeavesTrans
<1> QED BY <1>1, <1>2, <1>3, TakenLife

LEMMA CompletionsLife ==
    ASSUME LifeInv, NEW r \in Runs, Completion(r) \/ lua_exec_done(r)
    PROVE  LifeInv'
<1>0. TypeOK /\ pl \in PlRec /\ run \in [Runs -> RunRec]
  BY LifeParts
<1>1. Loop /\ frame = None /\ Asks(r)
  BY DEF Completion, lua_exec_done, lua_http_on_success, lua_http_on_error, lua_sleep_timer_cb,
         Asks, Loop
<1>2. CASE run[r].co = "parked" /\ \E b \in {"http", "sleep", "exec"} : Resume(b, r)
  <2>1. Waits(r)
    BY <1>1, <1>2 DEF Waits
  <2> QED BY <1>1, <1>2, <2>1, ResumeLife
<1>3. CASE SkipsResume(r, run)
  <2>1. Leaves(r, run, run)
    BY <1>0 DEF Leaves
  <2> QED BY <1>1, <1>3, <2>1, SkipLife
<1>4. CASE /\ lua_http_on_success(r) /\ Taken(r)
           /\ run' = Lost(run, r) /\ pl' = clm_lua_http_done(pl)
           /\ UNCHANGED <<reg, tm, kid, frame, stale>>
  <2>1. pl' \in PlRec /\ pl'.st = pl.st
    BY <1>0, <1>4, DoneFacts
  <2>2. Leaves(r, run, run')
    BY <1>0, <1>4, LostFacts DEF Leaves
  <2>3. stale' \in BOOLEAN
    BY <1>0, <1>4 DEF TypeOK
  <2> QED BY <1>1, <1>4, <2>1, <2>2, <2>3, TakenLife
<1>5. CASE /\ lua_exec_done(r) /\ Taken(r)
           /\ run' = Told(Lost(run, r), req[r].inv)
           /\ stale' = (stale \/ Late(req[r].inv))
           /\ UNCHANGED <<pl, reg, tm, kid, frame>>
  <2> DEFINE f == Lost(run, r)
             i == req[r].inv
  <2>1. f \in [Runs -> RunRec] /\ Leaves(r, run, f) /\ \A j \in Runs : f[j].begun = run[j].begun
    BY <1>0, LostFacts DEF Leaves
  <2>2. i \in Tools \cup {None} /\ (i = None \/ run[i].begun) /\ run' = Told(f, i)
    BY <1>5, ReqFacts
  <2> HIDE DEF f, i
  <2>3. Leaves(r, f, run')
    BY <2>1, <2>2, ToldLeaves, RunSets
  <2>4. Leaves(r, run, run')
    BY <2>1, <2>3, LeavesTrans
  <2>5. stale' \in BOOLEAN
    BY <1>0, <1>5 DEF TypeOK, Late
  <2>6. /\ Taken(r) /\ UNCHANGED <<tm, kid>> /\ pl' \in PlRec /\ pl'.st = pl.st /\ reg' = reg
        /\ frame' = frame /\ frame = None
    BY <1>0, <1>1, <1>5
  <2> QED BY <1>1, <2>4, <2>5, <2>6, TakenLife
<1>6. CASE lua_http_on_success(r)
  BY <1>2, <1>3, <1>4, <1>6 DEF lua_http_on_success
<1>7. CASE lua_http_on_error(r)
  BY <1>2, <1>3, <1>7 DEF lua_http_on_error
<1>8. CASE lua_sleep_timer_cb(r)
  BY <1>2, <1>3, <1>8 DEF lua_sleep_timer_cb
<1>9. CASE lua_exec_done(r)
  BY <1>2, <1>3, <1>5, <1>9 DEF lua_exec_done
<1> QED BY <1>6, <1>7, <1>8, <1>9 DEF Completion

LEMMA TimeoutLife ==
    ASSUME LifeInv, NEW t \in Tools, ToolTimeout(t)
    PROVE  LifeInv'
<1>0. TypeOK /\ pl \in PlRec /\ run \in [Runs -> RunRec] /\ t \in Runs /\ t # None
  BY LifeParts, RunSets
<1> DEFINE r == canc[t]
<1>1. /\ r \in Runs /\ frame = None /\ pl.st = "up" /\ run[t].begun
      /\ \/ req[r].kind = "sleep" /\ lua_sleep_cancel(r, t)
         \/ req[r].kind = "exec" /\ lua_exec_cancel(r, t)
         \/ req[r].kind = "http" /\ lua_http_cancel(r, t)
  BY <1>0 DEF ToolTimeout, Loop, TypeOK
<1> HIDE DEF r
<1>2. Asks(r)
  BY <1>1 DEF Asks
<1>3. CASE req[r].kind = "sleep" /\ lua_sleep_cancel(r, t)
  <2> DEFINE f == Lost(run, r)
  <2>1. f \in [Runs -> RunRec] /\ Leaves(r, run, f)
    BY <1>0, <1>1, LostFacts DEF Leaves
  <2> HIDE DEF f
  <2>2. PICK h : Spends(f, t, h)
    BY DEF Spends
  <2>3. h \in [Runs -> RunRec] /\ Leaves(r, f, h) /\ h[t].begun
    BY <1>0, <1>1, <2>1, <2>2, SpentEdit DEF Leaves
  <2>4. Taken(r) /\ run' = Told(h, t) /\ UNCHANGED <<pl, reg, tm, kid, frame, stale>>
    BY <1>3, <2>2 DEF lua_sleep_cancel, f, Spends
  <2>5. Leaves(r, h, run')
    BY <2>3, <2>4, ToldLeaves
  <2>6. Leaves(r, run, run')
    BY <2>1, <2>3, <2>5, LeavesTrans
  <2>7. stale' \in BOOLEAN /\ pl' \in PlRec /\ pl'.st = pl.st
    BY <1>0, <2>4 DEF TypeOK
  <2> QED BY <1>1, <1>2, <2>4, <2>6, <2>7, TakenLife
<1>4. CASE req[r].kind = "exec" /\ lua_exec_cancel(r, t)
  <2>2. PICK f : Spends(run, t, f)
    BY DEF Spends
  <2>1. f \in [Runs -> RunRec] /\ Leaves(r, run, f) /\ f[t].begun
    BY <1>0, <1>1, <2>2, SpentEdit DEF Leaves
  <2> DEFINE h == Released(f, r, req[r].ref)
  <2>3. h \in [Runs -> RunRec] /\ Leaves(r, f, h) /\ h[t].begun
    BY <1>0, <1>1, <2>1, ReleasedFacts DEF Leaves
  <2>4. /\ Taken(r) /\ run' = Told(h, t) /\ reg' = None /\ UNCHANGED <<pl, tm, kid, frame>>
        /\ stale' = (stale \/ run[r].co # "parked")
    BY <1>4, <2>2 DEF lua_exec_cancel, h, Spends
  <2> HIDE DEF h
  <2>5. Leaves(r, h, run')
    BY <2>3, <2>4, ToldLeaves
  <2>6. Leaves(r, run, run')
    BY <2>1, <2>3, <2>5, LeavesTrans
  <2>7. stale' \in BOOLEAN /\ pl' \in PlRec /\ pl'.st = pl.st
    BY <1>0, <2>4 DEF TypeOK
  <2> QED BY <1>1, <1>2, <2>4, <2>6, <2>7, TakenLife
<1>5. CASE req[r].kind = "http" /\ lua_http_cancel(r, t)
  <2>1. CASE SkipsResume(r, [run EXCEPT ![t].spent = TRUE])
    <3>1. PICK f : Spends(run, t, f)
      BY DEF Spends
    <3>2. Leaves(r, run, f)
      BY <1>0, <3>1, SpentEdit DEF Leaves
    <3>3. SkipsResume(r, f)
      BY <2>1, <3>1 DEF Spends
    <3> QED BY <1>1, <1>2, <3>2, <3>3, SkipLife
  <2>2. CASE /\ run[r].co = "parked" /\ Taken(r)
             /\ run' = [run EXCEPT ![r].co = "running", ![t].spent = TRUE]
             /\ frame' = [by |-> "http", run |-> r, inv |-> req[r].inv, ref |-> req[r].ref]
             /\ stale' = (stale \/ pl.dead)
             /\ UNCHANGED <<pl, reg, tm, kid>>
    <3>1. PICK f : f = [run EXCEPT ![r].co = "running"]
      OBVIOUS
    <3>2. f \in [Runs -> RunRec] /\ Leaves(r, run, f) /\ f[r].co = "running"
      BY <1>0, <1>1, <3>1, CoEdit DEF Leaves
    <3>3. Spends(f, t, run')
      BY <2>2, <3>1 DEF Spends
    <3>4. Leaves(r, f, run') /\ run'[r].co = "running"
      BY <1>0, <1>1, <3>2, <3>3, SpentEdit DEF Leaves
    <3>5. Leaves(r, run, run')
      BY <3>2, <3>4, LeavesTrans
    <3>6. frame' \in Frames /\ FrameOK(frame') /\ frame'.run = r /\ frame'.inv = req[r].inv
      BY <1>1, <2>2, ReqFacts, RunFrame
    <3>7. Waits(r) /\ stale' \in BOOLEAN /\ pl' \in PlRec /\ pl'.st = pl.st
      BY <1>0, <1>2, <2>2 DEF TypeOK, Waits
    <3> QED BY <1>1, <1>2, <2>2, <3>4, <3>5, <3>6, <3>7, TakenLife
  <2> QED BY <1>5, <2>1, <2>2 DEF lua_http_cancel
<1> QED BY <1>1, <1>3, <1>4, <1>5

-----------------------------------------------------------------------------
(* Timers of the host, and unloading, keep LifeInv.                        *)

\* Steps with no Lua frame open. The life of x, a hook or a command, changes,
\* or that of tool calls that have begun; requests only go.
LEMMA LoopStep ==
    ASSUME LifeInv, frame = None, UNCHANGED <<reg, frame>>, pl.st # "new",
           pl'.st = pl.st \/ pl'.st = "freed", TypeOK', Unique',
           NEW x, x \notin Tools, x \in Runs => RunOK(x)',
           \A j \in Runs : run'[j].begun = run[j].begun,
           \A j \in Runs : run'[j].co = run[j].co \/ (run[j].begun /\ run'[j].co # "parked"),
           \A t \in Tools : ~run[t].begun => SameLife(t),
           \A j \in Runs : req'[j] = req[j] \/ req'[j] = NoReq,
           \A r \in Runs : <<"req", r>> \in Held' => Asks(r)',
           \A y \in Timers : <<"timer", y>> \in Held' => tm'[y] # "off",
           \A k \in Kids : <<"child", k>> \in Held' => kid'[k].st # "none",
           \A j \in Runs \ Tools : j # x =>
                /\ run'[j].done = run[j].done /\ run'[j].mem = run[j].mem
                /\ run'[j].timer = run[j].timer /\ run'[j].answers = run[j].answers
                /\ <<"gate", j>> \in Held' <=> <<"gate", j>> \in Held
                /\ <<"cmd", j>> \in Held' <=> <<"cmd", j>> \in Held
    PROVE  LifeInv'
<1>1. \A t \in Tools : ~run'[t].begun => SameLife(t)
  BY RunSets
<1>2. pl'.st # "new" /\ (pl'.st = "up" => pl.st = "up")
  OBVIOUS
<1>3. \A j \in Runs : run[j].begun => run'[j].begun
  OBVIOUS
<1>4. \A r \in Runs : req'[r] = req[r] \/ req'[r].inv = None \/ run'[req'[r].inv].begun
  BY DEF NoReq
<1>5. \A j \in Runs : ~On(j)' /\ (Waits(j)' => Waits(j)) /\ StaysIdle(j)
  BY DEF On, Waits, Asks, NoReq, StaysIdle
<1>6. \A j \in Runs \ Tools : j # x =>
                /\ run'[j].begun = run[j].begun /\ run'[j].done = run[j].done
                /\ run'[j].mem = run[j].mem /\ run'[j].timer = run[j].timer
                /\ run'[j].answers = run[j].answers
                /\ <<"gate", j>> \in Held' <=> <<"gate", j>> \in Held
                /\ <<"cmd", j>> \in Held' <=> <<"cmd", j>> \in Held
                /\ On(j)' => pl.st = "up" /\ pl'.st = "up"
  BY <1>5
<1>7. \A j \in Runs : j # x =>
                /\ On(j)' \/ Waits(j)' => On(j) \/ Waits(j)
                /\ On(j)' => run'[j].co # "parked"
                /\ StaysIdle(j)
  BY <1>5
<1> QED BY <1>1, <1>2, <1>3, <1>4, <1>6, <1>7, RunStep

LEMMA AbandonedLife ==
    ASSUME LifeInv, NEW t \in Tools, ToolAbandoned(t)
    PROVE  LifeInv'
<1>0. /\ TypeOK /\ Unique /\ ListedOK /\ run \in [Runs -> RunRec] /\ \A j \in Runs : RunOK(j)
      /\ t \in Runs
  BY LifeParts, RunSets
<1>1. /\ frame = None /\ pl.st = "up" /\ run[t].begun
      /\ run' = [run EXCEPT ![t].answers = 1, ![t].spent = TRUE]
      /\ UNCHANGED <<pl, reg, pend, req, canc, tm, kid, frame, stale>>
  BY DEF ToolAbandoned, Loop
<1> DEFINE u == [run[t] EXCEPT !.answers = 1, !.spent = TRUE]
<1>2. u \in RunRec /\ u.begun = run[t].begun /\ u.co = run[t].co
  BY <1>0 DEF RunRec
<1>3. run' = [run EXCEPT ![t] = u]
  BY <1>1
<1> HIDE DEF u
<1>4. run' \in [Runs -> RunRec] /\ run'[t] = u /\ \A j \in Runs : j # t => run'[j] = run[j]
  BY <1>0, <1>2, <1>3
<1>5. pend' \in Seq(Entry) /\ Unique' /\ Held' = Held
  BY <1>0, <1>1, SameList
<1>6. TypeOK'
  BY <1>0, <1>1, <1>4, <1>5 DEF TypeOK
<1>7. \A j \in Runs : run'[j].begun = run[j].begun /\ run'[j].co = run[j].co
  BY <1>2, <1>4
<1>8. \A j \in Tools : ~run[j].begun => SameLife(j)
  BY <1>1, <1>4, RunSets DEF SameLife
<1>9. /\ \A r \in Runs : <<"req", r>> \in Held' => Asks(r)'
      /\ \A y \in Timers : <<"timer", y>> \in Held' => tm'[y] # "off"
      /\ \A k \in Kids : <<"child", k>> \in Held' => kid'[k].st # "none"
  BY <1>0, <1>1, <1>5 DEF ListedOK, Waits, Asks
<1>10. \A j \in Runs \ Tools :
                /\ run'[j].done = run[j].done /\ run'[j].mem = run[j].mem
                /\ run'[j].timer = run[j].timer /\ run'[j].answers = run[j].answers
                /\ <<"gate", j>> \in Held' <=> <<"gate", j>> \in Held
                /\ <<"cmd", j>> \in Held' <=> <<"cmd", j>> \in Held
  BY <1>4, <1>5
<1>11. None \notin Tools /\ None \notin Runs
  BY RunSets
<1>12. \A j \in Runs : req'[j] = req[j]
  BY <1>1
<1>13. UNCHANGED <<reg, frame>> /\ pl.st # "new" /\ pl'.st = pl.st
  BY <1>1
<1> QED BY <1>1, <1>5, <1>6, <1>7, <1>8, <1>9, <1>10, <1>11, <1>12, <1>13, LoopStep

\* The answer of a hook or a command: the record v of the answered run, and
\* its struct off the list as it is freed.
LEMMA AnswerLife ==
    ASSUME LifeInv, NEW x \in Gates \cup Cmds, NEW v \in RunRec, run' = [run EXCEPT ![x] = v],
           frame = None, UNCHANGED <<pl, reg, req, canc, tm, kid, frame, stale>>,
           pl.st # "new", run[x].begun,
           v.begun = run[x].begun, v.co = run[x].co, v.done = run[x].done, v.timer = "off",
           Waits(x) /\ pl.st = "up" => v.mem = "live",
           x \in Gates => v.mem = "freed",
           Waits(x) => ~run[x].done \/ x \in Cmds,
           pend' \in Seq(Entry), Unique',
           \/ Held' = Held /\ v.mem = run[x].mem
           \/ Held' = Held \ {<<IF x \in Gates THEN "gate" ELSE "cmd", x>>} /\ v.mem = "freed"
    PROVE  LifeInv'
<1>0. /\ TypeOK /\ Unique /\ ListedOK /\ run \in [Runs -> RunRec] /\ \A j \in Runs : RunOK(j)
      /\ x \in Runs /\ x \notin Tools
  BY LifeParts, RunSets
<1>1. run' \in [Runs -> RunRec] /\ run'[x] = v /\ \A j \in Runs : j # x => run'[j] = run[j]
  BY <1>0
<1>2. TypeOK'
  BY <1>0, <1>1 DEF TypeOK
<1>3. \A j : /\ <<"req", j>> \in Held' <=> <<"req", j>> \in Held
             /\ <<"timer", j>> \in Held' <=> <<"timer", j>> \in Held
             /\ <<"child", j>> \in Held' <=> <<"child", j>> \in Held
             /\ j # x => (<<"gate", j>> \in Held' <=> <<"gate", j>> \in Held)
             /\ j # x => (<<"cmd", j>> \in Held' <=> <<"cmd", j>> \in Held)
  OBVIOUS
<1>4. /\ \A r \in Runs : <<"req", r>> \in Held' => Asks(r)'
      /\ \A y \in Timers : <<"timer", y>> \in Held' => tm'[y] # "off"
      /\ \A k \in Kids : <<"child", k>> \in Held' => kid'[k].st # "none"
  BY <1>0, <1>3 DEF ListedOK, Waits, Asks
<1>5. /\ x \in Gates => (<<"gate", x>> \in Held' <=> v.mem = "live")
      /\ x \in Cmds => (<<"cmd", x>> \in Held' <=> v.mem = "live")
  BY <1>0, RunSets DEF RunOK
<1>6. ~On(x)' /\ (Asks(x)' <=> Asks(x)) /\ (Waits(x)' <=> Waits(x))
  BY <1>1 DEF On, Waits, Asks
<1>7. RunOK(x)'
  <2>1. run'[x].begun
    BY <1>1
  <2>2. pl'.st = pl.st
    OBVIOUS
  <2> QED BY <1>0, <1>1, <1>5, <1>6, <2>1, <2>2, RunSets DEF RunOK
<1>8. \A j \in Runs : run'[j].begun = run[j].begun /\ run'[j].co = run[j].co
  BY <1>1
<1>9. \A j \in Tools : ~run[j].begun => SameLife(j)
  BY <1>0, <1>1, RunSets DEF SameLife
<1>10. \A j \in Runs \ Tools : j # x =>
                /\ run'[j].done = run[j].done /\ run'[j].mem = run[j].mem
                /\ run'[j].timer = run[j].timer /\ run'[j].answers = run[j].answers
                /\ <<"gate", j>> \in Held' <=> <<"gate", j>> \in Held
                /\ <<"cmd", j>> \in Held' <=> <<"cmd", j>> \in Held
  BY <1>1, <1>3
<1>11. \A j \in Runs : req'[j] = req[j]
  OBVIOUS
<1>12. UNCHANGED <<reg, frame>> /\ pl'.st = pl.st
  OBVIOUS
<1> QED BY <1>0, <1>2, <1>4, <1>7, <1>8, <1>9, <1>10, <1>11, <1>12, LoopStep

\* What the answers change of the run.
LEMMA AnswerRec ==
    ASSUME NEW w \in RunRec, NEW v,
           \/ v = [w EXCEPT !.timer = "off", !.mem = "freed", !.answers = w.answers + 1]
           \/ v = [w EXCEPT !.timer = "off", !.answers = w.answers + 1]
           \/ v = [w EXCEPT !.timer = "off", !.mem = "freed",
                            !.answers = IF w.answers = 0 THEN 1 ELSE w.answers]
    PROVE  /\ v \in RunRec /\ v.begun = w.begun /\ v.co = w.co /\ v.done = w.done /\ v.timer = "off"
           /\ v.mem \in {"freed", w.mem}
           /\ v.answers \in {w.answers, w.answers + 1}
<1>0. w.answers \in Nat /\ w.answers + 1 \in Nat
  BY DEF RunRec
<1> DEFINE n == w.answers + 1
           m == IF w.answers = 0 THEN 1 ELSE w.answers
<1>1. n \in Nat /\ m \in Nat /\ m \in {w.answers, w.answers + 1} /\ n = w.answers + 1
  BY <1>0
<1> HIDE DEF n, m
<1>2. CASE v = [w EXCEPT !.timer = "off", !.mem = "freed", !.answers = n]
  BY <1>1, <1>2 DEF RunRec
<1>3. CASE v = [w EXCEPT !.timer = "off", !.answers = n]
  BY <1>1, <1>3 DEF RunRec
<1>4. CASE v = [w EXCEPT !.timer = "off", !.mem = "freed", !.answers = m]
  BY <1>1, <1>4 DEF RunRec
<1> QED BY <1>2, <1>3, <1>4 DEF n, m
LEMMA AnswersLife ==
    ASSUME LifeInv, NEW x, (x \in Gates /\ gate_timer_cb(x))
                           \/ (x \in Cmds /\ (cmd_answer_cb(x) \/ cmd_timeout_cb(x)))
    PROVE  LifeInv'
<1>0. /\ TypeOK /\ Unique /\ run \in [Runs -> RunRec] /\ \A j \in Runs : RunOK(j)
      /\ x \in Runs /\ x \notin Tools /\ x \in Gates \cup Cmds
  BY LifeParts, RunSets
<1>1. run[x] \in RunRec /\ frame = None /\ pl.st = "up"
      /\ UNCHANGED <<pl, reg, req, canc, tm, kid, frame, stale>>
  BY <1>0 DEF gate_timer_cb, cmd_answer_cb, cmd_timeout_cb, Loop
<1>2. run[x].timer # "off"
  BY DEF gate_timer_cb, cmd_answer_cb, cmd_timeout_cb
<1>3. run[x].begun /\ (x \in Gates /\ Waits(x) => ~run[x].done)
  BY <1>0, <1>2 DEF RunOK
<1>4. CASE (x \in Gates /\ gate_timer_cb(x)) \/ (x \in Cmds /\ cmd_answer_cb(x))
  <2>1. PICK v : v = [run[x] EXCEPT !.timer = "off", !.mem = "freed", !.answers = run[x].answers + 1]
    OBVIOUS
  <2>2. run' = [run EXCEPT ![x] = v]
    BY <1>4, <2>1 DEF gate_timer_cb, cmd_answer_cb
  <2>3. v \in RunRec /\ v.begun = run[x].begun /\ v.co = run[x].co /\ v.done = run[x].done /\ v.timer = "off"
    BY <1>1, <2>1, AnswerRec
  <2>4. v.mem = "freed"
    BY <1>1, <2>1 DEF RunRec
  <2>5. ~Waits(x)
    <3>1. run[x].timer = "answer"
      BY <1>4 DEF gate_timer_cb, cmd_answer_cb
    <3> QED BY <1>0, <3>1 DEF RunOK
  <2>6. /\ pend' \in Seq(Entry) /\ Unique'
        /\ Held' = Held \ {<<IF x \in Gates THEN "gate" ELSE "cmd", x>>}
    <3>1. pend' = clm_lua_pending_remove(IF x \in Gates THEN "gate" ELSE "cmd", x)
      BY <1>4, RunSets DEF gate_timer_cb, cmd_answer_cb
    <3> QED BY <1>0, <3>1, Dropped
  <2>7. pl.st # "new"
    BY <1>1
  <2> QED BY <1>0, <1>1, <1>3, <2>2, <2>3, <2>4, <2>5, <2>6, <2>7, AnswerLife
<1>5. CASE x \in Cmds /\ cmd_timeout_cb(x)
  <2>1. PICK v : v = [run[x] EXCEPT !.timer = "off", !.answers = run[x].answers + 1]
    OBVIOUS
  <2>2. run' = [run EXCEPT ![x] = v] /\ UNCHANGED pend
    BY <1>5, <2>1 DEF cmd_timeout_cb
  <2>3. v \in RunRec /\ v.begun = run[x].begun /\ v.co = run[x].co /\ v.done = run[x].done /\ v.timer = "off"
    BY <1>1, <2>1, AnswerRec
  <2>4. v.mem = run[x].mem
    BY <1>1, <2>1 DEF RunRec
  <2>5. x \notin Gates /\ (Waits(x) /\ pl.st = "up" => v.mem = "live")
    BY <1>0, <1>5, <2>4, RunSets DEF RunOK
  <2>6. pend' \in Seq(Entry) /\ Unique' /\ Held' = Held
    BY <1>0, <2>2, SameList
  <2>7. pl.st # "new"
    BY <1>1
  <2> QED BY <1>0, <1>1, <1>3, <1>5, <2>2, <2>3, <2>4, <2>5, <2>6, <2>7, AnswerLife
<1> QED BY <1>4, <1>5

LEMMA EntryKinds ==
    ASSUME NEW e \in Entry
    PROVE  /\ e = <<e[1], e[2]>>
           /\ \/ e[1] = "req" /\ e[2] \in Runs
              \/ e[1] = "gate" /\ e[2] \in Gates
              \/ e[1] = "cmd" /\ e[2] \in Cmds
              \/ e[1] = "timer" /\ e[2] \in Timers
              \/ e[1] = "child" /\ e[2] \in Kids
  BY DEF Entry

\* host_uv_proc_detach of a child that was started.
LEMMA DetachFacts ==
    ASSUME NEW k \in Kids, kid[k] \in KidRec
    PROVE  /\ host_uv_proc_detach(k) \in KidRec /\ host_uv_proc_detach(k).detached
           /\ kid[k].st # "none" => host_uv_proc_detach(k).st # "none"
<1> DEFINE d == [kid[k] EXCEPT !.detached = TRUE, !.pipes = 0]
<1>1. d \in KidRec /\ d.detached /\ d.st = kid[k].st
  BY DEF KidRec
<1>2. host_uv_proc_detach(k) = host_uv_proc_settle(d, k)
  BY DEF host_uv_proc_detach
<1> HIDE DEF d
<1> QED BY <1>1, <1>2, SettleFacts

\* A request that unloading takes, and the call that is failed for it.
LEMMA RequestTornLife ==
    ASSUME LifeInv, NEW r \in Runs, RequestTeardown(r), frame = None, pl.st # "new",
           <<"req", r>> \in Held, pend' \in Seq(Entry), Unique', Held' = Held \ {<<"req", r>>},
           UNCHANGED <<pl, reg, frame>>
    PROVE  LifeInv'
<1>0. /\ TypeOK /\ ListedOK /\ run \in [Runs -> RunRec] /\ req \in [Runs -> ReqRec] /\ RunOK(r)
  BY LifeParts
<1> DEFINE i == req[r].inv
<1>1. /\ canc' = Unset(i) /\ req' = [req EXCEPT ![r] = NoReq]
      /\ run' = Told(Lost(run, r), i)
      /\ stale' = (stale \/ Late(i)) /\ UNCHANGED <<tm, kid>>
  BY DEF RequestTeardown
<1>2. i \in Tools \cup {None} /\ (i = None \/ run[i].begun)
  BY ReqFacts
<1> HIDE DEF i
<1>3. PICK f : f = Lost(run, r)
  OBVIOUS
<1>4. /\ f \in [Runs -> RunRec] /\ f[r].co # "parked"
      /\ \A j \in Runs : /\ f[j].begun = run[j].begun /\ f[j].done = run[j].done
                         /\ f[j].mem = run[j].mem /\ f[j].timer = run[j].timer
                         /\ f[j].answers = run[j].answers
                         /\ j # r => f[j].co = run[j].co
  BY <1>0, <1>3, LostFacts
<1>5. /\ run' \in [Runs -> RunRec]
      /\ \A j \in Runs : /\ run'[j].begun = f[j].begun /\ run'[j].done = f[j].done
                         /\ run'[j].mem = f[j].mem /\ run'[j].timer = f[j].timer
                         /\ run'[j].answers = IF j = i THEN 1 ELSE f[j].answers
                         /\ run'[j].co = f[j].co
  <2>1. run' = Told(f, i)
    BY <1>1, <1>3
  <2> QED BY <1>2, <1>4, <2>1, ToldFacts
<1>6. canc' \in [Tools -> Runs \cup {None}] /\ stale' \in BOOLEAN
  <2>1. canc \in [Tools -> Runs \cup {None}]
    BY <1>0 DEF TypeOK
  <2>2. CASE i = None
    BY <1>1, <2>1, <2>2, <1>0 DEF Unset, Late, TypeOK
  <2>3. CASE i # None
    <3>1. canc' = [canc EXCEPT ![i] = None]
      BY <1>1, <2>3 DEF Unset
    <3> QED BY <1>0, <1>1, <2>1, <3>1 DEF Late, TypeOK
  <2> QED BY <2>2, <2>3
<1>7. NoReq \in ReqRec /\ req' \in [Runs -> ReqRec] /\ req'[r] = NoReq
      /\ \A j \in Runs : j # r => req'[j] = req[j]
  <2>1. NoReq \in ReqRec
    BY DEF NoReq, ReqRec
  <2> QED BY <1>0, <1>1, <2>1
<1>8. TypeOK'
  BY <1>0, <1>1, <1>5, <1>6, <1>7 DEF TypeOK
<1>9. /\ \A j \in Runs : <<"req", j>> \in Held' => Asks(j)'
      /\ \A y \in Timers : <<"timer", y>> \in Held' => tm'[y] # "off"
      /\ \A k \in Kids : <<"child", k>> \in Held' => kid'[k].st # "none"
  BY <1>0, <1>1, <1>7 DEF ListedOK, Waits, Asks
<1>10. \A j \in Runs \ Tools :
                /\ run'[j].done = run[j].done /\ run'[j].mem = run[j].mem
                /\ run'[j].timer = run[j].timer /\ run'[j].answers = run[j].answers
                /\ <<"gate", j>> \in Held' <=> <<"gate", j>> \in Held
                /\ <<"cmd", j>> \in Held' <=> <<"cmd", j>> \in Held
  BY <1>2, <1>4, <1>5, RunSets
<1>11. /\ \A j \in Runs : run'[j].begun = run[j].begun
       /\ \A j \in Runs : run'[j].co = run[j].co \/ (run[j].begun /\ run'[j].co # "parked")
  <2>1. run[r].begun
    BY <1>0 DEF ListedOK, RunOK
  <2> QED BY <1>4, <1>5, <2>1
<1>12. \A j \in Tools : ~run[j].begun => SameLife(j)
  BY <1>2, <1>4, <1>5, RunSets DEF SameLife
<1>13. \A j \in Runs : req'[j] = req[j] \/ req'[j] = NoReq
  BY <1>7
<1>14. None \notin Tools /\ None \notin Runs
  BY RunSets
<1>15. UNCHANGED <<reg, frame>> /\ pl'.st = pl.st
  OBVIOUS
<1> QED BY <1>8, <1>9, <1>10, <1>11, <1>12, <1>13, <1>14, <1>15, LoopStep
\* clm_lua_pending_teardown_all, for each kind of entry.
LEMMA TeardownLife ==
    ASSUME LifeInv, clm_lua_pending_teardown_all
    PROVE  LifeInv'
<1>0. /\ TypeOK /\ Unique /\ ListedOK /\ pl \in PlRec /\ run \in [Runs -> RunRec]
      /\ \A j \in Runs : RunOK(j)
  BY LifeParts
<1> DEFINE e == pend[1]
<1>1. /\ frame = None /\ pl.st = "tearing" /\ pend # << >> /\ pend' = Tail(pend)
      /\ UNCHANGED <<pl, reg, frame>>
      /\ \/ e[1] = "gate" /\ gate_run_teardown(e[2])
         \/ e[1] = "cmd" /\ cmd_run_teardown(e[2])
         \/ e[1] = "req" /\ RequestTeardown(e[2])
         \/ e[1] = "timer" /\ tm' = Freed(e[2]) /\ UNCHANGED <<run, req, canc, kid, stale>>
         \/ /\ e[1] = "child" /\ kid' = [kid EXCEPT ![e[2]] = host_uv_proc_detach(e[2])]
            /\ UNCHANGED <<run, req, canc, tm, stale>>
  BY DEF clm_lua_pending_teardown_all
<1>2. /\ pend' \in Seq(Entry) /\ Unique' /\ Held' = Held \ {e} /\ e \in Entry /\ e \in Held
  BY <1>0, <1>1, Popped
<1> HIDE DEF e
<1>3. PICK o : o = e[2]
  OBVIOUS
<1>4. e = <<e[1], o>> /\ Held' = Held \ {<<e[1], o>>} /\ <<e[1], o>> \in Held
  BY <1>2, <1>3, EntryKinds
<1>5. /\ e[1] = "req" => o \in Runs
      /\ e[1] = "gate" => o \in Gates
      /\ e[1] = "cmd" => o \in Cmds
      /\ e[1] = "timer" => o \in Timers
      /\ e[1] = "child" => o \in Kids
  BY <1>2, <1>3, EntryKinds
<1>6. CASE e[1] = "gate" \/ e[1] = "cmd"
  <2>1. o \in Gates \cup Cmds /\ o \in Runs /\ o \notin Tools /\ run[o] \in RunRec
    BY <1>0, <1>5, <1>6, RunSets
  <2>2. /\ UNCHANGED <<pl, reg, req, canc, tm, kid, frame, stale>>
        /\ \/ run' = [run EXCEPT ![o].timer = "off", ![o].mem = "freed", ![o].answers = @ + 1]
           \/ run' = [run EXCEPT ![o].timer = "off", ![o].mem = "freed",
                                 ![o].answers = IF @ = 0 THEN 1 ELSE @]
    BY <1>1, <1>3, <1>6 DEF gate_run_teardown, cmd_run_teardown
  <2>3. PICK v : /\ \/ v = [run[o] EXCEPT !.timer = "off", !.mem = "freed",
                                          !.answers = run[o].answers + 1]
                    \/ v = [run[o] EXCEPT !.timer = "off", !.mem = "freed",
                                          !.answers = IF run[o].answers = 0 THEN 1 ELSE run[o].answers]
                 /\ run' = [run EXCEPT ![o] = v]
    <3>1. CASE run' = [run EXCEPT ![o].timer = "off", ![o].mem = "freed", ![o].answers = @ + 1]
      <4>1. PICK v : v = [run[o] EXCEPT !.timer = "off", !.mem = "freed",
                                        !.answers = run[o].answers + 1]
        OBVIOUS
      <4>2. run' = [run EXCEPT ![o] = v]
        BY <3>1, <4>1
      <4> QED BY <4>1, <4>2
    <3>2. CASE run' = [run EXCEPT ![o].timer = "off", ![o].mem = "freed",
                                  ![o].answers = IF @ = 0 THEN 1 ELSE @]
      <4>1. PICK v : v = [run[o] EXCEPT !.timer = "off", !.mem = "freed",
                                !.answers = IF run[o].answers = 0 THEN 1 ELSE run[o].answers]
        OBVIOUS
      <4>2. run' = [run EXCEPT ![o] = v]
        BY <3>2, <4>1
      <4> QED BY <4>1, <4>2
    <3> QED BY <2>2, <3>1, <3>2
  <2>4. v \in RunRec /\ v.begun = run[o].begun /\ v.co = run[o].co /\ v.done = run[o].done /\ v.timer = "off"
    BY <2>1, <2>3, AnswerRec
  <2>5. v.mem = "freed"
    BY <2>1, <2>3 DEF RunRec
  <2>6. run[o].mem = "live" /\ run[o].begun
    BY <1>0, <1>4, <1>5, <1>6, <2>1, RunSets DEF RunOK
  <2>7. Waits(o) => ~run[o].done \/ o \in Cmds
    BY <1>0, <2>1, RunSets DEF RunOK
  <2>8. Held' = Held \ {<<IF o \in Gates THEN "gate" ELSE "cmd", o>>}
    BY <1>4, <1>5, <1>6, RunSets
  <2>9. ~(Waits(o) /\ pl.st = "up") /\ pl.st # "new"
    BY <1>1
  <2> QED BY <1>1, <1>2, <2>1, <2>2, <2>3, <2>4, <2>5, <2>6, <2>7, <2>8, <2>9, AnswerLife
<1>7. CASE e[1] = "req"
  <2>1. RequestTeardown(o) /\ o \in Runs /\ pl.st # "new"
    BY <1>1, <1>3, <1>5, <1>7
  <2> QED BY <1>1, <1>2, <1>4, <1>7, <2>1, RequestTornLife
<1>8. CASE e[1] = "timer" \/ e[1] = "child"
  <2>1. UNCHANGED <<pl, reg, run, req, canc, frame, stale>>
    BY <1>1, <1>8
  <2>2. \A y \in Timers : <<"timer", y>> \in Held' => tm'[y] # "off"
    <3>1. CASE e[1] = "timer"
      <4>1. o \in Timers /\ tm' = Freed(o) /\ tm \in [Timers -> TmSet]
        BY <1>0, <1>1, <1>3, <1>5, <3>1 DEF TypeOK, TmSet
      <4> QED BY <1>0, <1>4, <3>1, <4>1, FreedFacts DEF ListedOK
    <3>2. CASE e[1] = "child"
      BY <1>0, <1>1, <1>4, <3>2 DEF ListedOK
    <3> QED BY <1>8, <3>1, <3>2
  <2>3. \A k \in Kids : <<"child", k>> \in Held' => kid'[k].st # "none"
    <3>1. CASE e[1] = "child"
      <4>1. o \in Kids /\ kid' = [kid EXCEPT ![o] = host_uv_proc_detach(o)] /\ kid[o] \in KidRec
            /\ kid \in [Kids -> KidRec]
        BY <1>0, <1>1, <1>3, <1>5, <3>1 DEF TypeOK
      <4> QED BY <1>0, <1>4, <3>1, <4>1 DEF ListedOK
    <3>2. CASE e[1] = "timer"
      BY <1>0, <1>1, <1>4, <3>2 DEF ListedOK
    <3> QED BY <1>8, <3>1, <3>2
  <2>4. tm' \in [Timers -> TmSet] /\ kid' \in [Kids -> KidRec]
    <3>0. tm \in [Timers -> TmSet] /\ kid \in [Kids -> KidRec]
      BY <1>0 DEF TypeOK, TmSet
    <3>1. CASE e[1] = "child"
      <4>1. o \in Kids /\ kid' = [kid EXCEPT ![o] = host_uv_proc_detach(o)] /\ tm' = tm
        BY <1>1, <1>3, <1>5, <3>1
      <4>2. host_uv_proc_detach(o) \in KidRec
        BY <3>0, <4>1, DetachFacts
      <4> QED BY <3>0, <4>1, <4>2
    <3>2. CASE e[1] = "timer"
      <4>1. o \in Timers /\ tm' = Freed(o) /\ kid' = kid
        BY <1>1, <1>3, <1>5, <3>2
      <4> QED BY <3>0, <4>1, FreedFacts
    <3> QED BY <1>8, <3>1, <3>2
  <2>5. TypeOK'
    BY <1>0, <1>2, <2>1, <2>4 DEF TypeOK, TmSet
  <2>6. \A r \in Runs : /\ <<"req", r>> \in Held' <=> <<"req", r>> \in Held
                        /\ <<"gate", r>> \in Held' <=> <<"gate", r>> \in Held
                        /\ <<"cmd", r>> \in Held' <=> <<"cmd", r>> \in Held
    BY <1>4, <1>8
  <2>7. NewOK'
    BY <1>1, <2>1 DEF NewOK
  <2> QED BY <1>1, <1>2, <2>1, <2>2, <2>3, <2>5, <2>6, <2>7, QuietStep
<1> QED BY <1>1, <1>6, <1>7, <1>8

LEMMA EnvFreeLife ==
    ASSUME LifeInv, clm_lua_env_free
    PROVE  LifeInv'
<1>0. /\ TypeOK /\ Unique /\ ListedOK /\ pl \in PlRec /\ run \in [Runs -> RunRec]
      /\ \A j \in Runs : RunOK(j)
  BY LifeParts
<1>1. /\ frame = None /\ pl.st = "tearing" /\ pend = << >> /\ pl' = [pl EXCEPT !.st = "freed"]
      /\ run' = [r \in Runs |-> [run[r] EXCEPT !.rooted = FALSE]]
      /\ UNCHANGED <<reg, pend, req, canc, tm, kid, frame, stale>>
  BY DEF clm_lua_env_free
<1>2. pl' \in PlRec /\ pl'.st = "freed"
  BY <1>0, <1>1 DEF PlRec
<1>3. ASSUME NEW j \in Runs
      PROVE  /\ run'[j] \in RunRec /\ run'[j].begun = run[j].begun /\ run'[j].done = run[j].done
             /\ run'[j].mem = run[j].mem /\ run'[j].timer = run[j].timer
             /\ run'[j].answers = run[j].answers /\ run'[j].co = run[j].co
  <2>1. run[j] \in RunRec /\ run'[j] = [run[j] EXCEPT !.rooted = FALSE]
    BY <1>0, <1>1
  <2> QED BY <2>1 DEF RunRec
<1>4. run' \in [Runs -> RunRec]
  <2>1. run' = [r \in Runs |-> run'[r]]
    BY <1>1
  <2> QED BY <1>3, <2>1
<1>5. pend' \in Seq(Entry) /\ Unique' /\ Held' = Held
  BY <1>0, <1>1, SameList
<1>6. TypeOK'
  BY <1>0, <1>1, <1>2, <1>4, <1>5 DEF TypeOK
<1>7. \A j \in Runs : run'[j].begun = run[j].begun /\ run'[j].co = run[j].co
  BY <1>3
<1>8. \A j \in Tools : ~run[j].begun => SameLife(j)
  BY <1>3, RunSets DEF SameLife
<1>9. /\ \A r \in Runs : <<"req", r>> \in Held' => Asks(r)'
      /\ \A y \in Timers : <<"timer", y>> \in Held' => tm'[y] # "off"
      /\ \A k \in Kids : <<"child", k>> \in Held' => kid'[k].st # "none"
  BY <1>0, <1>1, <1>5 DEF ListedOK, Waits, Asks
<1>10. \A j \in Runs \ Tools :
                /\ run'[j].done = run[j].done /\ run'[j].mem = run[j].mem
                /\ run'[j].timer = run[j].timer /\ run'[j].answers = run[j].answers
                /\ <<"gate", j>> \in Held' <=> <<"gate", j>> \in Held
                /\ <<"cmd", j>> \in Held' <=> <<"cmd", j>> \in Held
  BY <1>3, <1>5
<1>11. None \notin Tools /\ None \notin Runs
  BY RunSets
<1>12. \A j \in Runs : req'[j] = req[j]
  BY <1>1
<1>13. UNCHANGED <<reg, frame>> /\ pl.st # "new" /\ pl'.st = "freed"
  BY <1>1, <1>2
<1> QED BY <1>1, <1>5, <1>6, <1>7, <1>8, <1>9, <1>10, <1>11, <1>12, <1>13, LoopStep
-----------------------------------------------------------------------------
(* LifeInv is an invariant of every plugin, whatever its code does.        *)

LEMMA InitLife == Init => LifeInv
<1> SUFFICES ASSUME Init PROVE LifeInv
  OBVIOUS
<1>1. NoRun \in RunRec /\ NoReq \in ReqRec /\ NoKid \in KidRec
  BY DEF NoRun, RunRec, NoReq, ReqRec, NoKid, KidRec
<1>2. pl \in PlRec
  BY DEF Init, PlRec
<1>3. pend \in Seq(Entry) /\ Held = {} /\ Unique
  BY DEF Init, Held, Unique
<1>4. TypeOK
  BY <1>1, <1>2, <1>3 DEF Init, TypeOK
<1>5. NewOK /\ ListedOK
  BY <1>3 DEF Init, NewOK, ListedOK, NoKid
<1>6. BegunOK
  BY RunSets DEF Init, BegunOK, NoReq
<1>7. ASSUME NEW r \in Runs PROVE RunOK(r)
  <2>1. run[r] = NoRun /\ req[r] = NoReq /\ frame = None
    BY DEF Init
  <2> QED BY <1>3, <2>1 DEF RunOK, On, Waits, Asks, NoRun, NoReq
<1> QED BY <1>3, <1>4, <1>5, <1>6, <1>7 DEF LifeInv

LEMMA StillLife ==
    ASSUME LifeInv, UNCHANGED vars
    PROVE  LifeInv'
<1>1. UNCHANGED <<pl, reg, pend, run, req, canc, tm, kid, frame, stale>>
  BY DEF vars
<1>2. pl' \in PlRec
  BY <1>1, LifeParts
<1>3. pl'.st = "new" => pl.st = "new" /\ pl'.tool = pl.tool /\ frame' = frame
  BY <1>1
<1>4. pl'.st = "up" => pl.st \in {"new", "up"}
  BY <1>1
<1>5. frame' = frame /\ (frame # None => pl'.st = pl.st)
  BY <1>1
<1> QED BY <1>1, <1>2, <1>3, <1>4, <1>5, PlStep

LEMMA NextLife ==
    ASSUME LifeInv, [Next]_vars
    PROVE  LifeInv'
<1>1. CASE Skipped \/ load_one_plugin \/ clm_lua_plugin_callback \/ clm_lua_hook_drop_all
  BY <1>1, LoadLife
<1>2. ASSUME NEW t \in Tools, lua_tool_invoke(t) \/ lua_tool_invoke_fails(t)
                              \/ ToolTimeout(t) \/ ToolAbandoned(t)
      PROVE  LifeInv'
  BY <1>2, InvokeLife, InvokeFailsLife, TimeoutLife, AbandonedLife
<1>3. ASSUME NEW g \in Gates, lua_pre_tool_hook(g) \/ gate_timer_cb(g) PROVE LifeInv'
  BY <1>3, HookLife, AnswersLife
<1>4. ASSUME NEW c \in Cmds, clm_lua_hook_command_run(c) \/ cmd_answer_cb(c) \/ cmd_timeout_cb(c)
      PROVE  LifeInv'
  BY <1>4, CommandLife, AnswersLife
<1>5. CASE Plugin
  <2>1. CASE \E t \in Tools : lua_ctx_complete(t) \/ lua_ctx_args_raw(t)
    BY <2>1, CompleteLife, ArgsLife
  <2>2. CASE lua_ctx_http_get \/ lua_ctx_http_post \/ lua_clm_sleep \/ lua_clm_exec
    BY <2>2, WaitsLife
  <2>3. CASE \E x \in Timers : lua_clm_after(x) \/ lua_clm_notify(x) \/ lua_timer_cancel(x)
    BY <2>3, TimersLife
  <2>4. CASE \E k \in Kids : lua_clm_spawn(k)
    BY <2>4, KidsLife
  <2>5. CASE lua_clm_tool_register \/ lua_clm_tool_remove \/ lua_clm_on
             \/ lua_clm_command_register \/ lua_clm_command_remove
    BY <2>5, RegistersLife
  <2> QED BY <1>5, <2>1, <2>2, <2>3, <2>4, <2>5 DEF Plugin
<1>6. CASE Ends
  BY <1>6, ReturnsLife, RaisesLife, CallbackEndsLife, LoadLife DEF Ends
<1>7. ASSUME NEW r \in Runs, Completion(r) \/ lua_exec_done(r) PROVE LifeInv'
  BY <1>7, CompletionsLife
<1>8. ASSUME NEW x \in Timers, lua_timer_fire(x) PROVE LifeInv'
  BY <1>8, TimersLife
<1>9. ASSUME NEW k \in Kids, host_uv_proc_read(k) \/ host_uv_proc_on_exit(k) PROVE LifeInv'
  BY <1>9, KidsLife
<1>10. CASE clm_lua_pending_teardown_all \/ clm_lua_env_free
  BY <1>10, TeardownLife, EnvFreeLife
<1>11. CASE UNCHANGED vars
  BY <1>11, StillLife
<1> QED BY <1>1, <1>2, <1>3, <1>4, <1>5, <1>6, <1>7, <1>8, <1>9, <1>10, <1>11 DEF Next

\* Whatever the plugin's code does, the structs of its hooks and commands
\* outlive the coroutines that point to them, and a timer is armed only for
\* an answer that is due (gate_run, cmd_run, clm_lua_pending_add/_remove).
THEOREM LifeSafe == Spec => []LifeInv
<1>1. LifeInv /\ [Next]_vars => LifeInv'
  BY NextLife
<1> QED BY <1>1, InitLife, PTL DEF Spec

-----------------------------------------------------------------------------
(* Every tool call, hook run and command run is answered once.             *)

OneAnswer == \A r \in Runs : run[r].answers \in {0, 1}

\* At most r begins, or gets its answer.
AnswerStep(r) ==
    /\ \A j \in Runs : j # r => run'[j].begun = run[j].begun /\ run'[j].answers = run[j].answers
    /\ r \in Runs => /\ run[r].begun => run'[r].begun
                     /\ \/ run'[r].answers = run[r].answers
                        \/ run'[r].begun /\ run'[r].answers = 1

LEMMA NoAnswer ==
    ASSUME \A j \in Runs : run'[j].begun = run[j].begun /\ run'[j].answers = run[j].answers
    PROVE  AnswerStep(None)
  BY RunSets DEF AnswerStep

LEMMA ToldStep ==
    ASSUME NEW rn \in [Runs -> RunRec], NEW i \in Tools \cup {None}, i = None \/ run[i].begun,
           \A j \in Runs : rn[j].begun = run[j].begun /\ rn[j].answers = run[j].answers,
           run' = Told(rn, i)
    PROVE  AnswerStep(i)
<1>1. \A j \in Runs : /\ run'[j].begun = rn[j].begun
                      /\ run'[j].answers = IF j = i THEN 1 ELSE rn[j].answers
  BY ToldFacts
<1> QED BY <1>1, RunSets DEF AnswerStep

LEMMA EntriesAnswer ==
    ASSUME LifeInv, NEW x,
           \/ x \in Tools /\ (lua_tool_invoke(x) \/ lua_tool_invoke_fails(x))
           \/ x \in Gates /\ lua_pre_tool_hook(x)
           \/ x \in Cmds /\ clm_lua_hook_command_run(x)
    PROVE  AnswerStep(x)
<1>0. run \in [Runs -> RunRec] /\ x \in Runs /\ run[x] \in RunRec
  BY LifeParts, RunSets
<1>1. CASE x \in Tools /\ lua_tool_invoke(x)
  <2>1. Enter("invoke", x, run)
    BY <1>1 DEF lua_tool_invoke
  <2>2. run'[x].begun /\ run'[x].answers = run[x].answers /\ \A j \in Runs : j # x => run'[j] = run[j]
    BY <1>0, <2>1, EnterFacts
  <2> QED BY <2>2 DEF AnswerStep
<1>2. CASE x \in Tools /\ lua_tool_invoke_fails(x)
  <2>1. PICK f : f = [run EXCEPT ![x].begun = TRUE]
    OBVIOUS
  <2>2. run' = Told(f, x) /\ [run[x] EXCEPT !.begun = TRUE] \in RunRec
    BY <1>0, <1>2, <2>1 DEF lua_tool_invoke_fails, RunRec
  <2>3. f \in [Runs -> RunRec] /\ f[x].begun /\ \A j \in Runs : j # x => f[j] = run[j]
    BY <1>0, <2>1, <2>2
  <2>4. \A j \in Runs : /\ run'[j].begun = f[j].begun
                        /\ run'[j].answers = IF j = x THEN 1 ELSE f[j].answers
    BY <1>2, <2>2, <2>3, ToldFacts
  <2> QED BY <1>0, <2>3, <2>4 DEF AnswerStep
<1>3. CASE x \in Gates /\ lua_pre_tool_hook(x)
  <2>1. CASE pl.dead
    <3>1. run' = [run EXCEPT ![x].begun = TRUE, ![x].answers = 1]
      BY <1>3, <2>1 DEF lua_pre_tool_hook
    <3>2. run'[x] = [run[x] EXCEPT !.begun = TRUE, !.answers = 1]
          /\ \A j \in Runs : j # x => run'[j] = run[j]
      BY <1>0, <3>1
    <3>3. run'[x].begun /\ run'[x].answers = 1
      BY <1>0, <3>2 DEF RunRec
    <3> QED BY <3>2, <3>3 DEF AnswerStep
  <2>2. CASE ~pl.dead
    <3>1. PICK f : f = [run EXCEPT ![x].mem = "live"]
      OBVIOUS
    <3>2. Enter("hook", x, f) /\ [run[x] EXCEPT !.mem = "live"] \in RunRec
          /\ [run[x] EXCEPT !.mem = "live"].answers = run[x].answers
      BY <1>0, <1>3, <2>2, <3>1 DEF lua_pre_tool_hook, RunRec
    <3>3. f \in [Runs -> RunRec] /\ f[x].answers = run[x].answers
          /\ \A j \in Runs : j # x => f[j] = run[j]
      BY <1>0, <3>1, <3>2
    <3>4. run'[x].begun /\ run'[x].answers = f[x].answers /\ \A j \in Runs : j # x => run'[j] = f[j]
      BY <1>0, <3>2, <3>3, EnterFacts
    <3> QED BY <3>3, <3>4 DEF AnswerStep
  <2> QED BY <2>1, <2>2
<1>4. CASE x \in Cmds /\ clm_lua_hook_command_run(x)
  <2>1. PICK f : f = [run EXCEPT ![x].mem = "live", ![x].timer = "wall"]
    OBVIOUS
  <2>2. Enter("command", x, f) /\ [run[x] EXCEPT !.mem = "live", !.timer = "wall"] \in RunRec
        /\ [run[x] EXCEPT !.mem = "live", !.timer = "wall"].answers = run[x].answers
    BY <1>0, <1>4, <2>1 DEF clm_lua_hook_command_run, RunRec
  <2>3. f \in [Runs -> RunRec] /\ f[x].answers = run[x].answers
        /\ \A j \in Runs : j # x => f[j] = run[j]
    BY <1>0, <2>1, <2>2
  <2>4. run'[x].begun /\ run'[x].answers = f[x].answers /\ \A j \in Runs : j # x => run'[j] = f[j]
    BY <1>0, <2>2, <2>3, EnterFacts
  <2> QED BY <2>3, <2>4 DEF AnswerStep
<1> QED BY <1>1, <1>2, <1>3, <1>4
LEMMA PluginAnswer ==
    ASSUME LifeInv, Plugin
    PROVE  AnswerStep(None) \/ \E t \in Tools : AnswerStep(t)
<1>0. run \in [Runs -> RunRec] /\ \A j \in Runs : RunOK(j)
  BY LifeParts
<1>1. CASE \E t \in Tools : lua_ctx_complete(t)
  <2>1. PICK t \in Tools : /\ run[t].co # "none"
                           /\ run' = [Told(run, t) EXCEPT ![t].done = TRUE]
    BY <1>1 DEF lua_ctx_complete, UsesCtx
  <2>2. PICK f : f = Told(run, t)
    OBVIOUS
  <2>3. /\ f \in [Runs -> RunRec] /\ t \in Runs
        /\ \A j \in Runs : /\ f[j].begun = run[j].begun
                           /\ f[j].answers = IF j = t THEN 1 ELSE run[j].answers
    BY <1>0, <2>2, ToldFacts, RunSets
  <2>4. run'[t] = [f[t] EXCEPT !.done = TRUE] /\ f[t] \in RunRec
        /\ \A j \in Runs : j # t => run'[j] = f[j]
    BY <2>1, <2>2, <2>3
  <2>5. run'[t].begun = f[t].begun /\ run'[t].answers = f[t].answers
    BY <2>4 DEF RunRec
  <2>6. run[t].begun
    BY <1>0, <2>1, <2>3 DEF RunOK
  <2>7. AnswerStep(t)
    BY <2>3, <2>4, <2>5, <2>6 DEF AnswerStep
  <2> QED BY <2>7
<1>2. CASE run' = run
  BY <1>2, NoAnswer
<1>3. CASE lua_ctx_http_get \/ lua_ctx_http_post \/ lua_clm_sleep \/ lua_clm_exec
  <2>1. frame.run \in Runs /\ (run' = run \/ run' = [run EXCEPT ![frame.run].co = "parked"])
    BY <1>3 DEF lua_ctx_http_get, lua_ctx_http_post, lua_clm_sleep, lua_clm_exec, Yields, MayYield
  <2>2. PICK r \in Runs : run' = run \/ run' = [run EXCEPT ![r].co = "parked"]
    BY <2>1
  <2>3. CASE run' = [run EXCEPT ![r].co = "parked"]
    BY <1>0, <2>3, CoEdit, NoAnswer
  <2> QED BY <1>2, <2>2, <2>3
<1>4. CASE ~(\/ \E t \in Tools : lua_ctx_complete(t)
             \/ lua_ctx_http_get \/ lua_ctx_http_post \/ lua_clm_sleep \/ lua_clm_exec)
  <2>1. run' = run
    BY <1>4 DEF Plugin, lua_ctx_args_raw, lua_clm_after, lua_clm_notify, lua_timer_start, lua_timer_cancel, lua_clm_spawn,
         lua_clm_tool_register, lua_clm_tool_remove, lua_clm_on, lua_clm_command_register,
         lua_clm_command_remove
  <2> QED BY <1>2, <2>1
<1> QED BY <1>1, <1>3, <1>4

LEMMA EndsAnswer ==
    ASSUME LifeInv, Ends
    PROVE  AnswerStep(None) \/ \E t \in Tools : AnswerStep(t)
<1>0. run \in [Runs -> RunRec] /\ frame \in Frames \cup {None} /\ BegunOK /\ \A j \in Runs : RunOK(j)
  BY LifeParts
<1>1. CASE CallbackEnds \/ LoadFails
  <2>1. run' = run
    BY <1>1 DEF CallbackEnds, LoadFails
  <2> QED BY <2>1, NoAnswer
<1>2. CASE Returns
  <2>1. PICK r \in Runs : r = frame.run
    BY <1>2 DEF Returns
  <2> DEFINE i == IF r \in Tools /\ ~run[r].done /\ frame.by = "invoke" THEN r ELSE None
             f == Finish(run, r)
             g == Released(f, r, frame.ref)
  <2>2. run' = Told(g, i)
    BY <1>2, <2>1 DEF Returns
  <2>3. run[r].begun
    <3>1. On(r)
      BY <1>2, <2>1 DEF Returns, On
    <3> QED BY <1>0, <3>1 DEF RunOK
  <2>4. i \in Tools \cup {None} /\ (i = None \/ run[i].begun)
    BY <2>3
  <2>5. f \in [Runs -> RunRec] /\ \A j \in Runs : f[j].begun = run[j].begun /\ f[j].answers = run[j].answers
    BY <1>0, FinishFacts
  <2> HIDE DEF f, i
  <2>6. g \in [Runs -> RunRec] /\ \A j \in Runs : g[j].begun = f[j].begun /\ g[j].answers = f[j].answers
    BY <2>5, ReleasedFacts
  <2> HIDE DEF g
  <2>7. \A j \in Runs : g[j].begun = run[j].begun /\ g[j].answers = run[j].answers
    BY <2>5, <2>6
  <2>8. AnswerStep(i)
    BY <2>2, <2>4, <2>6, <2>7, ToldStep
  <2> QED BY <2>4, <2>8
<1>3. CASE Raises
  <2>1. PICK r \in Tools : r = frame.run
    BY <1>3 DEF Raises
  <2> DEFINE i == IF frame.by = "invoke" /\ run[r].done THEN None ELSE frame.inv
             g == Released(run, r, frame.ref)
  <2>2. run' = Told(g, i)
    BY <1>3, <2>1 DEF Raises
  <2>3. i \in Tools \cup {None} /\ (i = None \/ run[i].begun)
    <3>1. frame.inv \in Tools \cup {None} /\ (frame.inv = None \/ run[frame.inv].begun)
      BY <1>0, <1>3 DEF Frames, BegunOK, Raises
    <3> QED BY <3>1
  <2> HIDE DEF i
  <2>4. g \in [Runs -> RunRec] /\ \A j \in Runs : g[j].begun = run[j].begun /\ g[j].answers = run[j].answers
    BY <1>0, ReleasedFacts, RunSets
  <2> HIDE DEF g
  <2>5. AnswerStep(i)
    BY <2>2, <2>3, <2>4, ToldStep
  <2> QED BY <2>3, <2>5
<1> QED BY <1>1, <1>2, <1>3 DEF Ends

LEMMA CompletionAnswer ==
    ASSUME LifeInv, NEW r \in Runs, Completion(r) \/ lua_exec_done(r)
    PROVE  AnswerStep(None) \/ \E t \in Tools : AnswerStep(t)
<1>0. run \in [Runs -> RunRec]
  BY LifeParts
<1>1. \/ run' = [run EXCEPT ![r].co = "running"]
      \/ run' = Lost(run, r)
      \/ run' = Told(Lost(run, r), req[r].inv)
      \/ run' = Released(run, r, req[r].ref)
  BY DEF Completion, lua_http_on_success, lua_http_on_error, lua_sleep_timer_cb, lua_exec_done, Resume,
         SkipsResume
<1>2. CASE run' = [run EXCEPT ![r].co = "running"]
  BY <1>0, <1>2, CoEdit, NoAnswer
<1>3. CASE run' = Lost(run, r)
  BY <1>0, <1>3, LostFacts, NoAnswer
<1>4. CASE run' = Told(Lost(run, r), req[r].inv)
  <2>1. PICK f : f = Lost(run, r)
    OBVIOUS
  <2>2. f \in [Runs -> RunRec] /\ \A j \in Runs : f[j].begun = run[j].begun /\ f[j].answers = run[j].answers
    BY <1>0, <2>1, LostFacts
  <2>3. run' = Told(f, req[r].inv) /\ req[r].inv \in Tools \cup {None}
        /\ (req[r].inv = None \/ run[req[r].inv].begun)
    BY <1>4, <2>1, ReqFacts
  <2>4. AnswerStep(req[r].inv)
    BY <2>2, <2>3, ToldStep
  <2> QED BY <2>3, <2>4
<1>5. CASE run' = Released(run, r, req[r].ref)
  BY <1>0, <1>5, ReleasedFacts, NoAnswer
<1> QED BY <1>1, <1>2, <1>3, <1>4, <1>5

\* The timeout that calls inv->cancel, and the one that finds none.
LEMMA TimeoutAnswer ==
    ASSUME LifeInv, NEW t \in Tools, ToolTimeout(t) \/ ToolAbandoned(t)
    PROVE  AnswerStep(t)
<1>0. run \in [Runs -> RunRec] /\ t \in Runs /\ TypeOK
  BY LifeParts, RunSets
<1>1. CASE ToolAbandoned(t)
  <2>1. run[t].begun /\ run' = [run EXCEPT ![t].answers = 1, ![t].spent = TRUE] /\ run[t] \in RunRec
    BY <1>0, <1>1 DEF ToolAbandoned
  <2> DEFINE u == [run[t] EXCEPT !.answers = 1, !.spent = TRUE]
  <2>4. u.begun = run[t].begun /\ u.answers = 1
    BY <2>1 DEF RunRec
  <2>2. run'[t] = u /\ \A j \in Runs : j # t => run'[j] = run[j]
    BY <1>0, <2>1
  <2> HIDE DEF u
  <2>3. run'[t].begun = run[t].begun /\ run'[t].answers = 1
    BY <2>2, <2>4
  <2> QED BY <2>1, <2>2, <2>3 DEF AnswerStep
<1>2. CASE ToolTimeout(t)
  <2>1. PICK r \in Runs :
            /\ run[t].begun
            /\ \/ run' = Told([Lost(run, r) EXCEPT ![t].spent = TRUE], t)
               \/ run' = Told(Released([run EXCEPT ![t].spent = TRUE], r, req[r].ref), t)
               \/ run' = [run EXCEPT ![r].co = "running", ![t].spent = TRUE]
               \/ run' = Released([run EXCEPT ![t].spent = TRUE], r, req[r].ref)
    <3>1. canc[t] \in Runs
      BY <1>0, <1>2 DEF ToolTimeout, TypeOK
    <3>2. /\ run[t].begun
          /\ \/ lua_sleep_cancel(canc[t], t)
             \/ lua_exec_cancel(canc[t], t)
             \/ lua_http_cancel(canc[t], t)
      BY <1>2 DEF ToolTimeout
    <3> QED BY <3>1, <3>2 DEF lua_sleep_cancel, lua_exec_cancel, lua_http_cancel, SkipsResume
  <2>2. PICK s : Spends(run, t, s)
    BY DEF Spends
  <2>3. s \in [Runs -> RunRec] /\ \A j \in Runs : s[j].begun = run[j].begun /\ s[j].answers = run[j].answers
    BY <1>0, <2>2, SpentEdit
  <2>4. PICK k : k = Released(s, r, req[r].ref)
    OBVIOUS
  <2>5. k \in [Runs -> RunRec] /\ \A j \in Runs : k[j].begun = run[j].begun /\ k[j].answers = run[j].answers
    BY <2>3, <2>4, ReleasedFacts
  <2>6. CASE run' = Told([Lost(run, r) EXCEPT ![t].spent = TRUE], t)
    <3>1. PICK f : f = Lost(run, r)
      OBVIOUS
    <3>2. f \in [Runs -> RunRec] /\ \A j \in Runs : f[j].begun = run[j].begun /\ f[j].answers = run[j].answers
      BY <1>0, <3>1, LostFacts
    <3>3. PICK h : Spends(f, t, h)
      BY DEF Spends
    <3>4. h \in [Runs -> RunRec] /\ \A j \in Runs : h[j].begun = run[j].begun /\ h[j].answers = run[j].answers
      BY <1>0, <3>2, <3>3, SpentEdit
    <3>5. run' = Told(h, t)
      BY <2>6, <3>1, <3>3 DEF Spends
    <3> QED BY <2>1, <3>4, <3>5, ToldStep
  <2>7. CASE run' = Told(Released([run EXCEPT ![t].spent = TRUE], r, req[r].ref), t)
    <3>1. run' = Told(k, t)
      BY <2>2, <2>4, <2>7 DEF Spends
    <3> QED BY <2>1, <2>5, <3>1, ToldStep
  <2>8. CASE run' = [run EXCEPT ![r].co = "running", ![t].spent = TRUE]
    <3>1. PICK g : g = [run EXCEPT ![r].co = "running"]
      OBVIOUS
    <3>2. g \in [Runs -> RunRec] /\ \A j \in Runs : g[j].begun = run[j].begun /\ g[j].answers = run[j].answers
      BY <1>0, <3>1, CoEdit
    <3>3. Spends(g, t, run')
      BY <2>8, <3>1 DEF Spends
    <3>4. \A j \in Runs : run'[j].begun = run[j].begun /\ run'[j].answers = run[j].answers
      BY <1>0, <3>2, <3>3, SpentEdit
    <3> QED BY <3>4 DEF AnswerStep
  <2>9. CASE run' = Released([run EXCEPT ![t].spent = TRUE], r, req[r].ref)
    <3>1. run' = k
      BY <2>2, <2>4, <2>9 DEF Spends
    <3> QED BY <2>5, <3>1 DEF AnswerStep
  <2> QED BY <2>1, <2>6, <2>7, <2>8, <2>9
<1> QED BY <1>1, <1>2
\* The answers from timers, and those that unloading gives.
LEMMA LoopAnswer ==
    ASSUME LifeInv,
           \/ \E g \in Gates : gate_timer_cb(g)
           \/ \E c \in Cmds : cmd_answer_cb(c) \/ cmd_timeout_cb(c)
           \/ clm_lua_pending_teardown_all \/ clm_lua_env_free
    PROVE  AnswerStep(None) \/ \E r \in Runs : AnswerStep(r)
<1>0. /\ TypeOK /\ Unique /\ run \in [Runs -> RunRec] /\ \A j \in Runs : RunOK(j)
  BY LifeParts
<1>1. ASSUME NEW x \in Runs, x \notin Tools, run[x].begun, NEW v, run' = [run EXCEPT ![x] = v],
             v.begun = run[x].begun, v.answers = run[x].answers \/ v.answers = 1
      PROVE  AnswerStep(x)
  <2>1. run'[x] = v /\ \A j \in Runs : j # x => run'[j] = run[j]
    BY <1>0, <1>1
  <2> QED BY <1>1, <2>1 DEF AnswerStep
<1>2. ASSUME NEW x \in Runs, x \notin Tools, run[x].timer # "off" \/ (x \in Gates /\ run[x].mem = "live")
      PROVE  run[x].begun /\ run[x].answers = 0
  BY <1>0, <1>2 DEF RunOK
<1>3. CASE \/ \E g \in Gates : gate_timer_cb(g)
           \/ \E c \in Cmds : cmd_answer_cb(c) \/ cmd_timeout_cb(c)
  <2>1. PICK x \in Runs : /\ x \notin Tools /\ run[x].timer # "off"
                          /\ gate_timer_cb(x) \/ cmd_answer_cb(x) \/ cmd_timeout_cb(x)
    BY <1>3, RunSets DEF gate_timer_cb, cmd_answer_cb, cmd_timeout_cb
  <2>2. run[x].begun /\ run[x].answers = 0 /\ run[x] \in RunRec
    BY <1>0, <1>2, <2>1
  <2>3. PICK v : /\ \/ v = [run[x] EXCEPT !.timer = "off", !.mem = "freed", !.answers = run[x].answers + 1]
                    \/ v = [run[x] EXCEPT !.timer = "off", !.answers = run[x].answers + 1]
                 /\ run' = [run EXCEPT ![x] = v]
    <3>1. CASE gate_timer_cb(x) \/ cmd_answer_cb(x)
      <4>1. PICK v : v = [run[x] EXCEPT !.timer = "off", !.mem = "freed", !.answers = run[x].answers + 1]
        OBVIOUS
      <4>2. run' = [run EXCEPT ![x] = v]
        BY <3>1, <4>1 DEF gate_timer_cb, cmd_answer_cb
      <4> QED BY <4>1, <4>2
    <3>2. CASE cmd_timeout_cb(x)
      <4>1. PICK v : v = [run[x] EXCEPT !.timer = "off", !.answers = run[x].answers + 1]
        OBVIOUS
      <4>2. run' = [run EXCEPT ![x] = v]
        BY <3>2, <4>1 DEF cmd_timeout_cb
      <4> QED BY <4>1, <4>2
    <3> QED BY <2>1, <3>1, <3>2
  <2>4. v.begun = run[x].begun /\ v.answers \in {run[x].answers, run[x].answers + 1}
    BY <2>2, <2>3, AnswerRec
  <2>5. v.answers = run[x].answers \/ v.answers = 1
    BY <2>2, <2>4
  <2> QED BY <1>1, <2>1, <2>2, <2>3, <2>4, <2>5
<1>4. CASE clm_lua_env_free
  <2>1. ASSUME NEW j \in Runs PROVE run'[j].begun = run[j].begun /\ run'[j].answers = run[j].answers
    <3>1. run[j] \in RunRec /\ run'[j] = [run[j] EXCEPT !.rooted = FALSE]
      BY <1>0, <1>4 DEF clm_lua_env_free
    <3> QED BY <3>1 DEF RunRec
  <2> QED BY <2>1, NoAnswer
<1>5. CASE clm_lua_pending_teardown_all
  <2>1. PICK o : o = pend[1][2]
    OBVIOUS
  <2>2. pend[1] \in Held /\ pend[1] \in Entry
    <3>1. pend # << >> /\ pend' = Tail(pend)
      BY <1>5 DEF clm_lua_pending_teardown_all
    <3> QED BY <1>0, <3>1, Popped
  <2>3. pend[1] = <<pend[1][1], o>>
    BY <2>1, <2>2, EntryKinds
  <2>4. \/ pend[1][1] = "gate" /\ gate_run_teardown(o) /\ o \in Gates
        \/ pend[1][1] = "cmd" /\ cmd_run_teardown(o) /\ o \in Cmds
        \/ pend[1][1] = "req" /\ RequestTeardown(o) /\ o \in Runs
        \/ run' = run
    BY <1>5, <2>1, <2>2, EntryKinds DEF clm_lua_pending_teardown_all
  <2>5. CASE run' = run
    BY <2>5, NoAnswer
  <2>6. CASE pend[1][1] = "gate" /\ gate_run_teardown(o) /\ o \in Gates
    <3>1. o \in Runs /\ o \notin Tools /\ run[o].mem = "live" /\ run[o] \in RunRec
      BY <1>0, <2>2, <2>3, <2>6, RunSets DEF RunOK
    <3>2. run[o].begun /\ run[o].answers = 0
      BY <1>2, <2>6, <3>1
    <3>3. PICK v : v = [run[o] EXCEPT !.timer = "off", !.mem = "freed", !.answers = run[o].answers + 1]
      OBVIOUS
    <3>4. run' = [run EXCEPT ![o] = v]
      BY <2>6, <3>3 DEF gate_run_teardown
    <3>5. v.begun = run[o].begun /\ v.answers \in {run[o].answers, run[o].answers + 1}
      BY <3>1, <3>3, AnswerRec
    <3>6. v.answers = run[o].answers \/ v.answers = 1
      BY <3>2, <3>5
    <3> QED BY <1>1, <3>1, <3>2, <3>4, <3>5, <3>6
  <2>7. CASE pend[1][1] = "cmd" /\ cmd_run_teardown(o) /\ o \in Cmds
    <3>1. o \in Runs /\ o \notin Tools /\ run[o].mem = "live" /\ run[o] \in RunRec
      BY <1>0, <2>2, <2>3, <2>7, RunSets DEF RunOK
    <3>2. run[o].begun
      BY <1>0, <3>1 DEF RunOK
    <3>3. PICK v : v = [run[o] EXCEPT !.timer = "off", !.mem = "freed",
                                      !.answers = IF run[o].answers = 0 THEN 1 ELSE run[o].answers]
      OBVIOUS
    <3>4. run' = [run EXCEPT ![o] = v]
      BY <2>7, <3>3 DEF cmd_run_teardown
    <3>5. v.begun = run[o].begun
      BY <3>1, <3>3 DEF RunRec
    <3>6. v.answers = run[o].answers \/ v.answers = 1
      BY <3>1, <3>3 DEF RunRec
    <3> QED BY <1>1, <3>1, <3>2, <3>4, <3>5, <3>6
  <2>8. CASE pend[1][1] = "req" /\ RequestTeardown(o) /\ o \in Runs
    <3>1. PICK f : f = Lost(run, o)
      OBVIOUS
    <3>2. f \in [Runs -> RunRec] /\ \A j \in Runs : f[j].begun = run[j].begun /\ f[j].answers = run[j].answers
      BY <1>0, <2>8, <3>1, LostFacts
    <3>3. run' = Told(f, req[o].inv) /\ req[o].inv \in Tools \cup {None}
          /\ (req[o].inv = None \/ run[req[o].inv].begun)
      BY <2>8, <3>1, ReqFacts DEF RequestTeardown
    <3>4. AnswerStep(req[o].inv)
      BY <3>2, <3>3, ToldStep
    <3> QED BY <3>3, <3>4, RunSets
  <2> QED BY <2>4, <2>5, <2>6, <2>7, <2>8
<1> QED BY <1>3, <1>4, <1>5
LEMMA NextAnswer ==
    ASSUME LifeInv, [Next]_vars
    PROVE  AnswerStep(None) \/ \E r \in Runs : AnswerStep(r)
<1>0. Tools \subseteq Runs
  BY RunSets
<1>1. CASE run' = run
  BY <1>1, NoAnswer
<1>2. CASE \E t \in Tools : lua_tool_invoke(t) \/ lua_tool_invoke_fails(t)
                            \/ ToolTimeout(t) \/ ToolAbandoned(t)
  BY <1>0, <1>2, EntriesAnswer, TimeoutAnswer
<1>3. CASE \/ \E g \in Gates : lua_pre_tool_hook(g)
           \/ \E c \in Cmds : clm_lua_hook_command_run(c)
  BY <1>3, EntriesAnswer, RunSets
<1>4. CASE \/ \E g \in Gates : gate_timer_cb(g)
           \/ \E c \in Cmds : cmd_answer_cb(c) \/ cmd_timeout_cb(c)
           \/ clm_lua_pending_teardown_all \/ clm_lua_env_free
  BY <1>4, LoopAnswer
<1>5. CASE Plugin
  BY <1>0, <1>5, PluginAnswer
<1>6. CASE Ends
  BY <1>0, <1>6, EndsAnswer
<1>7. CASE \E r \in Runs : Completion(r) \/ lua_exec_done(r)
  BY <1>0, <1>7, CompletionAnswer
<1>8. CASE \/ Skipped \/ load_one_plugin \/ clm_lua_plugin_callback \/ clm_lua_hook_drop_all
           \/ \E x \in Timers : lua_timer_fire(x)
           \/ \E k \in Kids : host_uv_proc_read(k) \/ host_uv_proc_on_exit(k)
  <2>1. run' = run
    BY <1>8 DEF Skipped, load_one_plugin, clm_lua_plugin_callback, clm_lua_hook_drop_all,
         lua_timer_fire, host_uv_proc_read, host_uv_proc_on_exit, Settles
  <2> QED BY <1>1, <2>1
<1>9. CASE UNCHANGED vars
  BY <1>1, <1>9 DEF vars
<1> QED BY <1>2, <1>3, <1>4, <1>5, <1>6, <1>7, <1>8, <1>9 DEF Next

LEMMA OneAnswerKept ==
    ASSUME LifeInv, OneAnswer, NEW r, AnswerStep(r)
    PROVE  OneAnswer'
<1>1. ASSUME NEW j \in Runs PROVE run'[j].answers \in {0, 1}
  <2>1. CASE j # r
    BY <2>1 DEF AnswerStep, OneAnswer
  <2>2. CASE j = r
    BY <2>2 DEF AnswerStep, OneAnswer
  <2> QED BY <2>1, <2>2
<1> QED BY <1>1 DEF OneAnswer

\* A step of the abstract specification, or a stutter.
LEMMA AnswerRefines ==
    ASSUME LifeInv, LifeInv', OneAnswer, OneAnswer', NEW r, AnswerStep(r)
    PROVE  [Promise!Next]_(Promise!vars)
<1> DEFINE s == [j \in Runs |-> Life(j)]
           a == [j \in Runs |-> run[j].answers]
           T == [j \in Runs |-> Life(j)']
           B == [j \in Runs |-> run'[j].answers]
<1>0. /\ \A j \in Runs : /\ ~run[j].begun => run[j].answers = 0
                         /\ ~run'[j].begun => run'[j].answers = 0
      /\ \A j \in Runs : run[j].answers \in {0, 1} /\ run'[j].answers \in {0, 1}
  <2>1. \A j \in Runs : ~run[j].begun => run[j].answers = 0
    BY DEF LifeInv, RunOK
  <2>2. \A j \in Runs : ~run'[j].begun => run'[j].answers = 0
    BY DEF LifeInv, RunOK
  <2> QED BY <2>1, <2>2 DEF OneAnswer
<1>1. \A j \in Runs : /\ Life(j) = IF run[j].answers = 1 THEN "settled"
                                   ELSE IF run[j].begun THEN "open" ELSE "idle"
                      /\ Life(j)' = IF run'[j].answers = 1 THEN "settled"
                                    ELSE IF run'[j].begun THEN "open" ELSE "idle"
  BY <1>0 DEF Life
<1>2. \A j \in Runs : j # r => Life(j)' = Life(j) /\ run'[j].answers = run[j].answers
  BY <1>1 DEF AnswerStep
<1>3. s' = T /\ a' = B
  OBVIOUS
<1>4. CASE r \in Runs => Life(r)' = Life(r) /\ run'[r].answers = run[r].answers
  <2>1. \A j \in Runs : Life(j)' = Life(j) /\ run'[j].answers = run[j].answers
    BY <1>2, <1>4
  <2>2. s' = s /\ a' = a
    BY <1>3, <2>1
  <2> QED BY <2>2 DEF Promise!vars
<1>5. CASE r \in Runs /\ Life(r) = "idle" /\ Life(r)' = "open" /\ run'[r].answers = run[r].answers
  <2>1. s[r] = "idle" /\ \A j \in Runs : s[j] # "dropped"
    BY <1>1, <1>5
  <2>2. s' = [s EXCEPT ![r] = "open"] /\ a' = a
    BY <1>2, <1>3, <1>5
  <2>3. Promise!Accept(r)
    BY <2>1, <2>2 DEF Promise!Accept
  <2> QED BY <1>5, <2>3 DEF Promise!Next
<1>6. CASE r \in Runs /\ Life(r) = "idle" /\ Life(r)' = "settled"
           /\ run[r].answers = 0 /\ run'[r].answers = 1
  <2>1. s[r] = "idle"
    BY <1>6
  <2>2. s' = [s EXCEPT ![r] = "settled"]
    BY <1>2, <1>3, <1>6
  <2>4. a' = [a EXCEPT ![r] = 1] /\ a[r] + 1 = 1
    <3>1. a[r] = 0
      BY <1>6
    <3>2. \A j \in Runs : B[j] = [a EXCEPT ![r] = 1][j]
      BY <1>2, <1>6
    <3>3. B = [a EXCEPT ![r] = 1]
      BY <3>2
    <3>4. a' = [a EXCEPT ![r] = 1]
      BY <3>3
    <3> HIDE DEF a
    <3> QED BY <3>1, <3>4
  <2>3. Promise!Inline(r)
    BY <2>1, <2>2, <2>4 DEF Promise!Inline
  <2> QED BY <1>6, <2>3 DEF Promise!Next
<1>7. CASE r \in Runs /\ Life(r) = "open" /\ Life(r)' = "settled"
           /\ run[r].answers = 0 /\ run'[r].answers = 1
  <2>1. \A j \in {r} : s[j] = "open"
    BY <1>7
  <2>2. /\ s' = [j \in Runs |-> IF j \in {r} THEN "settled" ELSE s[j]]
        /\ a' = [j \in Runs |-> IF j \in {r} THEN a[j] + 1 ELSE a[j]]
    BY <1>2, <1>3, <1>7
  <2>3. Promise!Settle({r})
    BY <2>1, <2>2 DEF Promise!Settle
  <2> QED BY <1>7, <2>3 DEF Promise!Next
<1>8. r \in Runs =>
        \/ Life(r)' = Life(r) /\ run'[r].answers = run[r].answers
        \/ Life(r) = "idle" /\ Life(r)' = "open" /\ run'[r].answers = run[r].answers
        \/ Life(r) = "idle" /\ Life(r)' = "settled" /\ run[r].answers = 0 /\ run'[r].answers = 1
        \/ Life(r) = "open" /\ Life(r)' = "settled" /\ run[r].answers = 0 /\ run'[r].answers = 1
  BY <1>0, <1>1 DEF AnswerStep
<1> QED BY <1>4, <1>5, <1>6, <1>7, <1>8

\* Every tool call, hook run and command run of any plugin is answered by
\* exactly one call, whatever of timeout, completion and unloading comes
\* first, and whatever the plugin's code does (libclmlua's completions,
\* cmd_timeout_cb, the teardown functions).
THEOREM PluginPromise == Spec => AnsweredOnce
<1>1. Init => Promise!Init /\ OneAnswer
  <2> SUFFICES ASSUME Init PROVE Promise!Init /\ OneAnswer
    OBVIOUS
  <2>1. \A r \in Runs : ~run[r].begun /\ run[r].answers = 0
    BY DEF Init, NoRun
  <2>2. \A r \in Runs : Life(r) = "idle"
    BY <2>1 DEF Life
  <2> QED BY <2>1, <2>2 DEF Promise!Init, OneAnswer
<1>2. LifeInv /\ OneAnswer /\ [Next]_vars => LifeInv' /\ OneAnswer'
  BY NextLife, NextAnswer, OneAnswerKept
<1>3. LifeInv /\ LifeInv' /\ OneAnswer /\ OneAnswer' /\ [Next]_vars => [Promise!Next]_(Promise!vars)
  BY NextAnswer, AnswerRefines
<1> QED BY <1>1, <1>2, <1>3, InitLife, PTL DEF Spec, AnsweredOnce, Promise!Spec
-----------------------------------------------------------------------------
(* What the API leaves to the plugin's code. An orderly plugin may forget  *)
(* to report, wait again after its timeout and add hooks while unloading.  *)
(* It does none of what the names below stand for; among them are waiting  *)
(* inside a C function, and a late use of the ctx of a call, its own or    *)
(* one that other code kept.                                               *)

Orderly == {"load_fails", "panic_inflight", "overlap", "goes_on", "exec_tearing", "self_cancel",
            "late_error", "yields_in_c", "args_late", "keeps_ctx"} \cap Quirks = {}

\* The list holds the timers that wait and the children that may still call.
TimerOK(x) == (<<"timer", x>> \in Held <=> tm[x] \in {"set", "note"}) /\ tm[x] # "twice"
KidOK(k) == <<"child", k>> \in Held <=> kid[k].st = "live" /\ ~kid[k].detached

ListInv ==
    /\ \A x \in Timers : TimerOK(x)
    /\ \A k \in Kids : KidOK(k)
    /\ frame # None => (frame.by = "timer" => tm[frame.ref] = "firing")
    /\ pl.st = "freed" => Held = {}

LEMMA AppendHeld ==
    ASSUME TypeOK, NEW e \in Entry, pend' = Append(pend, e)
    PROVE  Held' = Held \cup {e}
<1> DEFINE n == Len(pend)
           w == Append(pend, e)
<1>1. /\ n \in Nat /\ Len(w) = n + 1 /\ w[n + 1] = e /\ \A i \in 1 .. n : w[i] = pend[i]
  BY AppendProperties DEF TypeOK
<1>2. Held = {pend[i] : i \in 1 .. n} /\ Held' = {w[i] : i \in 1 .. Len(w)}
  BY DEF Held
<1> HIDE DEF n, w
<1>3. \A i \in 1 .. n + 1 : i \in 1 .. n \/ i = n + 1
  BY <1>1
<1>4. n + 1 \in 1 .. n + 1 /\ \A i \in 1 .. n : i \in 1 .. n + 1
  BY <1>1
<1> QED BY <1>1, <1>2, <1>3, <1>4

\* Entries of requests, hooks and commands come and go; no other does.
LEMMA OtherEntries ==
    ASSUME LifeInv,
           \/ pend' = pend
           \/ \E k \in {"req", "gate", "cmd"} : \E o \in Runs : pend' = clm_lua_pending_remove(k, o)
           \/ /\ pl.st # "freed"
              /\ \E k \in {"req", "gate", "cmd"} : \E o \in Runs :
                    <<k, o>> \in Entry /\ pend' = Append(pend, <<k, o>>)
    PROVE  /\ \A j : /\ <<"timer", j>> \in Held' <=> <<"timer", j>> \in Held
                     /\ <<"child", j>> \in Held' <=> <<"child", j>> \in Held
           /\ pl.st = "freed" => Held' \subseteq Held
<1>0. TypeOK /\ Unique
  BY LifeParts
<1>1. CASE pend' = pend
  BY <1>0, <1>1, SameList
<1>2. ASSUME NEW k \in {"req", "gate", "cmd"}, NEW o \in Runs, pend' = clm_lua_pending_remove(k, o)
      PROVE  /\ \A j : /\ <<"timer", j>> \in Held' <=> <<"timer", j>> \in Held
                       /\ <<"child", j>> \in Held' <=> <<"child", j>> \in Held
             /\ pl.st = "freed" => Held' \subseteq Held
  <2>1. Held' = Held \ {<<k, o>>}
    BY <1>0, <1>2, Dropped
  <2> QED BY <2>1
<1>3. ASSUME NEW k \in {"req", "gate", "cmd"}, NEW o \in Runs, <<k, o>> \in Entry,
             pend' = Append(pend, <<k, o>>), pl.st # "freed"
      PROVE  /\ \A j : /\ <<"timer", j>> \in Held' <=> <<"timer", j>> \in Held
                       /\ <<"child", j>> \in Held' <=> <<"child", j>> \in Held
             /\ pl.st = "freed" => Held' \subseteq Held
  <2>1. Held' = Held \cup {<<k, o>>}
    BY <1>0, <1>3, AppendHeld
  <2> QED BY <1>3, <2>1
<1> QED BY <1>1, <1>2, <1>3

LEMMA ListKept ==
    ASSUME ListInv, UNCHANGED <<tm, kid>>,
           \A j : /\ <<"timer", j>> \in Held' <=> <<"timer", j>> \in Held
                  /\ <<"child", j>> \in Held' <=> <<"child", j>> \in Held,
           pl'.st = "freed" => Held' = {},
           frame' = frame \/ frame' = None \/ frame'.by # "timer"
    PROVE  ListInv'
<1>1. \A x \in Timers : TimerOK(x)'
  BY DEF ListInv, TimerOK
<1>2. \A k \in Kids : KidOK(k)'
  BY DEF ListInv, KidOK
<1>3. (frame # None => (frame.by = "timer" => tm[frame.ref] = "firing"))'
  <2>1. CASE frame' = frame
    BY <2>1 DEF ListInv
  <2> QED BY <2>1
<1> QED BY <1>1, <1>2, <1>3 DEF ListInv

LEMMA ListEntries ==
    ASSUME LifeInv, ListInv, NEW x,
           \/ load_one_plugin \/ clm_lua_plugin_callback \/ clm_lua_hook_drop_all
           \/ x \in Tools /\ (lua_tool_invoke(x) \/ lua_tool_invoke_fails(x))
           \/ x \in Gates /\ lua_pre_tool_hook(x)
           \/ x \in Cmds /\ clm_lua_hook_command_run(x)
    PROVE  ListInv'
<1>0. pl \in PlRec /\ (pl.st = "freed" => Held = {}) /\ Gates \subseteq Runs /\ Cmds \subseteq Runs
  BY LifeParts, RunSets DEF ListInv
<1>1. /\ UNCHANGED <<tm, kid>>
      /\ frame' = frame \/ frame' = None \/ frame'.by # "timer"
  <2>1. ASSUME NEW b \in {"invoke", "hook", "command"}, NEW r, NEW rn, Enter(b, r, rn)
        PROVE  frame'.by # "timer"
    BY <2>1 DEF Enter
  <2>2. CASE load_one_plugin \/ clm_lua_plugin_callback \/ clm_lua_hook_drop_all
    BY <2>2 DEF load_one_plugin, clm_lua_plugin_callback, clm_lua_hook_drop_all
  <2>3. CASE lua_tool_invoke(x)
    BY <2>1, <2>3 DEF lua_tool_invoke
  <2>4. CASE lua_tool_invoke_fails(x)
    BY <2>4 DEF lua_tool_invoke_fails
  <2>5. CASE lua_pre_tool_hook(x)
    BY <2>1, <2>5 DEF lua_pre_tool_hook
  <2>6. CASE clm_lua_hook_command_run(x)
    BY <2>1, <2>6 DEF clm_lua_hook_command_run
  <2> QED BY <2>2, <2>3, <2>4, <2>5, <2>6
<1>2. pl'.st = "freed" => pl.st = "freed"
  BY <1>0 DEF load_one_plugin, clm_lua_plugin_callback, clm_lua_hook_drop_all, lua_tool_invoke,
         lua_tool_invoke_fails, lua_pre_tool_hook, clm_lua_hook_command_run, PlRec
<1>3. \/ pend' = pend
      \/ pl.st # "freed" /\ x \in Gates /\ pend' = Append(pend, <<"gate", x>>)
      \/ pl.st # "freed" /\ x \in Cmds /\ pend' = Append(pend, <<"cmd", x>>)
  BY DEF load_one_plugin, clm_lua_plugin_callback, clm_lua_hook_drop_all, lua_tool_invoke,
         lua_tool_invoke_fails, lua_pre_tool_hook, clm_lua_hook_command_run, Loop
<1>4. (x \in Gates => <<"gate", x>> \in Entry) /\ (x \in Cmds => <<"cmd", x>> \in Entry)
  BY DEF Entry
<1>5. \/ pend' = pend
      \/ /\ pl.st # "freed"
         /\ \E k \in {"req", "gate", "cmd"} : \E o \in Runs :
                <<k, o>> \in Entry /\ pend' = Append(pend, <<k, o>>)
  BY <1>0, <1>3, <1>4
<1>6. /\ \A j : /\ <<"timer", j>> \in Held' <=> <<"timer", j>> \in Held
                /\ <<"child", j>> \in Held' <=> <<"child", j>> \in Held
      /\ pl.st = "freed" => Held' \subseteq Held
  BY <1>5, OtherEntries
<1> QED BY <1>0, <1>1, <1>2, <1>6, ListKept

LEMMA ListPlugin ==
    ASSUME LifeInv, ListInv, Orderly,
           \/ \E t \in Tools : lua_ctx_complete(t) \/ lua_ctx_args_raw(t)
           \/ lua_ctx_http_get \/ lua_ctx_http_post \/ lua_clm_sleep \/ lua_clm_exec
           \/ lua_clm_tool_register \/ lua_clm_tool_remove \/ lua_clm_on
           \/ lua_clm_command_register \/ lua_clm_command_remove
    PROVE  ListInv'
<1>0. pl \in PlRec /\ (pl.st = "freed" => Held = {})
  BY LifeParts DEF ListInv
<1>1. UNCHANGED <<tm, kid>> /\ (frame' = frame \/ frame' = None)
  BY DEF lua_ctx_complete, lua_ctx_args_raw, lua_ctx_http_get, lua_ctx_http_post, lua_clm_sleep, lua_clm_exec, Yields,
         lua_clm_tool_register, lua_clm_tool_remove, lua_clm_on, lua_clm_command_register,
         lua_clm_command_remove
<1>2. pl'.st = pl.st
  <2>1. CASE lua_ctx_http_get \/ lua_ctx_http_post \/ lua_clm_sleep \/ lua_clm_exec
    <3>0. pl.inflight + 1 \in Nat /\ pl.total + 1 \in Nat /\ pl.calls + 1 \in Nat
      BY <1>0 DEF PlRec
    <3> DEFINE p == [pl EXCEPT !.inflight = @ + 1, !.total = @ + 1, !.calls = @ + 1]
    <3>1. /\ p \in PlRec /\ p.st = pl.st /\ Counted \in PlRec /\ Counted.st = pl.st
          /\ [p EXCEPT !.inflight = pl.inflight].st = pl.st
          /\ [p EXCEPT !.leaked = @ + 1].st = pl.st
      BY <1>0, <3>0 DEF PlRec, Counted
    <3>2. pl' \in {Slots(p), Slots(Counted), p, Counted, [p EXCEPT !.inflight = pl.inflight],
                   [p EXCEPT !.leaked = @ + 1]}
      BY <2>1 DEF lua_ctx_http_get, lua_ctx_http_post, lua_clm_sleep, lua_clm_exec, Yields
    <3> HIDE DEF p
    <3> QED BY <3>1, <3>2, SlotsFacts
  <2>2. CASE \/ \E t \in Tools : lua_ctx_complete(t) \/ lua_ctx_args_raw(t)
             \/ lua_clm_tool_register \/ lua_clm_tool_remove \/ lua_clm_on
             \/ lua_clm_command_register \/ lua_clm_command_remove
    BY <1>0, <2>2 DEF lua_ctx_complete, lua_ctx_args_raw, lua_clm_tool_register, lua_clm_tool_remove, lua_clm_on,
         lua_clm_command_register, lua_clm_command_remove, Registered, Counted, PlRec
  <2> QED BY <2>1, <2>2
<1>3. \/ pend' = pend
      \/ pl.st = "up" /\ frame.run \in Runs /\ pend' = Append(pend, <<"req", frame.run>>)
  BY DEF lua_ctx_complete, lua_ctx_args_raw, lua_ctx_http_get, lua_ctx_http_post, lua_clm_sleep,
         lua_clm_exec, MayYield,
         lua_clm_tool_register, lua_clm_tool_remove, lua_clm_on, lua_clm_command_register,
         lua_clm_command_remove
<1>4. \A r \in Runs : <<"req", r>> \in Entry
  BY DEF Entry
<1>5. \/ pend' = pend
      \/ /\ pl.st # "freed"
         /\ \E k \in {"req", "gate", "cmd"} : \E o \in Runs :
                <<k, o>> \in Entry /\ pend' = Append(pend, <<k, o>>)
  BY <1>3, <1>4
<1>6. /\ \A j : /\ <<"timer", j>> \in Held' <=> <<"timer", j>> \in Held
                /\ <<"child", j>> \in Held' <=> <<"child", j>> \in Held
      /\ pl.st = "freed" => Held' \subseteq Held
  BY <1>5, OtherEntries
<1> QED BY <1>0, <1>1, <1>2, <1>6, ListKept
\* Coroutines end or are resumed, calls time out, answers go out.
LEMMA ListRuns ==
    ASSUME LifeInv, ListInv,
           \/ Returns \/ Raises
           \/ \E r \in Runs : Completion(r) \/ lua_exec_done(r)
           \/ \E t \in Tools : ToolTimeout(t) \/ ToolAbandoned(t)
           \/ \E g \in Gates : gate_timer_cb(g)
           \/ \E c \in Cmds : cmd_answer_cb(c) \/ cmd_timeout_cb(c)
    PROVE  ListInv'
<1>0. /\ TypeOK /\ pl \in PlRec /\ (pl.st = "freed" => Held = {})
      /\ Tools \subseteq Runs /\ Gates \subseteq Runs /\ Cmds \subseteq Runs
  BY LifeParts, RunSets DEF ListInv
<1>1. ASSUME UNCHANGED <<tm, kid>>, frame' = frame \/ frame' = None \/ frame'.by # "timer",
             pl'.st = pl.st,
             \/ pend' = pend
             \/ \E k \in {"req", "gate", "cmd"} : \E o \in Runs : pend' = clm_lua_pending_remove(k, o)
      PROVE  ListInv'
  <2>1. /\ \A j : /\ <<"timer", j>> \in Held' <=> <<"timer", j>> \in Held
                  /\ <<"child", j>> \in Held' <=> <<"child", j>> \in Held
        /\ pl.st = "freed" => Held' \subseteq Held
    BY <1>1, OtherEntries
  <2> QED BY <1>0, <1>1, <2>1, ListKept
<1>2. CASE Returns \/ Raises
  <2>1. UNCHANGED <<tm, kid>> /\ frame' = None /\ pl' = Slots(pl)
    BY <1>2 DEF Returns, Raises
  <2>2. pend' = pend \/ pend' = clm_lua_pending_remove("cmd", frame.run)
    BY <1>2 DEF Returns, Raises
  <2>3. frame.run \in Runs
    BY <1>0, <1>2 DEF Returns, Raises
  <2>4. pl'.st = pl.st
    BY <1>0, <2>1, SlotsFacts
  <2> QED BY <1>1, <2>1, <2>2, <2>3, <2>4
<1>3. ASSUME NEW r \in Runs, Taken(r), UNCHANGED <<tm, kid>>, pl'.st = pl.st,
             frame' = frame \/ frame'.by # "timer"
      PROVE  ListInv'
  <2>1. pend' = clm_lua_pending_remove("req", r)
    BY <1>3 DEF Taken
  <2> QED BY <1>1, <1>3, <2>1
<1>4. ASSUME NEW r \in Runs, NEW b \in {"http", "sleep", "exec"}, Resume(b, r) PROVE ListInv'
  <2>1. Taken(r) /\ UNCHANGED <<tm, kid>> /\ pl' = pl /\ frame'.by # "timer"
    BY <1>4 DEF Resume
  <2> QED BY <1>3, <2>1
<1>5. ASSUME NEW r \in Runs, Completion(r) \/ lua_exec_done(r) PROVE ListInv'
  <2>1. CASE \E b \in {"http", "sleep", "exec"} : Resume(b, r)
    BY <1>4, <2>1
  <2>2. CASE ~\E b \in {"http", "sleep", "exec"} : Resume(b, r)
    <3>1. /\ Taken(r) /\ UNCHANGED <<tm, kid, frame>>
          /\ pl' = pl \/ pl' = clm_lua_http_done(pl)
      BY <1>5, <2>2 DEF Completion, lua_http_on_success, lua_http_on_error, lua_sleep_timer_cb,
         lua_exec_done, SkipsResume
    <3>2. pl'.st = pl.st
      BY <1>0, <3>1, DoneFacts
    <3> QED BY <1>3, <3>1, <3>2
  <2> QED BY <2>1, <2>2
<1>6. ASSUME NEW t \in Tools, ToolTimeout(t) PROVE ListInv'
  <2>1. PICK r \in Runs : r = canc[t]
    BY <1>0, <1>6 DEF ToolTimeout, TypeOK
  <2>2. /\ UNCHANGED <<tm, kid>> /\ Taken(r)
        /\ pl' = pl \/ pl' = clm_lua_http_done(pl)
        /\ frame' = frame \/ frame'.by # "timer"
    BY <1>6, <2>1 DEF ToolTimeout, lua_sleep_cancel, lua_exec_cancel, lua_http_cancel, SkipsResume
  <2>3. pl'.st = pl.st
    BY <1>0, <2>2, DoneFacts
  <2> QED BY <1>3, <2>2, <2>3
<1>7. ASSUME NEW t \in Tools, ToolAbandoned(t) PROVE ListInv'
  <2>1. UNCHANGED <<pl, tm, kid, frame, pend>>
    BY <1>7 DEF ToolAbandoned
  <2> QED BY <1>1, <2>1
<1>8. ASSUME NEW x \in Gates \cup Cmds, gate_timer_cb(x) \/ cmd_answer_cb(x) \/ cmd_timeout_cb(x)
      PROVE  ListInv'
  <2>1. UNCHANGED <<pl, tm, kid, frame>>
        /\ (pend' = pend \/ pend' = clm_lua_pending_remove("gate", x)
            \/ pend' = clm_lua_pending_remove("cmd", x))
    BY <1>8 DEF gate_timer_cb, cmd_answer_cb, cmd_timeout_cb
  <2> QED BY <1>0, <1>1, <2>1
<1> QED BY <1>2, <1>5, <1>6, <1>7, <1>8

LEMMA ListTimers ==
    ASSUME LifeInv, ListInv, Orderly, NEW x \in Timers,
           lua_clm_after(x) \/ lua_clm_notify(x) \/ lua_timer_cancel(x) \/ lua_timer_fire(x)
    PROVE  ListInv'
<1>0. /\ TypeOK /\ Unique /\ pl \in PlRec /\ tm \in [Timers -> TmSet]
      /\ frame \in Frames \cup {None} /\ (frame # None => FrameOK(frame))
  BY LifeParts DEF TypeOK, TmSet
<1>1. /\ \A y \in Timers : TimerOK(y)
      /\ \A k \in Kids : KidOK(k)
      /\ frame # None => (frame.by = "timer" => tm[frame.ref] = "firing")
      /\ pl.st = "freed" => Held = {}
  BY DEF ListInv
<1>2. ASSUME \/ Held' = Held \cup {<<"timer", x>>} /\ tm'[x] \in {"set", "note"} /\ pl.st = "up"
             \/ Held' = Held \ {<<"timer", x>>} /\ tm'[x] \in {"firing", "freed"},
             \A y \in Timers : y # x => tm'[y] = tm[y],
             UNCHANGED kid, pl'.st = pl.st
      PROVE  /\ \A y \in Timers : TimerOK(y)'
             /\ \A k \in Kids : KidOK(k)'
             /\ (pl.st = "freed" => Held = {})'
  <2>1. ASSUME NEW y \in Timers PROVE TimerOK(y)'
    <3>1. CASE y = x
      BY <1>2, <3>1 DEF TimerOK
    <3>2. CASE y # x
      <4>1. (<<"timer", y>> \in Held' <=> <<"timer", y>> \in Held) /\ tm'[y] = tm[y]
        BY <1>2, <3>2
      <4> QED BY <1>1, <4>1 DEF TimerOK
    <3> QED BY <3>1, <3>2
  <2>2. ASSUME NEW k \in Kids PROVE KidOK(k)'
    <3>1. <<"child", k>> \in Held' <=> <<"child", k>> \in Held
      BY <1>2
    <3> QED BY <1>1, <1>2, <3>1 DEF KidOK
  <2> QED BY <1>1, <1>2, <2>1, <2>2
<1>3. ASSUME NEW k \in {"set", "note"}, lua_timer_start(x, k) PROVE ListInv'
  <2>1. <<"timer", x>> \in Entry
    BY DEF Entry
  <2>2. /\ tm[x] = "off" /\ tm' = [tm EXCEPT ![x] = k] /\ pl.st = "up" /\ UNCHANGED <<kid, frame>>
        /\ pl' = Counted
    BY <1>3 DEF lua_timer_start
  <2>3. Held' = Held \cup {<<"timer", x>>}
    BY <1>0, <1>3, <2>1, AppendHeld DEF lua_timer_start
  <2>4. tm'[x] \in {"set", "note"} /\ \A y \in Timers : y # x => tm'[y] = tm[y]
    BY <1>0, <2>2
  <2>5. pl'.st = pl.st
    BY <1>0, <2>2 DEF Counted, PlRec
  <2>6. (frame # None => (frame.by = "timer" => tm[frame.ref] = "firing"))'
    <3>1. ASSUME frame # None, frame.by = "timer" PROVE tm'[frame.ref] = "firing"
      <4>1. frame.ref \in Timers /\ frame.ref # x
        BY <1>0, <1>1, <2>2, <3>1 DEF FrameOK
      <4> QED BY <1>1, <2>4, <3>1, <4>1
    <3> QED BY <2>2, <3>1
  <2> QED BY <1>2, <2>2, <2>3, <2>4, <2>5, <2>6 DEF ListInv
<1>4. CASE lua_timer_cancel(x)
  <2>1. "self_cancel" \notin Quirks
    BY DEF Orderly
  <2>2. tm[x] = "set" /\ tm' = Freed(x) /\ UNCHANGED <<pl, kid, frame>>
    BY <1>4, <2>1 DEF lua_timer_cancel
  <2>3. Held' = Held \ {<<"timer", x>>}
    BY <1>0, <1>4, Dropped DEF lua_timer_cancel
  <2>4. tm'[x] = "freed" /\ \A y \in Timers : y # x => tm'[y] = tm[y]
    BY <1>0, <2>2, FreedFacts
  <2>5. (frame # None => (frame.by = "timer" => tm[frame.ref] = "firing"))'
    <3>1. ASSUME frame # None, frame.by = "timer" PROVE tm'[frame.ref] = "firing"
      <4>1. frame.ref \in Timers /\ frame.ref # x
        BY <1>0, <1>1, <2>2, <3>1 DEF FrameOK
      <4> QED BY <1>1, <2>4, <3>1, <4>1
    <3> QED BY <2>2, <3>1
  <2>6. UNCHANGED kid /\ pl'.st = pl.st
    BY <2>2
  <2> QED BY <1>2, <2>3, <2>4, <2>5, <2>6 DEF ListInv
<1>5. CASE lua_timer_fire(x)
  <2>1. UNCHANGED <<pl, kid>> /\ frame = None /\ tm[x] \in {"set", "note"}
    BY <1>5 DEF lua_timer_fire, Loop
  <2>2. Held' = Held \ {<<"timer", x>>}
    BY <1>0, <1>5, Dropped DEF lua_timer_fire
  <2>3. /\ tm'[x] \in {"firing", "freed"} /\ \A y \in Timers : y # x => tm'[y] = tm[y]
        /\ frame' # None => (frame'.by = "timer" => tm'[frame'.ref] = "firing")
    <3>1. CASE tm[x] = "set" /\ ~pl.dead
      <4>1. tm' = [tm EXCEPT ![x] = "firing"] /\ frame'.ref = x
        BY <1>5, <3>1 DEF lua_timer_fire
      <4> QED BY <1>0, <4>1
    <3>2. CASE ~(tm[x] = "set" /\ ~pl.dead)
      <4>1. tm' = Freed(x) /\ frame' = None
        BY <1>5, <2>1, <3>2 DEF lua_timer_fire
      <4> QED BY <1>0, <2>1, <4>1, FreedFacts
    <3> QED BY <3>1, <3>2
  <2>4. UNCHANGED kid /\ pl'.st = pl.st
    BY <2>1
  <2> QED BY <1>2, <2>2, <2>3, <2>4 DEF ListInv
<1> QED BY <1>3, <1>4, <1>5 DEF lua_clm_after, lua_clm_notify
\* A child changes, or is started or reported.
LEMMA ListKids ==
    ASSUME LifeInv, ListInv, NEW k \in Kids,
           lua_clm_spawn(k) \/ host_uv_proc_read(k) \/ host_uv_proc_on_exit(k)
    PROVE  ListInv'
<1>0. /\ TypeOK /\ Unique /\ pl \in PlRec /\ kid \in [Kids -> KidRec]
  BY LifeParts DEF TypeOK
<1>1. /\ \A y \in Timers : TimerOK(y)
      /\ \A j \in Kids : KidOK(j)
      /\ frame # None => (frame.by = "timer" => tm[frame.ref] = "firing")
      /\ pl.st = "freed" => Held = {}
  BY DEF ListInv
<1>2. ASSUME \/ Held' = Held
             \/ Held' = Held \cup {<<"child", k>>} /\ pl.st = "up"
             \/ Held' = Held \ {<<"child", k>>},
             KidOK(k)', \A j \in Kids : j # k => kid'[j] = kid[j], UNCHANGED tm,
             frame' = frame \/ frame' = None \/ frame'.by # "timer", pl'.st = pl.st
      PROVE  ListInv'
  <2>1. ASSUME NEW y \in Timers PROVE TimerOK(y)'
    <3>1. (<<"timer", y>> \in Held' <=> <<"timer", y>> \in Held) /\ tm'[y] = tm[y]
      BY <1>2
    <3> QED BY <1>1, <3>1 DEF TimerOK
  <2>2. ASSUME NEW j \in Kids PROVE KidOK(j)'
    <3>1. CASE j = k
      BY <1>2, <3>1
    <3>2. CASE j # k
      <4>1. (<<"child", j>> \in Held' <=> <<"child", j>> \in Held) /\ kid'[j] = kid[j]
        BY <1>2, <3>2
      <4> QED BY <1>1, <4>1 DEF KidOK
    <3> QED BY <3>1, <3>2
  <2>3. (frame # None => (frame.by = "timer" => tm[frame.ref] = "firing"))'
    <3>1. CASE frame' = frame
      BY <1>1, <1>2, <3>1
    <3> QED BY <1>2, <3>1
  <2>4. (pl.st = "freed" => Held = {})'
    BY <1>1, <1>2
  <2> QED BY <2>1, <2>2, <2>3, <2>4 DEF ListInv
<1>3. CASE lua_clm_spawn(k)
  <2>1. <<"child", k>> \in Entry
    BY DEF Entry
  <2>2. /\ kid' = [kid EXCEPT ![k] = host_uv_proc_spawn] /\ pl.st = "up" /\ UNCHANGED <<tm, frame>>
        /\ pl' = Counted
    BY <1>3 DEF lua_clm_spawn
  <2>3. Held' = Held \cup {<<"child", k>>}
    BY <1>0, <1>3, <2>1, AppendHeld DEF lua_clm_spawn
  <2>4. host_uv_proc_spawn.st = "live" /\ ~host_uv_proc_spawn.detached
    BY DEF host_uv_proc_spawn, NoKid
  <2>5. kid'[k].st = "live" /\ ~kid'[k].detached /\ \A j \in Kids : j # k => kid'[j] = kid[j]
    BY <1>0, <2>2, <2>4
  <2>6. KidOK(k)'
    BY <2>3, <2>5 DEF KidOK
  <2>7. pl'.st = pl.st
    BY <1>0, <2>2 DEF Counted, PlRec
  <2> QED BY <1>2, <2>2, <2>3, <2>5, <2>6, <2>7
<1>4. ASSUME NEW kd \in KidRec, kd.st = "live", kd.told = kid[k].told, kd.detached = kid[k].detached,
             kid[k].st = "live", frame = None, Settles(k, host_uv_proc_settle(kd, k))
      PROVE  ListInv'
  <2> DEFINE s == host_uv_proc_settle(kd, k)
  <2>1. /\ s.detached = kid[k].detached
        /\ s.told > kid[k].told => ~kid[k].detached /\ s.st = "settled"
        /\ ~(s.told > kid[k].told) /\ ~kid[k].detached => s.st = "live"
    BY <1>4, SettleFacts
  <2>2. /\ kid' = [kid EXCEPT ![k] = s] /\ UNCHANGED <<pl, tm>>
        /\ frame' = frame \/ frame' = None \/ frame'.by # "timer"
        /\ IF s.told > kid[k].told THEN pend' = clm_lua_pending_remove("child", k) ELSE pend' = pend
    BY <1>4 DEF Settles
  <2> HIDE DEF s
  <2>3. kid'[k] = s /\ \A j \in Kids : j # k => kid'[j] = kid[j]
    BY <1>0, <2>2
  <2>4. CASE s.told > kid[k].told
    <3>1. Held' = Held \ {<<"child", k>>}
      BY <1>0, <2>2, <2>4, Dropped
    <3>2. KidOK(k)'
      BY <2>1, <2>3, <2>4, <3>1 DEF KidOK
    <3> QED BY <1>2, <2>2, <2>3, <3>1, <3>2
  <2>5. CASE ~(s.told > kid[k].told)
    <3>1. Held' = Held
      BY <1>0, <2>2, <2>5, SameList
    <3>2. KidOK(k)'
      BY <1>1, <1>4, <2>1, <2>3, <2>5, <3>1 DEF KidOK
    <3> QED BY <1>2, <2>2, <2>3, <3>1, <3>2
  <2> QED BY <2>4, <2>5
<1>5. CASE host_uv_proc_read(k)
  <2> DEFINE kd == [kid[k] EXCEPT !.pipes = @ - 1]
  <2>1. kid[k] \in KidRec /\ kid[k].pipes > 0 /\ kid[k].st = "live"
    BY <1>0, <1>5 DEF host_uv_proc_read
  <2>2. kid[k].pipes - 1 \in Nat
    BY <2>1 DEF KidRec
  <2>3. kd \in KidRec /\ kd.st = "live" /\ kd.told = kid[k].told /\ kd.detached = kid[k].detached
    BY <2>1, <2>2 DEF KidRec
  <2>4. frame = None /\ Settles(k, host_uv_proc_settle(kd, k))
    BY <1>5 DEF host_uv_proc_read
  <2> HIDE DEF kd
  <2> QED BY <1>4, <2>1, <2>3, <2>4
<1>6. CASE host_uv_proc_on_exit(k)
  <2> DEFINE kd == [kid[k] EXCEPT !.exited = TRUE]
  <2>1. kid[k] \in KidRec /\ kid[k].st = "live"
    BY <1>0, <1>6 DEF host_uv_proc_on_exit
  <2>2. kd \in KidRec /\ kd.st = "live" /\ kd.told = kid[k].told /\ kd.detached = kid[k].detached
    BY <2>1 DEF KidRec
  <2>3. frame = None /\ Settles(k, host_uv_proc_settle(kd, k))
    BY <1>6 DEF host_uv_proc_on_exit
  <2> HIDE DEF kd
  <2> QED BY <1>4, <2>1, <2>2, <2>3
<1> QED BY <1>3, <1>5, <1>6

\* The ends: of a callback, of the loading, of the plugin.
LEMMA ListEnds ==
    ASSUME LifeInv, ListInv, Orderly,
           Skipped \/ LoadFails \/ CallbackEnds \/ clm_lua_pending_teardown_all \/ clm_lua_env_free
    PROVE  ListInv'
<1>0. /\ TypeOK /\ Unique /\ NewOK /\ pl \in PlRec /\ tm \in [Timers -> TmSet] /\ kid \in [Kids -> KidRec]
      /\ frame \in Frames \cup {None} /\ (frame # None => FrameOK(frame))
  BY LifeParts DEF TypeOK, TmSet
<1>1. /\ \A y \in Timers : TimerOK(y)
      /\ \A j \in Kids : KidOK(j)
      /\ frame # None => (frame.by = "timer" => tm[frame.ref] = "firing")
      /\ pl.st = "freed" => Held = {}
  BY DEF ListInv
<1>2. CASE Skipped \/ LoadFails \/ clm_lua_env_free
  <2>1. "load_fails" \notin Quirks
    BY DEF Orderly
  <2>2. UNCHANGED <<pend, tm, kid>> /\ pend = << >>
    BY <1>0, <1>2, <2>1 DEF Skipped, LoadFails, clm_lua_env_free, NewOK
  <2>3. Held' = Held /\ Held = {}
    BY <1>0, <2>2, SameList, EmptyList
  <2>4. frame' = frame \/ frame' = None
    BY <1>2 DEF Skipped, LoadFails, clm_lua_env_free
  <2> QED BY <2>2, <2>3, <2>4, ListKept
<1>3. CASE CallbackEnds
  <2>1. UNCHANGED <<pl, pend, kid>> /\ frame # None /\ frame' = None
    BY <1>3 DEF CallbackEnds
  <2>2. Held' = Held
    BY <1>0, <2>1, SameList
  <2>3. ASSUME NEW y \in Timers PROVE TimerOK(y)'
    <3>1. CASE frame.by = "timer"
      <4>1. frame.ref \in Timers /\ tm' = Freed(frame.ref) /\ tm[frame.ref] = "firing"
        BY <1>0, <1>1, <1>3, <2>1, <3>1 DEF CallbackEnds, FrameOK
      <4>2. /\ tm'[frame.ref] = "freed" /\ \A z \in Timers : z # frame.ref => tm'[z] = tm[z]
        BY <1>0, <4>1, FreedFacts
      <4>3. CASE y = frame.ref
        BY <1>1, <2>2, <4>1, <4>2, <4>3 DEF TimerOK
      <4>4. CASE y # frame.ref
        BY <1>1, <2>2, <4>2, <4>4 DEF TimerOK
      <4> QED BY <4>3, <4>4
    <3>2. CASE frame.by # "timer"
      <4>1. tm' = tm
        BY <1>3, <3>2 DEF CallbackEnds
      <4> QED BY <1>1, <2>2, <4>1 DEF TimerOK
    <3> QED BY <3>1, <3>2
  <2>4. \A j \in Kids : KidOK(j)'
    BY <1>1, <2>1, <2>2 DEF KidOK
  <2> QED BY <1>1, <2>1, <2>2, <2>3, <2>4 DEF ListInv
<1>4. CASE clm_lua_pending_teardown_all
  <2> DEFINE e == pend[1]
  <2>1. /\ frame = None /\ pl.st = "tearing" /\ pend # << >> /\ pend' = Tail(pend)
        /\ UNCHANGED <<pl, frame>>
        /\ \/ e[1] \in {"gate", "cmd", "req"} /\ UNCHANGED <<tm, kid>>
           \/ e[1] = "timer" /\ tm' = Freed(e[2]) /\ UNCHANGED kid
           \/ e[1] = "child" /\ kid' = [kid EXCEPT ![e[2]] = host_uv_proc_detach(e[2])] /\ UNCHANGED tm
    BY <1>4 DEF clm_lua_pending_teardown_all, gate_run_teardown, cmd_run_teardown, RequestTeardown
  <2>2. Held' = Held \ {e} /\ e \in Entry /\ e \in Held
    BY <1>0, <2>1, Popped
  <2> HIDE DEF e
  <2>3. PICK o : o = e[2]
    OBVIOUS
  <2>4. e = <<e[1], o>> /\ (e[1] = "timer" => o \in Timers) /\ (e[1] = "child" => o \in Kids)
    BY <2>2, <2>3, EntryKinds
  <2>5. ASSUME NEW y \in Timers PROVE TimerOK(y)'
    <3>1. CASE e[1] = "timer" /\ y = o
      <4>1. tm[o] \in {"set", "note"} /\ tm' = Freed(o)
        BY <1>1, <2>1, <2>2, <2>3, <2>4, <3>1 DEF TimerOK
      <4>2. tm'[o] = "freed"
        BY <1>0, <2>4, <3>1, <4>1, FreedFacts
      <4>3. <<"timer", y>> \notin Held'
        BY <2>2, <2>4, <3>1
      <4> QED BY <3>1, <4>2, <4>3 DEF TimerOK
    <3>2. CASE ~(e[1] = "timer" /\ y = o)
      <4>1. <<"timer", y>> # e
        BY <2>4, <3>2
      <4>2. <<"timer", y>> \in Held' <=> <<"timer", y>> \in Held
        BY <2>2, <4>1
      <4>3. tm'[y] = tm[y]
        <5>1. CASE e[1] = "timer"
          <6>1. tm' = Freed(o) /\ o \in Timers /\ y # o
            BY <2>1, <2>3, <2>4, <3>2, <5>1
          <6> QED BY <1>0, <6>1, FreedFacts
        <5>2. CASE e[1] # "timer"
          BY <2>1, <5>2
        <5> QED BY <5>1, <5>2
      <4> QED BY <1>1, <4>2, <4>3 DEF TimerOK
    <3> QED BY <3>1, <3>2
  <2>6. ASSUME NEW k \in Kids PROVE KidOK(k)'
    <3>1. CASE e[1] = "child" /\ k = o
      <4>1. kid' = [kid EXCEPT ![o] = host_uv_proc_detach(o)] /\ kid[o] \in KidRec
        BY <1>0, <2>1, <2>3, <3>1
      <4>2. kid'[o].detached
        BY <1>0, <3>1, <4>1, DetachFacts
      <4>3. <<"child", k>> \notin Held'
        BY <2>2, <2>4, <3>1
      <4> QED BY <3>1, <4>2, <4>3 DEF KidOK
    <3>2. CASE ~(e[1] = "child" /\ k = o)
      <4>1. <<"child", k>> # e
        BY <2>4, <3>2
      <4>2. <<"child", k>> \in Held' <=> <<"child", k>> \in Held
        BY <2>2, <4>1
      <4>3. kid'[k] = kid[k]
        BY <1>0, <2>1, <2>3, <3>2
      <4> QED BY <1>1, <4>2, <4>3 DEF KidOK
    <3> QED BY <3>1, <3>2
  <2> QED BY <2>1, <2>5, <2>6 DEF ListInv
<1> QED BY <1>2, <1>3, <1>4

LEMMA InitList == Init => ListInv
<1> SUFFICES ASSUME Init PROVE ListInv
  OBVIOUS
<1>1. Held = {} /\ frame = None
  BY DEF Init, Held
<1>2. (\A x \in Timers : tm[x] = "off") /\ (\A k \in Kids : kid[k].st = "none")
  BY DEF Init, NoKid
<1> QED BY <1>1, <1>2 DEF ListInv, TimerOK, KidOK

\* The list of an orderly plugin stays exact.
LEMMA NextList ==
    ASSUME LifeInv, ListInv, Orderly, [Next]_vars
    PROVE  ListInv'
<1>1. CASE Skipped \/ load_one_plugin \/ clm_lua_plugin_callback \/ clm_lua_hook_drop_all
  BY <1>1, ListEntries, ListEnds
<1>2. ASSUME NEW t \in Tools, lua_tool_invoke(t) \/ lua_tool_invoke_fails(t)
                              \/ ToolTimeout(t) \/ ToolAbandoned(t)
      PROVE  ListInv'
  BY <1>2, ListEntries, ListRuns
<1>3. ASSUME NEW g \in Gates, lua_pre_tool_hook(g) \/ gate_timer_cb(g) PROVE ListInv'
  BY <1>3, ListEntries, ListRuns
<1>4. ASSUME NEW c \in Cmds, clm_lua_hook_command_run(c) \/ cmd_answer_cb(c) \/ cmd_timeout_cb(c)
      PROVE  ListInv'
  BY <1>4, ListEntries, ListRuns
<1>5. CASE Plugin
  <2>1. CASE \E x \in Timers : lua_clm_after(x) \/ lua_clm_notify(x) \/ lua_timer_cancel(x)
    BY <2>1, ListTimers
  <2>2. CASE \E k \in Kids : lua_clm_spawn(k)
    BY <2>2, ListKids
  <2> QED BY <1>5, <2>1, <2>2, ListPlugin DEF Plugin
<1>6. CASE Ends
  BY <1>6, ListRuns, ListEnds DEF Ends
<1>7. ASSUME NEW r \in Runs, Completion(r) \/ lua_exec_done(r) PROVE ListInv'
  BY <1>7, ListRuns
<1>8. ASSUME NEW x \in Timers, lua_timer_fire(x) PROVE ListInv'
  BY <1>8, ListTimers
<1>9. ASSUME NEW k \in Kids, host_uv_proc_read(k) \/ host_uv_proc_on_exit(k) PROVE ListInv'
  BY <1>9, ListKids
<1>10. CASE clm_lua_pending_teardown_all \/ clm_lua_env_free
  BY <1>10, ListEnds
<1>11. CASE UNCHANGED vars
  <2>1. UNCHANGED <<pl, pend, tm, kid, frame>>
    BY <1>11 DEF vars
  <2>2. Held' = Held
    BY <2>1 DEF Held
  <2> QED BY <2>1, <2>2, ListKept DEF ListInv
<1> QED BY <1>1, <1>2, <1>3, <1>4, <1>5, <1>6, <1>7, <1>8, <1>9, <1>10, <1>11 DEF Next

-----------------------------------------------------------------------------
(* Who waits is answered for once, alive and rooted.                       *)

\* The invocation of a run: a tool call is its own.
Self(r) == IF r \in Tools THEN r ELSE None

WaitOK(r) ==
    /\ Asks(r) =>
        /\ run[r].co = "parked" /\ run[r].rooted
        /\ req[r].ref = r /\ req[r].inv = Self(r) /\ <<"req", r>> \in Held
        /\ req[r].kind # "exec" => ~pl.dead
        /\ r \in Tools => run[r].answers = 0 /\ ~run[r].done /\ canc[r] = r
    /\ On(r) =>
        /\ run[r].rooted /\ frame.ref = r /\ frame.inv = Self(r)
        /\ r \in Tools /\ ~run[r].done => run[r].answers = 0
    /\ r \in Tools => canc[r] = None \/ Asks(r)

\* Nothing dead or answered was used, Lua runs only while the plugin lives,
\* and every run that waits will be resumed, or answered, as itself.
WaitInv ==
    /\ ~stale
    /\ frame # None \/ pl.st = "new" => ~pl.dead
    /\ \A r \in Runs : WaitOK(r)

LEMMA InitWait == Init => WaitInv
<1> SUFFICES ASSUME Init PROVE WaitInv
  OBVIOUS
<1>1. \A r \in Runs : WaitOK(r)
  BY RunSets DEF Init, WaitOK, Asks, On, NoReq
<1> QED BY <1>1 DEF Init, WaitInv

\* A step in which only x runs or waits otherwise than before.
LEMMA WaitStep ==
    ASSUME WaitInv, NEW x, x \in Runs => WaitOK(x)',
           stale' = FALSE, frame' # None \/ pl'.st = "new" => ~pl'.dead,
           pl'.dead => pl.dead \/ \A j \in Runs : req[j].kind \in {"none", "exec"},
           \A j \in Runs : j # x =>
                /\ run'[j].co = run[j].co /\ run'[j].rooted = run[j].rooted
                /\ j \in Tools => run'[j].answers = run[j].answers /\ run'[j].done = run[j].done
                /\ req'[j] = req[j]
                /\ <<"req", j>> \in Held => <<"req", j>> \in Held'
                /\ On(j)' => frame' = frame
                /\ j \in Tools => canc'[j] = canc[j]
    PROVE  WaitInv'
<1>1. ASSUME NEW j \in Runs PROVE WaitOK(j)'
  <2>1. CASE j = x
    BY <2>1
  <2>2. CASE j # x
    <3>0. WaitOK(j)
      BY DEF WaitInv
    <3>1. /\ run'[j].co = run[j].co /\ run'[j].rooted = run[j].rooted
          /\ j \in Tools => run'[j].answers = run[j].answers /\ run'[j].done = run[j].done
          /\ req'[j] = req[j]
          /\ <<"req", j>> \in Held => <<"req", j>> \in Held'
          /\ On(j)' => frame' = frame
          /\ j \in Tools => canc'[j] = canc[j]
      BY <2>2
    <3>2. Asks(j)' => /\ Asks(j)
                       /\ (req[j].kind # "exec" => ~pl'.dead)
      BY <3>0, <3>1 DEF Asks, WaitOK
    <3>3. On(j)' => On(j)
      BY <3>1 DEF On
    <3>4. (Asks(j) => Asks(j)') /\ Self(j)' = Self(j)
      BY <3>1 DEF Asks, Self
    <3> QED BY <3>0, <3>1, <3>2, <3>3, <3>4 DEF WaitOK
  <2> QED BY <2>1, <2>2
<1> QED BY <1>1 DEF WaitInv

\* A run that neither runs nor waits, and holds no cancel.
LEMMA WaitIdle ==
    ASSUME NEW r, ~Asks(r)', ~On(r)', r \in Tools => canc'[r] = None
    PROVE  WaitOK(r)'
  BY DEF WaitOK

\* A step that touches no run and no request.
LEMMA WaitQuiet ==
    ASSUME WaitInv, UNCHANGED <<req, canc>>,
           stale' = FALSE, frame' # None \/ pl'.st = "new" => ~pl'.dead,
           pl'.dead => pl.dead \/ \A j \in Runs : req[j].kind \in {"none", "exec"},
           \A j \in Runs :
                /\ run'[j].co = run[j].co /\ run'[j].rooted = run[j].rooted
                /\ j \in Tools => run'[j].answers = run[j].answers /\ run'[j].done = run[j].done
                /\ <<"req", j>> \in Held => <<"req", j>> \in Held',
           frame' = frame \/ frame' = None \/ frame'.run = Main
    PROVE  WaitInv'
<1>1. \A j \in Runs : On(j)' => frame' = frame
  BY RunSets DEF On
<1>2. None \in Runs => WaitOK(None)'
  BY RunSets
<1> QED BY <1>1, <1>2, RunSets, WaitStep

\* Only the end of a request takes it off the list.
LEMMA RequestsKept ==
    ASSUME LifeInv,
           \/ pend' = pend
           \/ \E e \in Entry : pend' = Append(pend, e)
           \/ \E k \in {"gate", "cmd", "timer", "child"} : \E o : pend' = clm_lua_pending_remove(k, o)
    PROVE  \A j \in Runs : <<"req", j>> \in Held => <<"req", j>> \in Held'
<1>0. TypeOK /\ Unique
  BY LifeParts
<1>1. CASE pend' = pend
  BY <1>0, <1>1, SameList
<1>2. ASSUME NEW e \in Entry, pend' = Append(pend, e)
      PROVE  \A j \in Runs : <<"req", j>> \in Held => <<"req", j>> \in Held'
  BY <1>0, <1>2, AppendHeld
<1>3. ASSUME NEW k \in {"gate", "cmd", "timer", "child"}, NEW o, pend' = clm_lua_pending_remove(k, o)
      PROVE  \A j \in Runs : <<"req", j>> \in Held => <<"req", j>> \in Held'
  <2>1. Held' = Held \ {<<k, o>>}
    BY <1>0, <1>3, Dropped
  <2> QED BY <2>1
<1> QED BY <1>1, <1>2, <1>3

LEMMA WaitParts ==
    ASSUME WaitInv
    PROVE  /\ stale = FALSE /\ (frame # None \/ pl.st = "new" => ~pl.dead)
           /\ \A r \in Runs : WaitOK(r)
  BY DEF WaitInv

\* Loading, registrations and callbacks.
LEMMA WaitPl ==
    ASSUME LifeInv, WaitInv,
           \/ Skipped \/ load_one_plugin \/ LoadFails \/ clm_lua_hook_drop_all
           \/ clm_lua_plugin_callback \/ CallbackEnds
           \/ lua_clm_tool_register \/ lua_clm_tool_remove \/ lua_clm_on
           \/ lua_clm_command_register \/ lua_clm_command_remove
    PROVE  WaitInv'
<1>0. /\ pl \in PlRec /\ stale = FALSE /\ (frame # None \/ pl.st = "new" => ~pl.dead)
      /\ stale \in BOOLEAN
  BY LifeParts, WaitParts
<1>1. /\ UNCHANGED <<run, req, canc, pend, stale>>
      /\ frame' = frame \/ frame' = None \/ frame'.run = Main
  BY DEF Skipped, load_one_plugin, LoadFails, clm_lua_hook_drop_all, clm_lua_plugin_callback,
         CallbackEnds, lua_clm_tool_register, lua_clm_tool_remove, lua_clm_on,
         lua_clm_command_register, lua_clm_command_remove
<1>2. pl'.dead = pl.dead /\ (pl'.st = "new" => pl.st = "new")
  <2>1. CASE \/ Skipped \/ load_one_plugin \/ LoadFails \/ clm_lua_hook_drop_all
             \/ clm_lua_plugin_callback \/ CallbackEnds
    BY <1>0, <2>1 DEF Skipped, load_one_plugin, LoadFails, clm_lua_hook_drop_all,
         clm_lua_plugin_callback, CallbackEnds, PlRec
  <2>2. CASE \/ lua_clm_tool_register \/ lua_clm_tool_remove \/ lua_clm_on
             \/ lua_clm_command_register \/ lua_clm_command_remove
    BY <1>0, <2>2 DEF lua_clm_tool_register, lua_clm_tool_remove, lua_clm_on,
         lua_clm_command_register, lua_clm_command_remove, Registered, Counted, PlRec
  <2> QED BY <2>1, <2>2
<1>3. frame' # None => frame # None \/ pl.st = "new" \/ ~pl.dead
  BY DEF Skipped, load_one_plugin, LoadFails, clm_lua_hook_drop_all, clm_lua_plugin_callback,
         CallbackEnds, lua_clm_tool_register, lua_clm_tool_remove, lua_clm_on,
         lua_clm_command_register, lua_clm_command_remove
<1>4. \A j \in Runs : <<"req", j>> \in Held => <<"req", j>> \in Held'
  BY <1>1, RequestsKept
<1>5. /\ stale' = FALSE
      /\ frame' # None \/ pl'.st = "new" => ~pl'.dead
      /\ pl'.dead => pl.dead
  BY <1>0, <1>1, <1>2, <1>3
<1> QED BY <1>1, <1>4, <1>5, WaitQuiet

\* Timers and children.
LEMMA WaitOthers ==
    ASSUME LifeInv, WaitInv,
           \/ \E x \in Timers : lua_clm_after(x) \/ lua_clm_notify(x) \/ lua_timer_cancel(x)
                                \/ lua_timer_fire(x)
           \/ \E k \in Kids : lua_clm_spawn(k) \/ host_uv_proc_read(k) \/ host_uv_proc_on_exit(k)
    PROVE  WaitInv'
<1>0. /\ pl \in PlRec /\ stale = FALSE /\ (frame # None \/ pl.st = "new" => ~pl.dead)
      /\ stale \in BOOLEAN
  BY LifeParts, WaitParts
<1>1. ASSUME UNCHANGED <<run, req, canc, stale>>, pl' = pl \/ pl' = Counted,
             frame' = frame \/ frame' = None \/ (frame'.run = Main /\ ~pl.dead),
             \/ pend' = pend
             \/ \E e \in Entry : pend' = Append(pend, e)
             \/ \E k \in {"gate", "cmd", "timer", "child"} : \E o : pend' = clm_lua_pending_remove(k, o)
      PROVE  WaitInv'
  <2>1. pl'.dead = pl.dead /\ pl'.st = pl.st
    BY <1>0, <1>1 DEF Counted, PlRec
  <2>2. \A j \in Runs : <<"req", j>> \in Held => <<"req", j>> \in Held'
    BY <1>1, RequestsKept
  <2>3. /\ stale' = FALSE
        /\ frame' # None \/ pl'.st = "new" => ~pl'.dead
        /\ pl'.dead => pl.dead
    BY <1>0, <1>1, <2>1
  <2> QED BY <1>1, <2>2, <2>3, WaitQuiet
<1>2. ASSUME NEW x \in Timers, NEW k, lua_timer_start(x, k) PROVE WaitInv'
  <2>1. <<"timer", x>> \in Entry
    BY DEF Entry
  <2> QED BY <1>1, <1>2, <2>1 DEF lua_timer_start
<1>3. ASSUME NEW x \in Timers, lua_timer_cancel(x) \/ lua_timer_fire(x) PROVE WaitInv'
  <2>1. /\ UNCHANGED <<run, req, canc, stale, pl>> /\ pend' = clm_lua_pending_remove("timer", x)
        /\ frame' = frame \/ frame' = None \/ (frame'.run = Main /\ ~pl.dead)
    BY <1>3 DEF lua_timer_cancel, lua_timer_fire
  <2> QED BY <1>1, <2>1
<1>4. ASSUME NEW k \in Kids, lua_clm_spawn(k) PROVE WaitInv'
  <2>1. <<"child", k>> \in Entry
    BY DEF Entry
  <2> QED BY <1>1, <1>4, <2>1 DEF lua_clm_spawn
<1>5. ASSUME NEW k \in Kids, NEW kd, Settles(k, kd) PROVE WaitInv'
  <2>1. /\ UNCHANGED <<run, req, canc, stale, pl>>
        /\ pend' = pend \/ pend' = clm_lua_pending_remove("child", k)
        /\ frame' = frame \/ frame' = None \/ (frame'.run = Main /\ ~pl.dead)
    BY <1>5 DEF Settles
  <2> QED BY <1>1, <2>1
<1>6. ASSUME NEW k \in Kids, host_uv_proc_read(k) \/ host_uv_proc_on_exit(k) PROVE WaitInv'
  BY <1>5, <1>6 DEF host_uv_proc_read, host_uv_proc_on_exit
<1> QED BY <1>2, <1>3, <1>4, <1>6 DEF lua_clm_after, lua_clm_notify

\* The answers of hooks and commands, from their timers.
LEMMA WaitAnswers ==
    ASSUME LifeInv, WaitInv,
           \/ \E g \in Gates : gate_timer_cb(g)
           \/ \E c \in Cmds : cmd_answer_cb(c) \/ cmd_timeout_cb(c)
    PROVE  WaitInv'
<1>0. /\ pl \in PlRec /\ stale = FALSE /\ (frame # None \/ pl.st = "new" => ~pl.dead)
      /\ run \in [Runs -> RunRec]
  BY LifeParts, WaitParts
<1>1. ASSUME NEW x \in Gates \cup Cmds, gate_timer_cb(x) \/ cmd_answer_cb(x) \/ cmd_timeout_cb(x)
      PROVE  WaitInv'
  <2>0. x \in Runs /\ x \notin Tools
    BY RunSets
  <2>1. /\ UNCHANGED <<req, canc, stale, pl, frame>>
        /\ pend' = pend \/ (\E k \in {"gate", "cmd"} : pend' = clm_lua_pending_remove(k, x))
    BY <1>1 DEF gate_timer_cb, cmd_answer_cb, cmd_timeout_cb
  <2>2. PICK v : /\ run' = [run EXCEPT ![x] = v]
                 /\ v = [run[x] EXCEPT !.timer = "off", !.mem = "freed", !.answers = @ + 1]
                    \/ v = [run[x] EXCEPT !.timer = "off", !.answers = @ + 1]
    <3>1. CASE gate_timer_cb(x) \/ cmd_answer_cb(x)
      <4>1. PICK v : v = [run[x] EXCEPT !.timer = "off", !.mem = "freed", !.answers = @ + 1]
        OBVIOUS
      <4>2. run' = [run EXCEPT ![x] = v]
        BY <3>1, <4>1 DEF gate_timer_cb, cmd_answer_cb
      <4> QED BY <4>1, <4>2
    <3>2. CASE cmd_timeout_cb(x)
      <4>1. PICK v : v = [run[x] EXCEPT !.timer = "off", !.answers = @ + 1]
        OBVIOUS
      <4>2. run' = [run EXCEPT ![x] = v]
        BY <3>2, <4>1 DEF cmd_timeout_cb
      <4> QED BY <4>1, <4>2
    <3> QED BY <1>1, <3>1, <3>2
  <2>3. v.co = run[x].co /\ v.rooted = run[x].rooted
    BY <1>0, <2>0, <2>2 DEF RunRec
  <2>4. \A j \in Runs : /\ run'[j].co = run[j].co /\ run'[j].rooted = run[j].rooted
                        /\ j \in Tools => run'[j].answers = run[j].answers /\ run'[j].done = run[j].done
    BY <1>0, <2>0, <2>2, <2>3
  <2>5. \A j \in Runs : <<"req", j>> \in Held => <<"req", j>> \in Held'
    BY <2>1, RequestsKept
  <2> QED BY <1>0, <2>1, <2>4, <2>5, WaitQuiet
<1> QED BY <1>1

\* A coroutine is entered under its own name.
LEMMA WaitEntries ==
    ASSUME LifeInv, WaitInv, NEW x,
           \/ x \in Tools /\ lua_tool_invoke(x)
           \/ x \in Gates /\ lua_pre_tool_hook(x)
           \/ x \in Cmds /\ clm_lua_hook_command_run(x)
    PROVE  WaitInv'
<1>0. /\ TypeOK /\ pl \in PlRec /\ stale = FALSE /\ (frame # None \/ pl.st = "new" => ~pl.dead)
      /\ run \in [Runs -> RunRec] /\ x \in Runs /\ WaitOK(x) /\ RunOK(x) /\ NewOK
  BY LifeParts, WaitParts, RunSets
<1>1. /\ ~run[x].begun /\ UNCHANGED <<req, canc, stale>> /\ frame = None
      /\ pl'.dead = pl.dead /\ (pl'.st = "new" => pl.st = "new")
      /\ \/ pend' = pend
         \/ x \in Gates /\ pend' = Append(pend, <<"gate", x>>)
         \/ x \in Cmds /\ pend' = Append(pend, <<"cmd", x>>)
  BY <1>0 DEF lua_tool_invoke, lua_pre_tool_hook, clm_lua_hook_command_run, Loop, PlRec
<1>2. ~Asks(x) /\ run[x].answers = 0 /\ (x \in Tools => canc[x] = None)
  BY <1>0, <1>1 DEF RunOK, WaitOK
<1>3. \A j \in Runs : <<"req", j>> \in Held => <<"req", j>> \in Held'
  <2>1. (x \in Gates => <<"gate", x>> \in Entry) /\ (x \in Cmds => <<"cmd", x>> \in Entry)
    BY DEF Entry
  <2> QED BY <1>1, <2>1, RequestsKept
<1>4. ASSUME NEW b \in {"invoke", "hook", "command"}, NEW rn \in [Runs -> RunRec], Enter(b, x, rn),
             \A j \in Runs : j # x => rn[j] = run[j], rn[x].answers = run[x].answers, ~pl.dead
      PROVE  WaitInv'
  <2>1. /\ run'[x].rooted /\ run'[x].answers = rn[x].answers
        /\ \A j \in Runs : j # x => run'[j] = rn[j]
        /\ frame' # None /\ frame'.run = x /\ frame'.ref = x /\ frame'.inv = Self(x)
    BY <1>0, <1>4, EnterFacts DEF Self
  <2>2. ~Asks(x)'
    BY <1>1, <1>2 DEF Asks
  <2>3. Self(x)' = Self(x)
    BY DEF Self
  <2>4. WaitOK(x)'
    BY <1>1, <1>2, <1>4, <2>1, <2>2, <2>3 DEF WaitOK, On
  <2>5. \A j \in Runs : j # x => ~On(j)' /\ run'[j] = run[j]
    BY <1>4, <2>1 DEF On
  <2> QED BY <1>0, <1>1, <1>3, <1>4, <2>4, <2>5, WaitStep
<1>5. CASE x \in Tools /\ lua_tool_invoke(x)
  <2>1. Enter("invoke", x, run) /\ ~pl.dead
    BY <1>5 DEF lua_tool_invoke
  <2> QED BY <1>0, <1>4, <2>1
<1>6. CASE x \in Cmds /\ clm_lua_hook_command_run(x)
  <2>1. PICK u : u = [run[x] EXCEPT !.mem = "live", !.timer = "wall"]
    OBVIOUS
  <2>2. PICK f : f = [run EXCEPT ![x] = u]
    OBVIOUS
  <2>3. run[x] \in RunRec
    BY <1>0
  <2>4. u \in RunRec /\ u.answers = run[x].answers
    BY <2>1, <2>3 DEF RunRec
  <2>5. f \in [Runs -> RunRec] /\ f[x] = u /\ \A j \in Runs : j # x => f[j] = run[j]
    BY <1>0, <2>2, <2>4
  <2>6. Enter("command", x, f) /\ ~pl.dead
    BY <1>6, <2>1, <2>2 DEF clm_lua_hook_command_run
  <2> QED BY <1>4, <2>4, <2>5, <2>6
<1>7. CASE x \in Gates /\ lua_pre_tool_hook(x)
  <2>0. run[x] \in RunRec
    BY <1>0
  <2>1. CASE pl.dead
    <3>1. PICK u : u = [run[x] EXCEPT !.begun = TRUE, !.answers = 1]
      OBVIOUS
    <3>2. run' = [run EXCEPT ![x] = u] /\ UNCHANGED <<pend, frame, pl>>
      BY <1>7, <2>1, <3>1 DEF lua_pre_tool_hook
    <3>3. u.co = run[x].co /\ u.rooted = run[x].rooted
      BY <2>0, <3>1 DEF RunRec
    <3>4. \A j \in Runs : /\ run'[j].co = run[j].co /\ run'[j].rooted = run[j].rooted
                          /\ j \in Tools => run'[j].answers = run[j].answers /\ run'[j].done = run[j].done
      BY <1>0, <1>7, <3>2, <3>3, RunSets
    <3> QED BY <1>0, <1>1, <1>3, <3>2, <3>4, WaitQuiet
  <2>2. CASE ~pl.dead
    <3>1. PICK u : u = [run[x] EXCEPT !.mem = "live"]
      OBVIOUS
    <3>2. PICK f : f = [run EXCEPT ![x] = u]
      OBVIOUS
    <3>3. u \in RunRec /\ u.answers = run[x].answers
      BY <2>0, <3>1 DEF RunRec
    <3>4. f \in [Runs -> RunRec] /\ f[x] = u /\ \A j \in Runs : j # x => f[j] = run[j]
      BY <1>0, <3>2, <3>3
    <3>5. Enter("hook", x, f)
      BY <1>7, <2>2, <3>1, <3>2 DEF lua_pre_tool_hook
    <3> QED BY <1>4, <2>2, <3>3, <3>4, <3>5
  <2> QED BY <2>1, <2>2
<1> QED BY <1>5, <1>6, <1>7

\* A call that fails at once; the plugin may die of it, with no request of
\* the transport or the timer in flight.
LEMMA WaitInvokeFails ==
    ASSUME LifeInv, WaitInv, Orderly, NEW t \in Tools, lua_tool_invoke_fails(t)
    PROVE  WaitInv'
<1>0. /\ TypeOK /\ pl \in PlRec /\ stale = FALSE /\ (frame # None \/ pl.st = "new" => ~pl.dead)
      /\ run \in [Runs -> RunRec] /\ req \in [Runs -> ReqRec] /\ t \in Runs /\ WaitOK(t) /\ RunOK(t) /\ NewOK
      /\ "panic_inflight" \notin Quirks
  BY LifeParts, WaitParts, RunSets DEF Orderly
<1>1. /\ ~run[t].begun /\ UNCHANGED <<req, canc, stale, pend, frame>> /\ frame = None /\ pl.tool # "none"
      /\ run' = Told([run EXCEPT ![t].begun = TRUE], t)
  BY DEF lua_tool_invoke_fails
<1>2. /\ pl'.dead => pl.dead \/ ~\E j \in Runs : req[j].kind \in {"http", "sleep"}
      /\ pl'.st = pl.st
  BY <1>0 DEF lua_tool_invoke_fails, PlRec
<1>3. pl'.dead => pl.dead \/ \A j \in Runs : req[j].kind \in {"none", "exec"}
  BY <1>0, <1>2 DEF ReqRec
<1>4. pl.st # "new"
  BY <1>0, <1>1 DEF NewOK
<1>5. WaitOK(t)'
  <2>1. ~Asks(t)
    BY <1>0, <1>1 DEF RunOK
  <2>2. ~Asks(t)' /\ ~On(t)' /\ canc'[t] = None
    BY <1>0, <1>1, <2>1 DEF Asks, On, WaitOK
  <2> QED BY <2>2, WaitIdle
<1>6. \A j \in Runs : j # t => run'[j].co = run[j].co /\ run'[j].rooted = run[j].rooted
                               /\ run'[j].answers = run[j].answers /\ run'[j].done = run[j].done
  <2>1. PICK u : u = [run[t] EXCEPT !.begun = TRUE]
    OBVIOUS
  <2>2. PICK f : f = [run EXCEPT ![t] = u]
    OBVIOUS
  <2>3. run[t] \in RunRec /\ u \in RunRec
    BY <1>0, <2>1 DEF RunRec
  <2>4. f \in [Runs -> RunRec] /\ \A j \in Runs : j # t => f[j] = run[j]
    BY <1>0, <2>2, <2>3
  <2>5. run' = Told(f, t)
    BY <1>1, <2>1, <2>2
  <2> QED BY <2>4, <2>5, ToldFacts
<1>7. Held' = Held
  BY <1>1 DEF Held
<1>8. \A j \in Runs : On(j)' => frame' = frame
  BY <1>1
<1>9. stale' = FALSE /\ (frame' # None \/ pl'.st = "new" => ~pl'.dead)
  BY <1>0, <1>1, <1>2, <1>4
<1> QED BY <1>1, <1>3, <1>5, <1>6, <1>7, <1>8, <1>9, WaitStep

\* ctx:complete and ctx:fail of a call that has no answer yet.
LEMMA WaitComplete ==
    ASSUME LifeInv, WaitInv, Orderly, NEW t \in Tools, lua_ctx_complete(t)
    PROVE  WaitInv'
<1>1. t = frame.run
  BY DEF lua_ctx_complete, UsesCtx, Orderly
<1>0. /\ TypeOK /\ pl \in PlRec /\ stale = FALSE /\ (frame # None \/ pl.st = "new" => ~pl.dead)
      /\ run \in [Runs -> RunRec] /\ t \in Runs /\ WaitOK(t) /\ RunOK(t)
  BY LifeParts, WaitParts, RunSets
<1>2. /\ frame # None /\ ~run[t].done /\ UNCHANGED <<pl, reg, pend, req, canc, tm, kid, frame>>
      /\ run' = [Told(run, t) EXCEPT ![t].done = TRUE] /\ stale' = (stale \/ Late(t))
  BY DEF lua_ctx_complete, UsesCtx
<1>3. On(t) /\ ~Asks(t) /\ run[t].answers = 0
  BY <1>0, <1>1, <1>2 DEF On, RunOK, WaitOK
<1>4. stale' = FALSE
  <2>1. ~Late(t)
    BY <1>3 DEF Late
  <2>2. stale' = (stale \/ Late(t)) /\ stale = FALSE
    BY <1>0, <1>2
  <2> QED BY <2>1, <2>2
<1>5. PICK f : f = Told(run, t)
  OBVIOUS
<1>6. /\ f \in [Runs -> RunRec] /\ f[t] \in RunRec /\ f[t].rooted = run[t].rooted
      /\ \A j \in Runs : j # t => f[j].co = run[j].co /\ f[j].rooted = run[j].rooted
                                  /\ f[j].answers = run[j].answers /\ f[j].done = run[j].done
  BY <1>0, <1>5, ToldFacts
<1>7. PICK u : u = [f[t] EXCEPT !.done = TRUE]
  OBVIOUS
<1>8. u.rooted = run[t].rooted /\ u.done = TRUE
  BY <1>6, <1>7 DEF RunRec
<1>9. run' = [f EXCEPT ![t] = u]
  BY <1>2, <1>5, <1>7
<1>10. /\ run'[t] = u
       /\ \A j \in Runs : j # t => run'[j] = f[j]
  BY <1>0, <1>6, <1>9
<1>11. WaitOK(t)'
  <2>1. ~Asks(t)' /\ Self(t)' = Self(t)
    BY <1>2, <1>3 DEF Asks, Self
  <2> QED BY <1>0, <1>2, <1>3, <1>8, <1>10, <2>1 DEF WaitOK, On
<1>12. Held' = Held
  BY <1>2 DEF Held
<1>13. frame' # None \/ pl'.st = "new" => ~pl'.dead
  BY <1>0, <1>2
<1>14. pl'.dead => pl.dead
  BY <1>2
<1>15. \A j \in Runs : j # t =>
                /\ run'[j].co = run[j].co /\ run'[j].rooted = run[j].rooted
                /\ j \in Tools => run'[j].answers = run[j].answers /\ run'[j].done = run[j].done
                /\ req'[j] = req[j]
                /\ <<"req", j>> \in Held => <<"req", j>> \in Held'
                /\ On(j)' => frame' = frame
                /\ j \in Tools => canc'[j] = canc[j]
  BY <1>2, <1>6, <1>10, <1>12
<1> QED BY <1>4, <1>11, <1>13, <1>14, <1>15, WaitStep

\* ctx:args_raw of a call whose invocation is still there.
LEMMA WaitArgs ==
    ASSUME LifeInv, WaitInv, Orderly, NEW t \in Tools, lua_ctx_args_raw(t)
    PROVE  WaitInv'
<1>1. UNCHANGED <<pl, reg, pend, run, req, canc, tm, kid, frame>> /\ stale' = stale
  <2>1. PICK l \in BOOLEAN : (l => "args_late" \in Quirks) /\ stale' = (stale \/ l)
    BY DEF lua_ctx_args_raw, Late
  <2>2. ~l /\ stale \in BOOLEAN
    BY <2>1, LifeParts DEF Orderly, TypeOK
  <2> QED BY <2>1, <2>2 DEF lua_ctx_args_raw
<1>2. Held' = Held
  BY <1>1 DEF Held
<1>3. stale' = FALSE /\ (frame' # None \/ pl'.st = "new" => ~pl'.dead) /\ (pl'.dead => pl.dead)
  BY <1>1, WaitParts
<1> QED BY <1>1, <1>2, <1>3, WaitQuiet

\* A coroutine starts to wait under its own name, before it has reported.
LEMMA WaitYield ==
    ASSUME LifeInv, WaitInv, Orderly, frame # None, NEW r \in Runs, r = frame.run, reg = r,
           r \in Tools => ~run[r].done, NEW k \in {"http", "sleep", "exec"},
           NEW p \in PlRec, p.st = pl.st, p.dead = pl.dead, Yields(k, p),
           pend' = Append(pend, <<"req", r>>)
    PROVE  WaitInv'
<1>0. /\ TypeOK /\ pl \in PlRec /\ stale = FALSE /\ ~pl.dead
      /\ WaitOK(r) /\ On(r) /\ RunOK(r) /\ canc \in [Tools -> Runs \cup {None}]
  BY LifeParts, WaitParts DEF On, TypeOK
<1>a. ~Asks(r) /\ "yields_in_c" \notin Quirks
  BY <1>0 DEF WaitOK, RunOK, Orderly
<1>1. /\ pl.st # "new" /\ run[r].begun
      /\ req'[r] = [kind |-> k, inv |-> RegInv, ref |-> reg]
      /\ \A j \in Runs : j # r => req'[j] = req[j]
      /\ run'[r].co = "parked" /\ \A j \in Runs : j # r => run'[j] = run[j]
      /\ run'[r].done = run[r].done /\ run'[r].answers = run[r].answers /\ run'[r].rooted = run[r].rooted
      /\ pl'.st = pl.st /\ pl'.dead = p.dead /\ frame' = None
  BY <1>a, YieldFacts
<1>2. RegInv = Self(r) /\ Self(r)' = Self(r)
  BY DEF RegInv, Self
<1>3. ~Late(Self(r))
  BY <1>0 DEF WaitOK, Late, Self
<1>4. stale' = FALSE
  <2>1. stale' = (stale \/ Late(Self(r))) /\ stale = FALSE
    BY <1>0, <1>2 DEF Yields
  <2> QED BY <1>3, <2>1
<1>5. /\ r \in Tools => canc'[r] = r
      /\ \A j \in Tools : j # r => canc'[j] = canc[j]
  <2>1. CASE r \in Tools
    <3>1. canc' = [canc EXCEPT ![r] = r]
      BY <1>2, <2>1, RunSets DEF Yields, Self
    <3> QED BY <1>0, <2>1, <3>1
  <2>2. CASE r \notin Tools
    <3>1. canc' = canc
      BY <1>2, <2>2 DEF Yields, Self
    <3> QED BY <2>2, <3>1
  <2> QED BY <2>1, <2>2
<1>6. Held' = Held \cup {<<"req", r>>}
  <2>1. <<"req", r>> \in Entry
    BY DEF Entry
  <2> QED BY <1>0, <2>1, AppendHeld
<1>7. WaitOK(r)'
  <2>1. ~On(r)'
    BY <1>1 DEF On
  <2>2. /\ run'[r].co = "parked" /\ run'[r].rooted /\ req'[r].ref = r /\ req'[r].inv = Self(r)
        /\ <<"req", r>> \in Held' /\ ~pl'.dead
        /\ r \in Tools => run'[r].answers = 0 /\ ~run'[r].done /\ canc'[r] = r
    BY <1>0, <1>1, <1>2, <1>5, <1>6 DEF WaitOK
  <2>3. Asks(r)'
    BY <1>1 DEF Asks
  <2> QED BY <1>2, <2>1, <2>2, <2>3 DEF WaitOK
<1>8. \A j \in Runs : j # r =>
                /\ run'[j].co = run[j].co /\ run'[j].rooted = run[j].rooted
                /\ j \in Tools => run'[j].answers = run[j].answers /\ run'[j].done = run[j].done
                /\ req'[j] = req[j]
                /\ <<"req", j>> \in Held => <<"req", j>> \in Held'
                /\ On(j)' => frame' = frame
                /\ j \in Tools => canc'[j] = canc[j]
  BY <1>1, <1>5, <1>6 DEF On
<1>9. ~pl'.dead
  BY <1>0, <1>1
<1> QED BY <1>4, <1>7, <1>8, <1>9, WaitStep

\* http.get, http.post, clm.sleep and clm.exec of an orderly plugin.
LEMMA WaitRequests ==
    ASSUME LifeInv, WaitInv, Orderly,
           lua_ctx_http_get \/ lua_ctx_http_post \/ lua_clm_sleep \/ lua_clm_exec
    PROVE  WaitInv'
<1>0. /\ TypeOK /\ pl \in PlRec /\ stale = FALSE /\ (frame # None \/ pl.st = "new" => ~pl.dead)
      /\ {"overlap", "goes_on", "exec_tearing"} \cap Quirks = {}
  BY LifeParts, WaitParts DEF Orderly
<1>1. frame # None /\ MayYield
  BY DEF lua_ctx_http_get, lua_ctx_http_post, lua_clm_sleep, lua_clm_exec, MayYield
<1>2. PICK r \in Runs : r = frame.run
  BY <1>1 DEF MayYield
<1>3. reg = r /\ (r \in Tools => ~run[r].done)
  BY <1>0, <1>1, <1>2 DEF MayYield
<1>4. pl.inflight + 1 \in Nat /\ pl.total + 1 \in Nat /\ pl.calls + 1 \in Nat
  BY <1>0 DEF PlRec
<1>5. PICK p : p = [pl EXCEPT !.inflight = @ + 1, !.total = @ + 1, !.calls = @ + 1]
  OBVIOUS
<1>6. p \in PlRec /\ p.st = pl.st /\ p.dead = pl.dead
  BY <1>0, <1>4, <1>5 DEF PlRec
<1>7. Counted \in PlRec /\ Counted.st = pl.st /\ Counted.dead = pl.dead
  BY <1>0, <1>4 DEF PlRec, Counted
<1>8. CASE lua_clm_sleep \/ lua_clm_exec
  <2>1. PICK k \in {"sleep", "exec"} : Yields(k, Counted) /\ pend' = Append(pend, <<"req", r>>)
    BY <1>0, <1>2, <1>8 DEF lua_clm_sleep, lua_clm_exec
  <2> QED BY <1>1, <1>2, <1>3, <1>7, <2>1, WaitYield
<1>9. CASE lua_ctx_http_get \/ lua_ctx_http_post
  <2>1. CASE Yields("http", p) /\ pend' = Append(pend, <<"req", r>>)
    BY <1>1, <1>2, <1>3, <1>6, <2>1, WaitYield
  <2>2. CASE ~(Yields("http", p) /\ pend' = Append(pend, <<"req", r>>))
    <3>1. /\ UNCHANGED <<pend, run, req, canc, frame, stale>>
          /\ pl' \in {p, [p EXCEPT !.inflight = pl.inflight], [p EXCEPT !.leaked = @ + 1]}
      BY <1>2, <1>5, <1>9, <2>2 DEF lua_ctx_http_get, lua_ctx_http_post
    <3>2. pl'.dead = pl.dead
      BY <1>6, <3>1 DEF PlRec
    <3>3. Held' = Held
      BY <3>1 DEF Held
    <3>4. stale' = FALSE /\ ~pl'.dead
      BY <1>0, <1>1, <3>1, <3>2
    <3> QED BY <3>1, <3>3, <3>4, WaitQuiet
  <2> QED BY <2>1, <2>2
<1> QED BY <1>8, <1>9

\* The frame's coroutine is over.
LEMMA WaitReturns ==
    ASSUME LifeInv, WaitInv, Returns
    PROVE  WaitInv'
<1>1. PICK r : r = frame.run
  OBVIOUS
<1>0. /\ TypeOK /\ pl \in PlRec /\ stale = FALSE /\ ~pl.dead
      /\ WaitOK(r) /\ On(r) /\ RunOK(r) /\ r \in Runs /\ frame # None
  BY <1>1, LifeParts, WaitParts DEF On, Returns
<1>2. /\ run[r].begun
      /\ \A j \in Runs : j # r => /\ run'[j].done = run[j].done /\ run'[j].co = run[j].co
                                  /\ run'[j].answers = run[j].answers
                                  /\ j # frame.ref => run'[j].rooted = run[j].rooted
  BY <1>1, ReturnFacts
<1>a. ~Asks(r)
  BY <1>0 DEF WaitOK, RunOK
<1>3. frame.ref = r
  BY <1>0 DEF WaitOK
<1>4. /\ UNCHANGED <<req, canc>> /\ pl' = Slots(pl) /\ frame' = None
      /\ stale' = (stale \/ (r \notin Tools /\ run[r].mem = "freed"))
      /\ pend' = pend \/ pend' = clm_lua_pending_remove("cmd", r)
  BY <1>1 DEF Returns
<1>5. stale' = FALSE
  <2>1. ~(r \notin Tools /\ run[r].mem = "freed")
    BY <1>0 DEF RunOK
  <2>2. stale' = (stale \/ (r \notin Tools /\ run[r].mem = "freed")) /\ stale = FALSE
    BY <1>0, <1>4
  <2> QED BY <2>1, <2>2
<1>6. \A j \in Runs : <<"req", j>> \in Held => <<"req", j>> \in Held'
  BY <1>4, RequestsKept
<1>7. WaitOK(r)'
  <2>1. ~Asks(r)' /\ ~On(r)' /\ (r \in Tools => canc'[r] = None)
    BY <1>0, <1>4, <1>a DEF Asks, On, WaitOK
  <2> QED BY <2>1, WaitIdle
<1>8. \A j \in Runs : j # r =>
                /\ run'[j].co = run[j].co /\ run'[j].rooted = run[j].rooted
                /\ j \in Tools => run'[j].answers = run[j].answers /\ run'[j].done = run[j].done
                /\ req'[j] = req[j]
                /\ <<"req", j>> \in Held => <<"req", j>> \in Held'
                /\ On(j)' => frame' = frame
                /\ j \in Tools => canc'[j] = canc[j]
  BY <1>2, <1>3, <1>4, <1>6 DEF On
<1>9. ~pl'.dead
  BY <1>0, <1>4, SlotsFacts
<1> QED BY <1>5, <1>7, <1>8, <1>9, WaitStep

\* It raises, and its call is failed, if it has not reported.
LEMMA WaitRaises ==
    ASSUME LifeInv, WaitInv, Orderly, Raises
    PROVE  WaitInv'
<1>1. PICK r : r = frame.run
  OBVIOUS
<1>0. /\ TypeOK /\ pl \in PlRec /\ stale = FALSE /\ ~pl.dead /\ run \in [Runs -> RunRec]
      /\ WaitOK(r) /\ On(r) /\ RunOK(r) /\ r \in Tools /\ r \in Runs /\ frame # None
      /\ "late_error" \notin Quirks
  BY <1>1, LifeParts, WaitParts, RunSets DEF On, Raises, Orderly
<1>2. ~Asks(r) /\ frame.ref = r /\ frame.inv = r /\ (~run[r].done => run[r].answers = 0)
  BY <1>0 DEF RunOK, WaitOK, Self
<1>3. PICK i : i = IF frame.by = "invoke" /\ run[r].done THEN None ELSE frame.inv
  OBVIOUS
<1>4. /\ run[r].done => frame.by = "invoke"
      /\ run' = Told(Released(run, r, frame.ref), i) /\ stale' = (stale \/ Late(i))
      /\ pl' = Slots(pl) /\ frame' = None /\ UNCHANGED <<pend, req, canc>>
  BY <1>0, <1>1, <1>3 DEF Raises
<1>5. i \in {None, r} /\ ~Late(i)
  BY <1>2, <1>3, <1>4 DEF Late
<1>6. stale' = FALSE
  <2>1. stale' = (stale \/ Late(i)) /\ stale = FALSE
    BY <1>0, <1>4
  <2> QED BY <1>5, <2>1
<1>7. PICK f : f = Released(run, r, frame.ref)
  OBVIOUS
<1>8. /\ f \in [Runs -> RunRec]
      /\ \A j \in Runs : j # r => /\ f[j].done = run[j].done /\ f[j].answers = run[j].answers
                                  /\ f[j].co = run[j].co /\ f[j].rooted = run[j].rooted
  BY <1>0, <1>2, <1>7, ReleasedFacts
<1>9. \A j \in Runs : j # r => /\ run'[j].done = run[j].done /\ run'[j].answers = run[j].answers
                               /\ run'[j].co = run[j].co /\ run'[j].rooted = run[j].rooted
  <2>1. run' = Told(f, i) /\ i \in Tools \cup {None}
    BY <1>0, <1>4, <1>5, <1>7
  <2>2. \A j \in Runs : /\ run'[j].done = f[j].done /\ run'[j].co = f[j].co /\ run'[j].rooted = f[j].rooted
                        /\ run'[j].answers = IF j = i THEN 1 ELSE f[j].answers
    BY <1>8, <2>1, ToldFacts
  <2> QED BY <1>5, <1>8, <2>2, RunSets
<1>10. WaitOK(r)'
  <2>1. ~Asks(r)' /\ ~On(r)' /\ (r \in Tools => canc'[r] = None)
    BY <1>0, <1>2, <1>4 DEF Asks, On, WaitOK
  <2> QED BY <2>1, WaitIdle
<1>11. Held' = Held
  BY <1>4 DEF Held
<1>12. \A j \in Runs : j # r =>
                /\ run'[j].co = run[j].co /\ run'[j].rooted = run[j].rooted
                /\ j \in Tools => run'[j].answers = run[j].answers /\ run'[j].done = run[j].done
                /\ req'[j] = req[j]
                /\ <<"req", j>> \in Held => <<"req", j>> \in Held'
                /\ On(j)' => frame' = frame
                /\ j \in Tools => canc'[j] = canc[j]
  BY <1>4, <1>9, <1>11 DEF On
<1>13. ~pl'.dead
  BY <1>0, <1>4, SlotsFacts
<1> QED BY <1>6, <1>10, <1>12, <1>13, WaitStep

\* The request of r is over: r is resumed as itself, or runs no more.
LEMMA WaitTaken ==
    ASSUME LifeInv, WaitInv, NEW r \in Runs, Asks(r),
           canc' = Unset(req[r].inv), req' = [req EXCEPT ![r] = NoReq],
           Held' = Held \ {<<"req", r>>}, stale' = FALSE, UNCHANGED pl,
           \A j \in Runs : j # r =>
                /\ run'[j].co = run[j].co /\ run'[j].rooted = run[j].rooted
                /\ j \in Tools => run'[j].answers = run[j].answers /\ run'[j].done = run[j].done,
           \/ frame' = None
           \/ /\ ~pl.dead /\ frame' # None
              /\ frame'.run = r /\ frame'.inv = req[r].inv /\ frame'.ref = req[r].ref
              /\ run'[r].rooted = run[r].rooted /\ run'[r].answers = run[r].answers
    PROVE  WaitInv'
<1>0. /\ TypeOK /\ (frame # None \/ pl.st = "new" => ~pl.dead) /\ WaitOK(r)
      /\ req \in [Runs -> ReqRec] /\ canc \in [Tools -> Runs \cup {None}]
  BY LifeParts, WaitParts DEF TypeOK
<1>1. /\ run[r].rooted /\ req[r].ref = r /\ req[r].inv = Self(r)
      /\ r \in Tools => run[r].answers = 0
  BY <1>0 DEF WaitOK
<1>2. /\ r \in Tools => canc'[r] = None
      /\ \A j \in Tools : j # r => canc'[j] = canc[j]
  <2>1. CASE r \in Tools
    <3>1. canc' = [canc EXCEPT ![r] = None]
      BY <1>1, <2>1, RunSets DEF Unset, Self
    <3> QED BY <1>0, <2>1, <3>1
  <2>2. CASE r \notin Tools
    <3>1. canc' = canc
      BY <1>1, <2>2 DEF Unset, Self
    <3> QED BY <2>2, <3>1
  <2> QED BY <2>1, <2>2
<1>3. req'[r] = NoReq /\ \A j \in Runs : j # r => req'[j] = req[j]
  BY <1>0
<1>4. ~Asks(r)' /\ Self(r)' = Self(r)
  BY <1>3 DEF Asks, NoReq, Self
<1>5. WaitOK(r)'
  <2>1. On(r)' => /\ run'[r].rooted /\ frame'.ref = r /\ frame'.inv = Self(r)
                  /\ r \in Tools => run'[r].answers = 0
    BY <1>1 DEF On
  <2> QED BY <1>2, <1>4, <2>1 DEF WaitOK
<1>6. \A j \in Runs : j # r =>
                /\ run'[j].co = run[j].co /\ run'[j].rooted = run[j].rooted
                /\ j \in Tools => run'[j].answers = run[j].answers /\ run'[j].done = run[j].done
                /\ req'[j] = req[j]
                /\ <<"req", j>> \in Held => <<"req", j>> \in Held'
                /\ On(j)' => frame' = frame
                /\ j \in Tools => canc'[j] = canc[j]
  BY <1>2, <1>3 DEF On
<1>7. (frame' # None \/ pl'.st = "new" => ~pl'.dead) /\ (pl'.dead => pl.dead)
  BY <1>0
<1> QED BY <1>5, <1>6, <1>7, WaitStep

LEMMA WaitTakenUp ==
    ASSUME LifeInv, WaitInv, NEW r \in Runs, Taken(r)
    PROVE  /\ canc' = Unset(req[r].inv) /\ req' = [req EXCEPT ![r] = NoReq]
           /\ Held' = Held \ {<<"req", r>>}
  BY TakenFacts DEF Taken

LEMMA WaitResume ==
    ASSUME LifeInv, WaitInv, NEW r \in Runs, Asks(r), ~pl.dead,
           NEW b \in {"http", "sleep", "exec"}, Resume(b, r)
    PROVE  WaitInv'
<1>0. TypeOK /\ run \in [Runs -> RunRec] /\ stale = FALSE
  BY LifeParts, WaitParts
<1>1. /\ Taken(r) /\ UNCHANGED pl /\ stale' = (stale \/ pl.dead)
      /\ frame' = [by |-> b, run |-> r, inv |-> req[r].inv, ref |-> req[r].ref]
  BY DEF Resume
<1>2. PICK f : f = [run EXCEPT ![r].co = "running"]
  OBVIOUS
<1>3. \A j \in Runs : /\ f[j].done = run[j].done /\ f[j].answers = run[j].answers
                      /\ f[j].rooted = run[j].rooted
                      /\ j # r => f[j].co = run[j].co
  BY <1>0, <1>2, CoEdit
<1>4. run' = f
  BY <1>2 DEF Resume
<1>5. stale' = FALSE
  BY <1>0, <1>1
<1>6. /\ frame' # None /\ frame'.run = r /\ frame'.inv = req[r].inv /\ frame'.ref = req[r].ref
  BY <1>1, ReqFacts, RunFrame
<1>7. /\ run'[r].rooted = run[r].rooted /\ run'[r].answers = run[r].answers
      /\ \A j \in Runs : j # r =>
                /\ run'[j].co = run[j].co /\ run'[j].rooted = run[j].rooted
                /\ j \in Tools => run'[j].answers = run[j].answers /\ run'[j].done = run[j].done
  BY <1>3, <1>4
<1>8. /\ canc' = Unset(req[r].inv) /\ req' = [req EXCEPT ![r] = NoReq]
      /\ Held' = Held \ {<<"req", r>>}
  BY <1>1, WaitTakenUp
<1> QED BY <1>1, <1>5, <1>6, <1>7, <1>8, WaitTaken

\* Completions resume a run as itself; that of a dead plugin's child fails
\* the call.
LEMMA WaitCompletions ==
    ASSUME LifeInv, WaitInv, NEW r \in Runs, Completion(r) \/ lua_exec_done(r)
    PROVE  WaitInv'
<1>0. /\ TypeOK /\ run \in [Runs -> RunRec] /\ stale = FALSE /\ WaitOK(r)
      /\ frame \in Frames \cup {None}
  BY LifeParts, WaitParts
<1>1. Asks(r) /\ frame = None
  BY DEF Completion, lua_http_on_success, lua_http_on_error, lua_sleep_timer_cb, lua_exec_done,
         Asks, Loop
<1>2. /\ run[r].co = "parked" /\ req[r].ref = r /\ run[r].rooted /\ req[r].inv = Self(r) /\ (req[r].kind # "exec" => ~pl.dead)
      /\ r \in Tools => run[r].answers = 0
  BY <1>0, <1>1 DEF WaitOK
<1>3. CASE \E b \in {"http", "sleep", "exec"} : Resume(b, r) /\ ~pl.dead
  BY <1>1, <1>3, WaitResume
<1>a. ~SkipsResume(r, run)
  BY <1>1, <1>2 DEF SkipsResume
<1>4. CASE ~\E b \in {"http", "sleep", "exec"} : Resume(b, r) /\ ~pl.dead
  <2>1. Completion(r) => \E b \in {"http", "sleep", "exec"} : Resume(b, r) /\ ~pl.dead
    <3>1. lua_http_on_success(r) => Resume("http", r) /\ ~pl.dead
      BY <1>2, <1>a DEF lua_http_on_success
    <3>2. lua_http_on_error(r) => Resume("http", r) /\ ~pl.dead
      BY <1>2, <1>a DEF lua_http_on_error
    <3>3. lua_sleep_timer_cb(r) => Resume("sleep", r) /\ ~pl.dead
      BY <1>2, <1>a DEF lua_sleep_timer_cb
    <3> QED BY <3>1, <3>2, <3>3 DEF Completion
  <2>2. PICK i : i = req[r].inv
    OBVIOUS
  <2>3. /\ Taken(r) /\ UNCHANGED <<pl, frame>>
        /\ run' = Told(Lost(run, r), i)
        /\ stale' = (stale \/ Late(i))
    BY <1>4, <1>a, <2>1, <2>2 DEF lua_exec_done
  <2>4. ~Late(i) /\ i \in Tools \cup {None} /\ (i = r \/ i = None)
    BY <1>2, <2>2 DEF Late, Self
  <2>5. stale' = FALSE
    BY <1>0, <2>3, <2>4
  <2>6. PICK f : f = Lost(run, r)
    OBVIOUS
  <2>7. /\ f \in [Runs -> RunRec]
        /\ \A j \in Runs : /\ f[j].done = run[j].done /\ f[j].answers = run[j].answers
                           /\ f[j].rooted = run[j].rooted
                           /\ j # r => f[j].co = run[j].co
    BY <1>0, <2>6, LostFacts
  <2>8. run' = Told(f, i)
    BY <2>3, <2>6
  <2>9. \A j \in Runs : /\ run'[j].done = f[j].done /\ run'[j].co = f[j].co /\ run'[j].rooted = f[j].rooted
                        /\ run'[j].answers = IF j = i THEN 1 ELSE f[j].answers
    BY <2>4, <2>7, <2>8, ToldFacts
  <2>10. \A j \in Runs : j # r =>
                /\ run'[j].co = run[j].co /\ run'[j].rooted = run[j].rooted
                /\ j \in Tools => run'[j].answers = run[j].answers /\ run'[j].done = run[j].done
    <3>1. \A j \in Runs : j # r => j # i
      BY <2>4, RunSets
    <3> QED BY <2>7, <2>9, <3>1
  <2>11. /\ canc' = Unset(req[r].inv) /\ req' = [req EXCEPT ![r] = NoReq]
         /\ Held' = Held \ {<<"req", r>>}
    BY <2>3, WaitTakenUp
  <2> QED BY <1>1, <2>3, <2>5, <2>10, <2>11, WaitTaken
<1> QED BY <1>3, <1>4

\* A timeout takes the request of the call that has waited too long.
LEMMA WaitTimeout ==
    ASSUME LifeInv, WaitInv, NEW t \in Tools, ToolTimeout(t)
    PROVE  WaitInv'
<1>0. /\ TypeOK /\ run \in [Runs -> RunRec] /\ stale = FALSE /\ WaitOK(t)
      /\ t \in Runs /\ t # None
  BY LifeParts, WaitParts, RunSets
<1>1. /\ Asks(t) /\ frame = None /\ canc[t] = t
  BY <1>0 DEF ToolTimeout, WaitOK, Loop
<1>2. /\ run[t].co = "parked" /\ req[t].ref = t /\ run[t].rooted /\ (req[t].kind # "exec" => ~pl.dead)
  BY <1>0, <1>1 DEF WaitOK
<1>3. \/ req[t].kind = "sleep" /\ lua_sleep_cancel(t, t)
      \/ req[t].kind = "exec" /\ lua_exec_cancel(t, t)
      \/ req[t].kind = "http" /\ lua_http_cancel(t, t) /\ ~SkipsResume(t, [run EXCEPT ![t].spent = TRUE])
  BY <1>1, <1>2 DEF ToolTimeout, SkipsResume
<1>4. Taken(t) /\ UNCHANGED <<pl, tm, kid>>
  BY <1>3 DEF lua_sleep_cancel, lua_exec_cancel, lua_http_cancel
<1>5. /\ canc' = Unset(req[t].inv) /\ req' = [req EXCEPT ![t] = NoReq]
      /\ Held' = Held \ {<<"req", t>>}
  BY <1>0, <1>4, WaitTakenUp
<1>6. CASE req[t].kind = "sleep" /\ lua_sleep_cancel(t, t)
  <2>0. PICK f : f = Lost(run, t)
    OBVIOUS
  <2>1. PICK h : Spends(f, t, h)
    BY DEF Spends
  <2>2. /\ f \in [Runs -> RunRec]
        /\ \A j \in Runs : j # t => /\ f[j].done = run[j].done /\ f[j].answers = run[j].answers
                                    /\ f[j].co = run[j].co /\ f[j].rooted = run[j].rooted
    BY <1>0, <2>0, LostFacts
  <2>3. /\ h \in [Runs -> RunRec]
        /\ \A j \in Runs : j # t => /\ h[j].done = run[j].done /\ h[j].answers = run[j].answers
                                    /\ h[j].co = run[j].co /\ h[j].rooted = run[j].rooted
    BY <1>0, <2>1, <2>2, SpentEdit
  <2>7. run' = Told(h, t) /\ frame' = None /\ stale' = stale
    BY <1>1, <1>6, <2>0, <2>1 DEF lua_sleep_cancel, Spends
  <2>8. \A j \in Runs : j # t =>
                /\ run'[j].co = run[j].co /\ run'[j].rooted = run[j].rooted
                /\ j \in Tools => run'[j].answers = run[j].answers /\ run'[j].done = run[j].done
    BY <2>3, <2>7, ToldFacts
  <2>9. stale' = FALSE
    BY <1>0, <2>7
  <2> QED BY <1>0, <1>1, <1>4, <1>5, <2>7, <2>8, <2>9, WaitTaken
<1>7. CASE req[t].kind = "exec" /\ lua_exec_cancel(t, t)
  <2>0. PICK u : u = [run[t] EXCEPT !.spent = TRUE]
    OBVIOUS
  <2>1. PICK f : f = [run EXCEPT ![t] = u]
    OBVIOUS
  <2>2. PICK h : h = Released(f, t, t)
    OBVIOUS
  <2>3. u \in RunRec
    BY <1>0, <2>0, SpentRec
  <2>4. f \in [Runs -> RunRec] /\ \A j \in Runs : j # t => f[j] = run[j]
    BY <1>0, <2>1, <2>3
  <2>5. /\ h \in [Runs -> RunRec]
        /\ \A j \in Runs : j # t => /\ h[j].done = run[j].done /\ h[j].answers = run[j].answers
                                    /\ h[j].co = run[j].co /\ h[j].rooted = run[j].rooted
    BY <1>0, <2>2, <2>4, ReleasedFacts
  <2>6. run' = Told(h, t) /\ frame' = None
    BY <1>1, <1>2, <1>7, <2>0, <2>1, <2>2 DEF lua_exec_cancel
  <2>7. \A j \in Runs : j # t =>
                /\ run'[j].co = run[j].co /\ run'[j].rooted = run[j].rooted
                /\ j \in Tools => run'[j].answers = run[j].answers /\ run'[j].done = run[j].done
    BY <2>5, <2>6, ToldFacts
  <2>8. stale' = FALSE
    BY <1>0, <1>2, <1>7 DEF lua_exec_cancel
  <2> QED BY <1>0, <1>1, <1>4, <1>5, <2>6, <2>7, <2>8, WaitTaken
<1>8. CASE /\ req[t].kind = "http" /\ lua_http_cancel(t, t)
           /\ ~SkipsResume(t, [run EXCEPT ![t].spent = TRUE])
  <2>0. PICK f : f = [run EXCEPT ![t].co = "running"]
    OBVIOUS
  <2>1. PICK u : u = [f[t] EXCEPT !.spent = TRUE]
    OBVIOUS
  <2>2. f \in [Runs -> RunRec] /\ f[t].rooted = run[t].rooted /\ f[t].answers = run[t].answers
    BY <1>0, <2>0, CoEdit
  <2>3. \A j \in Runs : j # t => f[j] = run[j]
    BY <1>0, <2>0
  <2>4. u \in RunRec /\ u.rooted = f[t].rooted /\ u.answers = f[t].answers
    BY <1>0, <2>1, <2>2, SpentRec
  <2>5. /\ run' = [f EXCEPT ![t] = u]
        /\ frame' = [by |-> "http", run |-> t, inv |-> req[t].inv, ref |-> req[t].ref]
    <3>1. [f EXCEPT ![t] = u] = [run EXCEPT ![t].co = "running", ![t].spent = TRUE]
      BY <2>0, <2>1
    <3> QED BY <1>8, <3>1 DEF lua_http_cancel
  <2>6. /\ run'[t].rooted = run[t].rooted /\ run'[t].answers = run[t].answers
        /\ \A j \in Runs : j # t => run'[j] = run[j]
    BY <1>0, <2>2, <2>3, <2>4, <2>5
  <2>7. frame' # None /\ frame'.run = t /\ frame'.inv = req[t].inv /\ frame'.ref = req[t].ref
    BY <1>0, <2>5, ReqFacts, RunFrame
  <2>8. ~pl.dead /\ stale' = FALSE
    BY <1>0, <1>2, <1>8 DEF lua_http_cancel
  <2> QED BY <1>0, <1>1, <1>4, <1>5, <2>6, <2>7, <2>8, WaitTaken
<1> QED BY <1>3, <1>6, <1>7, <1>8

LEMMA WaitAbandoned ==
    ASSUME LifeInv, WaitInv, NEW t \in Tools, ToolAbandoned(t)
    PROVE  WaitInv'
<1>0. /\ TypeOK /\ run \in [Runs -> RunRec] /\ stale = FALSE /\ WaitOK(t) /\ t \in Runs
  BY LifeParts, WaitParts, RunSets
<1>1. /\ canc[t] = None /\ frame = None /\ UNCHANGED <<pl, pend, req, canc, frame, stale>>
      /\ run' = [run EXCEPT ![t].answers = 1, ![t].spent = TRUE]
  BY DEF ToolAbandoned, Loop
<1>2. ~Asks(t)
  BY <1>0, <1>1, RunSets DEF WaitOK
<1>3. WaitOK(t)'
  <2>1. ~Asks(t)' /\ ~On(t)' /\ canc'[t] = None
    BY <1>1, <1>2 DEF Asks, On
  <2> QED BY <2>1, WaitIdle
<1>4. \A j \in Runs : j # t => run'[j] = run[j]
  BY <1>0, <1>1
<1>5. Held' = Held
  BY <1>1 DEF Held
<1>6. /\ stale' = FALSE /\ (frame' # None \/ pl'.st = "new" => ~pl'.dead) /\ (pl'.dead => pl.dead)
      /\ \A j \in Runs : req'[j] = req[j] /\ (On(j)' => frame' = frame)
  BY <1>0, <1>1, WaitParts
<1> QED BY <1>1, <1>3, <1>4, <1>5, <1>6, WaitStep

\* Unloading takes one entry off the list, and answers for it.
LEMMA WaitTeardown ==
    ASSUME LifeInv, WaitInv, clm_lua_pending_teardown_all
    PROVE  WaitInv'
<1>0. /\ TypeOK /\ Unique /\ ListedOK /\ run \in [Runs -> RunRec] /\ stale = FALSE
      /\ \A r \in Runs : WaitOK(r)
  BY LifeParts, WaitParts
<1> DEFINE e == pend[1]
<1>1. /\ frame = None /\ pl.st = "tearing" /\ pend # << >> /\ pend' = Tail(pend)
      /\ UNCHANGED <<pl, frame>>
      /\ \/ e[1] = "gate" /\ gate_run_teardown(e[2])
         \/ e[1] = "cmd" /\ cmd_run_teardown(e[2])
         \/ e[1] = "req" /\ RequestTeardown(e[2])
         \/ e[1] \in {"timer", "child"} /\ UNCHANGED <<run, req, canc, stale>>
  BY DEF clm_lua_pending_teardown_all
<1>2. Held' = Held \ {e} /\ e \in Entry /\ e \in Held
  BY <1>0, <1>1, Popped
<1> HIDE DEF e
<1>3. PICK o : o = e[2]
  OBVIOUS
<1>4. e = <<e[1], o>> /\ Held' = Held \ {<<e[1], o>>} /\ <<e[1], o>> \in Held
  BY <1>2, <1>3, EntryKinds
<1>5. (e[1] = "req" => o \in Runs) /\ (e[1] = "gate" => o \in Gates) /\ (e[1] = "cmd" => o \in Cmds)
  BY <1>2, <1>3, EntryKinds
<1>6. e[1] # "req" => \A j \in Runs : <<"req", j>> \in Held => <<"req", j>> \in Held'
  BY <1>4
<1>7. CASE e[1] \in {"gate", "cmd"}
  <2>1. o \in Runs /\ o \notin Tools /\ run[o] \in RunRec
    BY <1>0, <1>5, <1>7, RunSets
  <2>2. /\ UNCHANGED <<req, canc, stale>>
        /\ \/ run' = [run EXCEPT ![o].timer = "off", ![o].mem = "freed", ![o].answers = @ + 1]
           \/ run' = [run EXCEPT ![o].timer = "off", ![o].mem = "freed",
                                 ![o].answers = IF @ = 0 THEN 1 ELSE @]
    BY <1>1, <1>3, <1>7 DEF gate_run_teardown, cmd_run_teardown
  <2>3. PICK v : /\ v.co = run[o].co /\ v.rooted = run[o].rooted
                 /\ run' = [run EXCEPT ![o] = v]
    <3>1. CASE run' = [run EXCEPT ![o].timer = "off", ![o].mem = "freed", ![o].answers = @ + 1]
      <4>1. PICK v : v = [run[o] EXCEPT !.timer = "off", !.mem = "freed",
                                        !.answers = run[o].answers + 1]
        OBVIOUS
      <4>2. run' = [run EXCEPT ![o] = v]
        BY <3>1, <4>1
      <4>3. v.co = run[o].co /\ v.rooted = run[o].rooted
        BY <2>1, <4>1 DEF RunRec
      <4> QED BY <4>2, <4>3
    <3>2. CASE run' = [run EXCEPT ![o].timer = "off", ![o].mem = "freed",
                                  ![o].answers = IF @ = 0 THEN 1 ELSE @]
      <4>1. PICK v : v = [run[o] EXCEPT !.timer = "off", !.mem = "freed",
                                        !.answers = IF run[o].answers = 0 THEN 1 ELSE run[o].answers]
        OBVIOUS
      <4>2. run' = [run EXCEPT ![o] = v]
        BY <3>2, <4>1
      <4>3. v.co = run[o].co /\ v.rooted = run[o].rooted
        BY <2>1, <4>1 DEF RunRec
      <4> QED BY <4>2, <4>3
    <3> QED BY <2>2, <3>1, <3>2
  <2>4. \A j \in Runs : /\ run'[j].co = run[j].co /\ run'[j].rooted = run[j].rooted
                        /\ j \in Tools => run'[j].answers = run[j].answers /\ run'[j].done = run[j].done
    BY <1>0, <2>1, <2>3
  <2>5. stale' = FALSE /\ frame' = frame /\ pl' = pl
    BY <1>0, <1>1, <2>2
  <2> QED BY <1>1, <1>6, <1>7, <2>2, <2>4, <2>5, WaitQuiet
<1>8. CASE e[1] = "req"
  <2>1. /\ o \in Runs /\ Asks(o) /\ WaitOK(o)
    BY <1>0, <1>4, <1>5, <1>8 DEF ListedOK
  <2>2. PICK i : i = req[o].inv
    OBVIOUS
  <2>3. /\ (i = None \/ (i = o /\ i \in Tools)) /\ ~Late(i)
    BY <2>1, <2>2 DEF WaitOK, Self, Late
  <2>4. PICK f : f = Lost(run, o)
    OBVIOUS
  <2>5. /\ canc' = Unset(req[o].inv) /\ req' = [req EXCEPT ![o] = NoReq]
        /\ run' = Told(f, i) /\ stale' = (stale \/ Late(i))
    BY <1>1, <1>3, <1>8, <2>2, <2>4 DEF RequestTeardown
  <2>6. stale' = FALSE
    BY <1>0, <2>3, <2>5
  <2>7. /\ f \in [Runs -> RunRec]
        /\ \A j \in Runs : /\ f[j].done = run[j].done /\ f[j].answers = run[j].answers
                           /\ f[j].rooted = run[j].rooted
                           /\ j # o => f[j].co = run[j].co
    BY <1>0, <2>1, <2>4, LostFacts
  <2>8. \A j \in Runs : /\ run'[j].done = f[j].done /\ run'[j].co = f[j].co /\ run'[j].rooted = f[j].rooted
                        /\ run'[j].answers = IF j = i THEN 1 ELSE f[j].answers
    BY <2>3, <2>5, <2>7, ToldFacts
  <2>9. \A j \in Runs : j # o => j # i
    BY <2>3, RunSets
  <2>10. \A j \in Runs : j # o =>
                /\ run'[j].co = run[j].co /\ run'[j].rooted = run[j].rooted
                /\ j \in Tools => run'[j].answers = run[j].answers /\ run'[j].done = run[j].done
    BY <2>7, <2>8, <2>9
  <2>11. Held' = Held \ {<<"req", o>>} /\ frame' = None /\ pl' = pl
    BY <1>1, <1>4, <1>8
  <2> QED BY <2>1, <2>5, <2>6, <2>10, <2>11, WaitTaken
<1>9. CASE e[1] \in {"timer", "child"}
  <2>1. UNCHANGED <<run, req, canc, stale>> /\ stale' = FALSE /\ frame' = frame /\ pl' = pl
    BY <1>0, <1>1, <1>9
  <2> QED BY <1>1, <1>6, <1>9, <2>1, WaitQuiet
<1> QED BY <1>1, <1>7, <1>8, <1>9

\* lua_close, when nothing waits.
LEMMA WaitEnvFree ==
    ASSUME LifeInv, WaitInv, clm_lua_env_free
    PROVE  WaitInv'
<1>0. /\ TypeOK /\ pl \in PlRec /\ stale = FALSE /\ \A r \in Runs : WaitOK(r)
  BY LifeParts, WaitParts
<1>1. /\ frame = None /\ pend = << >> /\ UNCHANGED <<req, canc, frame, stale>>
      /\ pl' = [pl EXCEPT !.st = "freed"]
  BY DEF clm_lua_env_free
<1>2. ASSUME NEW r \in Runs PROVE WaitOK(r)'
  <2>1. Held = {}
    BY <1>0, <1>1, EmptyList
  <2>2. ~Asks(r)
    BY <1>0, <2>1 DEF WaitOK
  <2>3. ~Asks(r)' /\ ~On(r)' /\ (r \in Tools => canc'[r] = None)
    BY <1>0, <1>1, <2>2 DEF Asks, On, WaitOK
  <2> QED BY <2>3, WaitIdle
<1>3. ~stale' /\ (frame' # None \/ pl'.st = "new" => ~pl'.dead)
  BY <1>0, <1>1 DEF PlRec
<1> QED BY <1>2, <1>3 DEF WaitInv

\* Every step of an orderly plugin, and of those who call it.
LEMMA NextWait ==
    ASSUME LifeInv, WaitInv, Orderly, [Next]_vars
    PROVE  WaitInv'
<1>1. CASE Skipped \/ load_one_plugin \/ clm_lua_plugin_callback \/ clm_lua_hook_drop_all
  BY <1>1, WaitPl
<1>2. ASSUME NEW t \in Tools, lua_tool_invoke(t) \/ lua_tool_invoke_fails(t)
                              \/ ToolTimeout(t) \/ ToolAbandoned(t)
      PROVE  WaitInv'
  BY <1>2, WaitEntries, WaitInvokeFails, WaitTimeout, WaitAbandoned
<1>3. ASSUME NEW g \in Gates, lua_pre_tool_hook(g) \/ gate_timer_cb(g) PROVE WaitInv'
  BY <1>3, WaitEntries, WaitAnswers
<1>4. ASSUME NEW c \in Cmds, clm_lua_hook_command_run(c) \/ cmd_answer_cb(c) \/ cmd_timeout_cb(c)
      PROVE  WaitInv'
  BY <1>4, WaitEntries, WaitAnswers
<1>5. CASE Plugin
  <2>1. CASE \E t \in Tools : lua_ctx_complete(t) \/ lua_ctx_args_raw(t)
    BY <2>1, WaitComplete, WaitArgs
  <2>2. CASE lua_ctx_http_get \/ lua_ctx_http_post \/ lua_clm_sleep \/ lua_clm_exec
    BY <2>2, WaitRequests
  <2>3. CASE \E x \in Timers : lua_clm_after(x) \/ lua_clm_notify(x) \/ lua_timer_cancel(x)
    BY <2>3, WaitOthers
  <2>4. CASE \E k \in Kids : lua_clm_spawn(k)
    BY <2>4, WaitOthers
  <2>5. CASE lua_clm_tool_register \/ lua_clm_tool_remove \/ lua_clm_on
             \/ lua_clm_command_register \/ lua_clm_command_remove
    BY <2>5, WaitPl
  <2> QED BY <1>5, <2>1, <2>2, <2>3, <2>4, <2>5 DEF Plugin
<1>6. CASE Ends
  BY <1>6, WaitReturns, WaitRaises, WaitPl DEF Ends
<1>7. ASSUME NEW r \in Runs, Completion(r) \/ lua_exec_done(r) PROVE WaitInv'
  BY <1>7, WaitCompletions
<1>8. ASSUME NEW x \in Timers, lua_timer_fire(x) PROVE WaitInv'
  BY <1>8, WaitOthers
<1>9. ASSUME NEW k \in Kids, host_uv_proc_read(k) \/ host_uv_proc_on_exit(k) PROVE WaitInv'
  BY <1>9, WaitOthers
<1>10. CASE clm_lua_pending_teardown_all \/ clm_lua_env_free
  BY <1>10, WaitTeardown, WaitEnvFree
<1>11. CASE UNCHANGED vars
  <2>1. UNCHANGED <<pl, pend, run, req, canc, frame, stale>>
    BY <1>11 DEF vars
  <2>2. Held' = Held
    BY <2>1 DEF Held
  <2>3. stale' = FALSE /\ (frame' # None \/ pl'.st = "new" => ~pl'.dead) /\ (pl'.dead => pl.dead)
    BY <2>1, WaitParts
  <2> QED BY <2>1, <2>2, <2>3, WaitQuiet
<1> QED BY <1>1, <1>2, <1>3, <1>4, <1>5, <1>6, <1>7, <1>8, <1>9, <1>10, <1>11 DEF Next

\* A coroutine that waits is rooted by its own reference, the run it will
\* answer is still allocated, the invocation it names has no answer yet and
\* can be cancelled through it, and nothing dead or answered was ever used,
\* if the plugin is orderly (lua_cmd_run's lifetime rule, lua_http_cancel).
THEOREM OrderlyWaits ==
    ASSUME Orderly
    PROVE  Spec => []WaitersSafe
<1>1. LifeInv /\ WaitInv /\ [Next]_vars => LifeInv' /\ WaitInv'
  BY NextLife, NextWait
<1>2. LifeInv /\ WaitInv => WaitersSafe
  <2> SUFFICES ASSUME LifeInv, WaitInv PROVE WaitersSafe
    OBVIOUS
  <2>1. ASSUME NEW r \in Runs, req[r].kind # "none"
        PROVE  /\ run[r].co = "parked" /\ run[r].rooted /\ req[r].ref = r
               /\ r \notin Tools /\ pl.st = "up" => run[r].mem = "live"
               /\ r \in Tools => run[r].answers = 0 /\ canc[r] = r
    <3>1. WaitOK(r) /\ RunOK(r) /\ Asks(r)
      BY <2>1, LifeParts, WaitParts DEF Asks
    <3> QED BY <3>1 DEF WaitOK, RunOK, Waits
  <2>2. ~stale
    BY DEF WaitInv
  <2> QED BY <2>1, <2>2 DEF WaitersSafe
<1> QED BY <1>1, <1>2, InitLife, InitWait, PTL DEF Spec

-----------------------------------------------------------------------------
(* The slots of the HTTP budget.                                           *)

\* The runs that wait for the transport, and the completion being delivered.
Http == {r \in Runs : req[r].kind = "http"}
Busy == IF frame # None /\ frame.by = "http" THEN 1 ELSE 0

CountInv == pl.st \in {"new", "up"} => pl.inflight = Cardinality(Http) + Busy + pl.leaked

LEMMA HttpFinite == IsFiniteSet(Http) /\ Cardinality(Http) \in Nat
<1>1. IsFiniteSet(Runs) /\ Http \subseteq Runs
  BY RunSets DEF Http
<1> QED BY <1>1, FS_Subset, FS_CardinalityType

LEMMA InitCount == Init => CountInv
<1> SUFFICES ASSUME Init PROVE CountInv
  OBVIOUS
<1>1. Http = {} /\ Busy = 0 /\ pl.inflight = 0 /\ pl.leaked = 0
  BY DEF Init, Http, Busy, NoReq
<1>2. Cardinality(Http) = 0
  BY <1>1, FS_EmptySet
<1> QED BY <1>1, <1>2 DEF CountInv

\* A request taken leaves the others.
LEMMA HttpTaken ==
    ASSUME LifeInv, NEW r \in Runs, req' = [req EXCEPT ![r] = NoReq]
    PROVE  Cardinality(Http)' = IF req[r].kind = "http" THEN Cardinality(Http) - 1 ELSE Cardinality(Http)
<1>1. req \in [Runs -> ReqRec]
  BY LifeParts
<1>2. Http' = Http \ {r}
  <2>1. req'[r].kind = "none" /\ \A j \in Runs : j # r => req'[j] = req[j]
    BY <1>1 DEF NoReq
  <2> QED BY <2>1 DEF Http
<1>3. r \in Http <=> req[r].kind = "http"
  BY DEF Http
<1>4. Cardinality(Http \ {r}) = IF r \in Http THEN Cardinality(Http) - 1 ELSE Cardinality(Http)
  BY HttpFinite, FS_RemoveElement
<1> QED BY <1>2, <1>3, <1>4

\* A run that asked for nothing asks.
LEMMA HttpAdded ==
    ASSUME LifeInv, NEW r \in Runs, ~Asks(r), \A j \in Runs : j # r => req'[j] = req[j]
    PROVE  Cardinality(Http)' = IF req'[r].kind = "http" THEN Cardinality(Http) + 1 ELSE Cardinality(Http)
<1>1. r \notin Http
  BY DEF Http, Asks
<1>2. CASE req'[r].kind = "http"
  <2>1. Http' = Http \cup {r}
    BY <1>2 DEF Http
  <2>2. Cardinality(Http \cup {r}) = Cardinality(Http) + 1
    BY <1>1, HttpFinite, FS_AddElement
  <2> QED BY <1>2, <2>1, <2>2
<1>3. CASE req'[r].kind # "http"
  <2>1. Http' = Http
    BY <1>1, <1>3 DEF Http
  <2> QED BY <1>3, <2>1
<1> QED BY <1>2, <1>3

\* A step that touches neither requests nor slots.
LEMMA CountKept ==
    ASSUME CountInv, UNCHANGED req,
           \/ pl'.st \notin {"new", "up"}
           \/ /\ pl.st \in {"new", "up"} /\ pl'.inflight = pl.inflight /\ pl'.leaked = pl.leaked
              /\ \/ frame' = frame
                 \/ /\ frame # None => frame.by # "http"
                    /\ frame' # None => frame'.by # "http"
    PROVE  CountInv'
<1>1. Http' = Http
  BY DEF Http
<1>2. CASE pl'.st \notin {"new", "up"}
  BY <1>2 DEF CountInv
<1>3. CASE /\ pl.st \in {"new", "up"} /\ pl'.inflight = pl.inflight /\ pl'.leaked = pl.leaked
           /\ \/ frame' = frame
              \/ /\ frame # None => frame.by # "http"
                 /\ frame' # None => frame'.by # "http"
  <2>1. Busy' = Busy
    BY <1>3 DEF Busy
  <2> QED BY <1>1, <1>3, <2>1 DEF CountInv
<1> QED BY <1>2, <1>3

\* Loading, registrations, callbacks, timers and children.
LEMMA CountPl ==
    ASSUME LifeInv, CountInv,
           \/ Skipped \/ load_one_plugin \/ LoadFails \/ clm_lua_hook_drop_all
           \/ clm_lua_plugin_callback \/ CallbackEnds
           \/ lua_clm_tool_register \/ lua_clm_tool_remove \/ lua_clm_on
           \/ lua_clm_command_register \/ lua_clm_command_remove
           \/ clm_lua_pending_teardown_all \/ clm_lua_env_free
    PROVE  CountInv'
<1>0. /\ pl \in PlRec /\ frame \in Frames \cup {None} /\ (frame # None => FrameOK(frame)) /\ NewOK
  BY LifeParts DEF TypeOK
<1>1. CASE \/ Skipped \/ LoadFails \/ clm_lua_hook_drop_all \/ clm_lua_pending_teardown_all
           \/ clm_lua_env_free
  <2>1. pl'.st \in {"freed", "tearing"}
    BY <1>0, <1>1 DEF Skipped, LoadFails, clm_lua_hook_drop_all, clm_lua_pending_teardown_all,
         clm_lua_env_free, PlRec
  <2> QED BY <2>1 DEF CountInv
<1>2. CASE load_one_plugin \/ clm_lua_plugin_callback
  <2>1. /\ UNCHANGED req /\ frame = None /\ frame'.by # "http"
        /\ pl.st \in {"new", "up"} /\ pl'.inflight = pl.inflight /\ pl'.leaked = pl.leaked
    BY <1>0, <1>2 DEF load_one_plugin, clm_lua_plugin_callback, Loop, NewOK, PlRec
  <2> QED BY <2>1, CountKept
<1>3. CASE CallbackEnds
  <2>1. UNCHANGED <<req, pl>> /\ frame' = None /\ frame.by # "http"
    BY <1>0, <1>3 DEF CallbackEnds, FrameOK
  <2>2. pl' = pl
    BY <2>1
  <2> QED BY <2>1, <2>2, CountKept
<1>4. CASE \/ lua_clm_tool_register \/ lua_clm_tool_remove \/ lua_clm_on
           \/ lua_clm_command_register \/ lua_clm_command_remove
  <2>1. UNCHANGED <<req, frame>>
    BY <1>4 DEF lua_clm_tool_register, lua_clm_tool_remove, lua_clm_on,
         lua_clm_command_register, lua_clm_command_remove
  <2>2. pl'.st = pl.st /\ pl'.inflight = pl.inflight /\ pl'.leaked = pl.leaked
    BY <1>0, <1>4 DEF lua_clm_tool_register, lua_clm_tool_remove, lua_clm_on,
         lua_clm_command_register, lua_clm_command_remove, Registered, Counted, PlRec
  <2> QED BY <2>1, <2>2, CountKept
<1> QED BY <1>1, <1>2, <1>3, <1>4

LEMMA CountOthers ==
    ASSUME LifeInv, CountInv,
           \/ \E x \in Timers : lua_clm_after(x) \/ lua_clm_notify(x) \/ lua_timer_cancel(x)
                                \/ lua_timer_fire(x)
           \/ \E k \in Kids : lua_clm_spawn(k) \/ host_uv_proc_read(k) \/ host_uv_proc_on_exit(k)
    PROVE  CountInv'
<1>0. pl \in PlRec
  BY LifeParts
<1>1. ASSUME UNCHANGED req, pl' = pl \/ pl' = Counted,
             frame' = frame \/ (frame = None /\ (frame' # None => frame'.by # "http"))
      PROVE  CountInv'
  <2>1. pl'.st = pl.st /\ pl'.inflight = pl.inflight /\ pl'.leaked = pl.leaked
    BY <1>0, <1>1 DEF Counted, PlRec
  <2> QED BY <1>1, <2>1, CountKept
<1>2. ASSUME NEW x \in Timers, NEW k, lua_timer_start(x, k) PROVE CountInv'
  BY <1>1, <1>2 DEF lua_timer_start
<1>3. ASSUME NEW x \in Timers, lua_timer_cancel(x) \/ lua_timer_fire(x) PROVE CountInv'
  BY <1>1, <1>3 DEF lua_timer_cancel, lua_timer_fire, Loop
<1>4. ASSUME NEW k \in Kids, lua_clm_spawn(k) PROVE CountInv'
  BY <1>1, <1>4 DEF lua_clm_spawn
<1>5. ASSUME NEW k \in Kids, NEW kd, frame = None, Settles(k, kd) PROVE CountInv'
  <2>1. /\ UNCHANGED <<req, pl>>
        /\ frame' = frame \/ (frame = None /\ (frame' # None => frame'.by # "http"))
    BY <1>5 DEF Settles
  <2> QED BY <1>1, <2>1
<1>6. ASSUME NEW k \in Kids, host_uv_proc_read(k) \/ host_uv_proc_on_exit(k) PROVE CountInv'
  BY <1>5, <1>6 DEF host_uv_proc_read, host_uv_proc_on_exit
<1> QED BY <1>2, <1>3, <1>4, <1>6 DEF lua_clm_after, lua_clm_notify

\* Entries, reports and answers.
LEMMA CountEntries ==
    ASSUME LifeInv, CountInv, NEW x,
           \/ x \in Tools /\ (lua_tool_invoke(x) \/ lua_tool_invoke_fails(x) \/ ToolAbandoned(x))
           \/ x \in Gates /\ (lua_pre_tool_hook(x) \/ gate_timer_cb(x))
           \/ x \in Cmds /\ (clm_lua_hook_command_run(x) \/ cmd_answer_cb(x) \/ cmd_timeout_cb(x))
           \/ \E t \in Tools : lua_ctx_complete(t) \/ lua_ctx_args_raw(t)
    PROVE  CountInv'
<1>0. pl \in PlRec
  BY LifeParts
<1>1. UNCHANGED req /\ pl'.st = pl.st /\ pl'.inflight = pl.inflight /\ pl'.leaked = pl.leaked
  BY <1>0 DEF lua_tool_invoke, lua_tool_invoke_fails, ToolAbandoned, lua_pre_tool_hook, gate_timer_cb,
         clm_lua_hook_command_run, cmd_answer_cb, cmd_timeout_cb, lua_ctx_complete, lua_ctx_args_raw,
         PlRec
<1>2. frame' = frame \/ (frame = None /\ (frame' # None => frame'.by # "http"))
  <2>1. ASSUME NEW b \in {"invoke", "hook", "command"}, NEW r, NEW rn, Enter(b, r, rn)
        PROVE  frame'.by # "http"
    BY <2>1 DEF Enter
  <2>2. CASE lua_tool_invoke(x)
    BY <2>1, <2>2 DEF lua_tool_invoke
  <2>3. CASE lua_pre_tool_hook(x)
    BY <2>1, <2>3 DEF lua_pre_tool_hook, Loop
  <2>4. CASE clm_lua_hook_command_run(x)
    BY <2>1, <2>4 DEF clm_lua_hook_command_run, Loop
  <2>5. CASE lua_tool_invoke_fails(x) \/ ToolAbandoned(x) \/ gate_timer_cb(x) \/ cmd_answer_cb(x)
             \/ cmd_timeout_cb(x) \/ \E t \in Tools : lua_ctx_complete(t) \/ lua_ctx_args_raw(t)
    BY <2>5 DEF lua_tool_invoke_fails, ToolAbandoned, gate_timer_cb, cmd_answer_cb, cmd_timeout_cb,
         lua_ctx_complete, lua_ctx_args_raw
  <2> QED BY <2>2, <2>3, <2>4, <2>5
<1> QED BY <1>1, <1>2, CountKept

\* A frame that closes gives back its slot.
LEMMA SlotBack ==
    ASSUME frame # None, NEW p \in PlRec, NEW n \in Nat, p.inflight = n + Busy
    PROVE  Slots(p).inflight = n /\ Slots(p).leaked = p.leaked
<1>1. p.inflight \in Nat
  BY DEF PlRec
<1>2. CASE frame.by = "http"
  <2>1. p.inflight = n + 1
    BY <1>2 DEF Busy
  <2>2. Slots(p) = [p EXCEPT !.inflight = p.inflight - 1]
    BY <1>1, <1>2, <2>1 DEF Slots, clm_lua_http_done
  <2>3. Slots(p).inflight = p.inflight - 1 /\ Slots(p).leaked = p.leaked
    BY <2>2 DEF PlRec
  <2> QED BY <2>1, <2>3
<1>3. CASE frame.by # "http"
  BY <1>3 DEF Busy, Slots
<1> QED BY <1>2, <1>3

\* A new request of the transport takes a slot, a new one of another kind
\* none; a start that runs out of memory leaks the one it took.
LEMMA CountRequests ==
    ASSUME LifeInv, CountInv, lua_ctx_http_get \/ lua_ctx_http_post \/ lua_clm_sleep \/ lua_clm_exec
    PROVE  CountInv'
<1>0. pl \in PlRec /\ Cardinality(Http) \in Nat /\ Busy \in {0, 1}
  BY LifeParts, HttpFinite DEF Busy
<1>1. frame # None /\ MayYield
  BY DEF lua_ctx_http_get, lua_ctx_http_post, lua_clm_sleep, lua_clm_exec, MayYield
<1>2. PICK r \in Runs : r = frame.run
  BY <1>1 DEF MayYield
<1>3. /\ pl.inflight \in Nat /\ pl.inflight + 1 \in Nat /\ pl.total + 1 \in Nat /\ pl.calls + 1 \in Nat
      /\ pl.leaked \in Nat
  BY <1>0 DEF PlRec
<1>4. PICK p : p = [pl EXCEPT !.inflight = @ + 1, !.total = @ + 1, !.calls = @ + 1]
  OBVIOUS
<1>5. p \in PlRec /\ p.st = pl.st /\ p.inflight = pl.inflight + 1 /\ p.leaked = pl.leaked
  BY <1>0, <1>3, <1>4 DEF PlRec
<1>6. Counted \in PlRec /\ Counted.st = pl.st /\ Counted.inflight = pl.inflight
      /\ Counted.leaked = pl.leaked
  BY <1>0, <1>3 DEF PlRec, Counted
<1>10. ~Asks(r) /\ pl.st # "new"
  BY <1>1, <1>2, FrameOpen DEF MayYield, Asks
<1>7. ASSUME NEW k \in {"http", "sleep", "exec"}, NEW q \in PlRec, q.st = pl.st, Yields(k, q),
             q.inflight = IF k = "http" THEN pl.inflight + 1 ELSE pl.inflight, q.leaked = pl.leaked
      PROVE  CountInv'
  <2>1. /\ req'[r].kind = k /\ \A j \in Runs : j # r => req'[j] = req[j]
        /\ pl'.st = pl.st
    BY <1>1, <1>2, <1>7, <1>10, YieldFacts
  <2>0. (frame' = None /\ pl' = Slots(q)) \/ (frame' = frame /\ pl' = q)
    BY <1>7 DEF Yields
  <2>2. Cardinality(Http)' = IF k = "http" THEN Cardinality(Http) + 1 ELSE Cardinality(Http)
    BY <1>10, <2>1, HttpAdded
  <2>3. CASE pl.st \in {"new", "up"}
    <3>1. pl.inflight = Cardinality(Http) + Busy + pl.leaked
      BY <2>3 DEF CountInv
    <3>2. PICK n \in Nat : n = IF k = "http" THEN Cardinality(Http) + 1 ELSE Cardinality(Http)
      BY <1>0
    <3>3. q.inflight = (n + pl.leaked) + Busy
      BY <1>0, <1>3, <1>7, <3>1, <3>2
    <3>4. CASE frame' = None /\ pl' = Slots(q)
      <4>1. pl'.inflight = n + pl.leaked /\ pl'.leaked = pl.leaked
        <5>1. n + pl.leaked \in Nat
          BY <1>3, <3>2
        <5> QED BY <1>1, <1>7, <3>3, <3>4, <5>1, SlotBack
      <4>2. Busy' = 0
        BY <3>4 DEF Busy
      <4>3. pl'.inflight = Cardinality(Http)' + Busy' + pl'.leaked
        BY <1>3, <2>2, <3>2, <4>1, <4>2
      <4> QED BY <4>3 DEF CountInv
    <3>5. CASE frame' = frame /\ pl' = q
      <4>1. Busy' = Busy
        BY <3>5 DEF Busy
      <4>2. pl'.inflight = Cardinality(Http)' + Busy' + pl'.leaked
        BY <1>0, <1>3, <1>7, <2>2, <3>2, <3>3, <3>5, <4>1
      <4> QED BY <4>2 DEF CountInv
    <3> QED BY <2>0, <3>4, <3>5
  <2>4. CASE pl.st \notin {"new", "up"}
    BY <2>1, <2>4 DEF CountInv
  <2> QED BY <2>3, <2>4
<1>8. CASE lua_clm_sleep \/ lua_clm_exec
  <2>1. PICK k \in {"sleep", "exec"} : Yields(k, Counted)
    BY <1>8 DEF lua_clm_sleep, lua_clm_exec
  <2> QED BY <1>6, <1>7, <2>1
<1>9. CASE lua_ctx_http_get \/ lua_ctx_http_post
  <2>1. CASE Yields("http", p)
    BY <1>5, <1>7, <2>1
  <2>2. CASE /\ UNCHANGED <<req, frame>>
             /\ pl' = IF pl.st = "up" THEN [p EXCEPT !.inflight = pl.inflight] ELSE p
    <3>1. /\ pl'.st = pl.st
          /\ pl.st = "up" => pl'.inflight = pl.inflight /\ pl'.leaked = pl.leaked
      BY <1>3, <1>5, <2>2 DEF PlRec
    <3>2. \/ pl'.st \notin {"new", "up"}
          \/ /\ pl.st \in {"new", "up"} /\ pl'.inflight = pl.inflight /\ pl'.leaked = pl.leaked
             /\ frame' = frame
      BY <1>0, <1>10, <2>2, <3>1 DEF PlRec
    <3> QED BY <2>2, <3>2, CountKept
  <2>3. CASE UNCHANGED <<req, frame>> /\ pl' = [p EXCEPT !.leaked = @ + 1]
    <3>1. pl'.st = pl.st /\ pl'.inflight = pl.inflight + 1 /\ pl'.leaked = pl.leaked + 1
      BY <1>3, <1>5, <2>3 DEF PlRec
    <3>2. Cardinality(Http)' = Cardinality(Http) /\ Busy' = Busy
      BY <2>3 DEF Http, Busy
    <3>3. CASE pl.st \in {"new", "up"}
      <4>1. pl.inflight = Cardinality(Http) + Busy + pl.leaked
        BY <3>3 DEF CountInv
      <4>2. pl'.inflight = Cardinality(Http)' + Busy' + pl'.leaked
        BY <1>0, <1>3, <3>1, <3>2, <4>1
      <4> QED BY <4>2 DEF CountInv
    <3>4. CASE pl.st \notin {"new", "up"}
      BY <3>1, <3>4 DEF CountInv
    <3> QED BY <3>3, <3>4
  <2> QED BY <1>4, <1>9, <2>1, <2>2, <2>3 DEF lua_ctx_http_get, lua_ctx_http_post
<1> QED BY <1>8, <1>9

\* A coroutine that ends gives back the slot of the completion it ran under.
LEMMA CountEnds ==
    ASSUME LifeInv, CountInv, Returns \/ Raises
    PROVE  CountInv'
<1>0. pl \in PlRec /\ Cardinality(Http) \in Nat /\ pl.leaked \in Nat /\ Busy \in {0, 1}
  BY LifeParts, HttpFinite DEF PlRec, Busy
<1>1. frame # None /\ UNCHANGED req /\ pl' = Slots(pl) /\ frame' = None
  BY DEF Returns, Raises
<1>2. Http' = Http /\ Busy' = 0
  BY <1>1 DEF Http, Busy
<1>3. pl'.st = pl.st
  BY <1>0, <1>1, SlotsFacts
<1>4. CASE pl.st \in {"new", "up"}
  <2>1. PICK n \in Nat : n = Cardinality(Http) + pl.leaked
    BY <1>0
  <2>2. pl.inflight = n + Busy
    BY <1>0, <1>4, <2>1 DEF CountInv
  <2>3. pl'.inflight = n /\ pl'.leaked = pl.leaked
    BY <1>0, <1>1, <2>2, SlotBack
  <2>4. pl'.inflight = Cardinality(Http') + Busy' + pl'.leaked
    BY <1>0, <1>2, <2>1, <2>3
  <2> QED BY <2>4 DEF CountInv
<1>5. CASE pl.st \notin {"new", "up"}
  BY <1>3, <1>5 DEF CountInv
<1> QED BY <1>4, <1>5

\* The slot of a request passes to the completion that takes it.
LEMMA CountTaken ==
    ASSUME LifeInv, CountInv, NEW r \in Runs, req' = [req EXCEPT ![r] = NoReq], UNCHANGED pl,
           frame = None,
           IF req[r].kind = "http" THEN frame' # None /\ frame'.by = "http"
           ELSE frame' # None => frame'.by # "http"
    PROVE  CountInv'
<1>0. Cardinality(Http) \in Nat /\ Cardinality(Http)' \in Nat
  <2>1. Cardinality(Http) \in Nat
    BY HttpFinite
  <2>2. IsFiniteSet(Http')
    <3>1. IsFiniteSet(Runs) /\ Http' \subseteq Runs
      BY RunSets DEF Http
    <3> QED BY <3>1, FS_Subset
  <2> QED BY <2>1, <2>2, FS_CardinalityType
<1>1. Cardinality(Http)' = IF req[r].kind = "http" THEN Cardinality(Http) - 1 ELSE Cardinality(Http)
  BY HttpTaken
<1>2. Busy = 0 /\ Busy' = IF req[r].kind = "http" THEN 1 ELSE 0
  BY DEF Busy
<1>3. Cardinality(Http)' + Busy' = Cardinality(Http) + Busy
  BY <1>0, <1>1, <1>2
<1> QED BY <1>3 DEF CountInv

LEMMA CountCompletions ==
    ASSUME LifeInv, WaitInv, CountInv, NEW r \in Runs, Completion(r) \/ lua_exec_done(r)
    PROVE  CountInv'
<1>0. WaitOK(r) /\ frame = None /\ Asks(r)
  BY WaitParts DEF Completion, lua_http_on_success, lua_http_on_error, lua_sleep_timer_cb,
         lua_exec_done, Asks, Loop
<1>a. run[r].co = "parked" /\ ~SkipsResume(r, run)
  BY <1>0 DEF WaitOK, SkipsResume
<1>1. ASSUME Resume(req[r].kind, r) PROVE CountInv'
  <2>1. PICK k : k = req[r].kind
    OBVIOUS
  <2>2. /\ req' = [req EXCEPT ![r] = NoReq] /\ UNCHANGED pl
        /\ frame' = [by |-> k, run |-> r, inv |-> req[r].inv, ref |-> req[r].ref]
    BY <1>1, <2>1 DEF Resume, Taken
  <2>3. frame'.by = k /\ (k = "http" => frame' # None)
    <3>1. k = "http" => frame' # None
      BY <2>2, ReqFacts, RunFrame
    <3> QED BY <2>2, <3>1
  <2> QED BY <1>0, <2>1, <2>2, <2>3, CountTaken
<1>2. CASE Completion(r)
  <2>1. Resume(req[r].kind, r)
    BY <1>0, <1>2, <1>a DEF Completion, lua_http_on_success, lua_http_on_error, lua_sleep_timer_cb, WaitOK
  <2> QED BY <1>1, <2>1
<1>3. CASE lua_exec_done(r)
  <2>1. CASE Resume("exec", r)
    BY <1>1, <1>3, <2>1 DEF lua_exec_done
  <2>2. CASE ~Resume("exec", r)
    <3>1. req' = [req EXCEPT ![r] = NoReq] /\ UNCHANGED <<pl, frame>> /\ req[r].kind = "exec"
      BY <1>3, <1>a, <2>2 DEF lua_exec_done, Taken
    <3> QED BY <1>0, <3>1, CountTaken
  <2> QED BY <2>1, <2>2
<1> QED BY <1>2, <1>3

LEMMA CountTimeout ==
    ASSUME LifeInv, WaitInv, CountInv, NEW t \in Tools, ToolTimeout(t)
    PROVE  CountInv'
<1>0. WaitOK(t) /\ t \in Runs /\ t # None /\ frame = None
  BY WaitParts, RunSets DEF ToolTimeout, Loop
<1>1. Asks(t) /\ canc[t] = t /\ run[t].co = "parked"
  BY <1>0 DEF ToolTimeout, WaitOK
<1>2. \/ req[t].kind = "sleep" /\ lua_sleep_cancel(t, t)
      \/ req[t].kind = "exec" /\ lua_exec_cancel(t, t)
      \/ req[t].kind = "http" /\ lua_http_cancel(t, t) /\ ~SkipsResume(t, [run EXCEPT ![t].spent = TRUE])
  BY <1>1 DEF ToolTimeout, SkipsResume
<1>3. req' = [req EXCEPT ![t] = NoReq] /\ UNCHANGED pl
  BY <1>2 DEF lua_sleep_cancel, lua_exec_cancel, lua_http_cancel, Taken
<1>4. CASE req[t].kind # "http"
  <2>1. frame' = None
    BY <1>0, <1>2, <1>4 DEF lua_sleep_cancel, lua_exec_cancel
  <2> QED BY <1>0, <1>3, <1>4, <2>1, CountTaken
<1>5. CASE req[t].kind = "http"
  <2>1. frame' = [by |-> "http", run |-> t, inv |-> req[t].inv, ref |-> req[t].ref]
    BY <1>2, <1>5 DEF lua_http_cancel
  <2>2. frame' # None /\ frame'.by = "http"
    BY <1>0, <2>1, ReqFacts, RunFrame
  <2> QED BY <1>0, <1>3, <1>5, <2>2, CountTaken
<1> QED BY <1>4, <1>5

LEMMA NextCount ==
    ASSUME LifeInv, WaitInv, CountInv, [Next]_vars
    PROVE  CountInv'
<1>1. CASE Skipped \/ load_one_plugin \/ clm_lua_plugin_callback \/ clm_lua_hook_drop_all
  BY <1>1, CountPl
<1>2. ASSUME NEW t \in Tools, lua_tool_invoke(t) \/ lua_tool_invoke_fails(t)
                              \/ ToolTimeout(t) \/ ToolAbandoned(t)
      PROVE  CountInv'
  BY <1>2, CountEntries, CountTimeout
<1>3. ASSUME NEW g \in Gates, lua_pre_tool_hook(g) \/ gate_timer_cb(g) PROVE CountInv'
  BY <1>3, CountEntries
<1>4. ASSUME NEW c \in Cmds, clm_lua_hook_command_run(c) \/ cmd_answer_cb(c) \/ cmd_timeout_cb(c)
      PROVE  CountInv'
  BY <1>4, CountEntries
<1>5. CASE Plugin
  <2>1. CASE \E t \in Tools : lua_ctx_complete(t) \/ lua_ctx_args_raw(t)
    BY <2>1, CountEntries
  <2>2. CASE lua_ctx_http_get \/ lua_ctx_http_post \/ lua_clm_sleep \/ lua_clm_exec
    BY <2>2, CountRequests
  <2>3. CASE \E x \in Timers : lua_clm_after(x) \/ lua_clm_notify(x) \/ lua_timer_cancel(x)
    BY <2>3, CountOthers
  <2>4. CASE \E k \in Kids : lua_clm_spawn(k)
    BY <2>4, CountOthers
  <2>5. CASE lua_clm_tool_register \/ lua_clm_tool_remove \/ lua_clm_on
             \/ lua_clm_command_register \/ lua_clm_command_remove
    BY <2>5, CountPl
  <2> QED BY <1>5, <2>1, <2>2, <2>3, <2>4, <2>5 DEF Plugin
<1>6. CASE Ends
  BY <1>6, CountEnds, CountPl DEF Ends
<1>7. ASSUME NEW r \in Runs, Completion(r) \/ lua_exec_done(r) PROVE CountInv'
  BY <1>7, CountCompletions
<1>8. ASSUME NEW x \in Timers, lua_timer_fire(x) PROVE CountInv'
  BY <1>8, CountOthers
<1>9. ASSUME NEW k \in Kids, host_uv_proc_read(k) \/ host_uv_proc_on_exit(k) PROVE CountInv'
  BY <1>9, CountOthers
<1>10. CASE clm_lua_pending_teardown_all \/ clm_lua_env_free
  BY <1>10, CountPl
<1>11. CASE UNCHANGED vars
  BY <1>11 DEF vars, CountInv, Http, Busy
<1> QED BY <1>1, <1>2, <1>3, <1>4, <1>5, <1>6, <1>7, <1>8, <1>9, <1>10, <1>11 DEF Next

\* The pending list of an orderly plugin holds each struct that a callback
\* can still reach, and nothing else, and every slot of the HTTP budget
\* belongs to a request in flight, to the completion being delivered, or to
\* a start that ran out of memory
\* (clm_lua_pending_add/_remove/_teardown_all, clm_lua_http_start/_done).
THEOREM OrderlyCounts ==
    ASSUME Orderly
    PROVE  Spec => []CountsExact
<1> DEFINE Inv == LifeInv /\ ListInv /\ WaitInv /\ CountInv
<1>1. Inv /\ [Next]_vars => Inv'
  BY NextLife, NextList, NextWait, NextCount
<1>2. Inv => CountsExact
  <2> SUFFICES ASSUME LifeInv, ListInv, WaitInv, CountInv PROVE CountsExact
    OBVIOUS
  <2>0. TypeOK /\ Unique /\ ListedOK /\ \A r \in Runs : RunOK(r) /\ WaitOK(r)
    BY LifeParts, WaitParts
  <2>1. \A r \in Runs : Listed("req", r) <=> req[r].kind # "none"
    BY <2>0, ListedHeld DEF ListedOK, WaitOK, Asks
  <2>2. \A g \in Gates : Listed("gate", g) <=> run[g].mem = "live"
    BY <2>0, ListedHeld, RunSets DEF RunOK
  <2>3. \A c \in Cmds : Listed("cmd", c) <=> run[c].mem = "live"
    BY <2>0, ListedHeld, RunSets DEF RunOK
  <2>4. \A x \in Timers : (Listed("timer", x) <=> tm[x] \in {"set", "note"}) /\ tm[x] # "twice"
    BY ListedHeld DEF ListInv, TimerOK
  <2>5. \A k \in Kids : Listed("child", k) <=> kid[k].st = "live" /\ ~kid[k].detached
    BY ListedHeld DEF ListInv, KidOK
  <2>6. pl.st = "freed" => pend = << >>
    BY <2>0, EmptyList DEF ListInv
  <2>7. PendingExact
    BY <2>0, <2>1, <2>2, <2>3, <2>4, <2>5, <2>6 DEF PendingExact, Unique
  <2>8. InflightExact
    BY DEF InflightExact, CountInv, Http, Busy
  <2> QED BY <2>7, <2>8 DEF CountsExact
<1>3. Init => Inv
  BY InitLife, InitList, InitWait, InitCount
<1> QED BY <1>1, <1>2, <1>3, PTL DEF Spec
=============================================================================
