--------------------------- MODULE HttpMux_proofs ---------------------------
(***************************************************************************)
(* Proofs about HttpMux for any finite set of requests and any limit.      *)
(***************************************************************************)
EXTENDS HttpMux, Integers, SequenceTheorems, FiniteSetTheorems, WellFoundedInduction, TLAPS

-----------------------------------------------------------------------------
(* The sequences of the stack of running functions and the linked lists.   *)

\* A set of naturals has its minimum in it.
LEMMA MinIsMember ==
    ASSUME NEW I \in SUBSET Nat, I # {}
    PROVE  Min(I) \in I /\ \A i \in I : Min(I) <= i
<1> DEFINE R == OpToRel(<, Nat)
<1>1. IsWellFoundedOn(R, Nat)
  BY NatLessThanWellFounded
<1>2. \A a, b \in Nat : <<a, b>> \in R <=> a < b
  BY DEF OpToRel
<1> HIDE DEF R
<1>3. PICK x \in I : \A y \in I : ~(<<y, x>> \in R)
  BY <1>1, WFMin
<1>4. ASSUME NEW y \in I PROVE x <= y
  <2>1. x \in Nat /\ y \in Nat
    OBVIOUS
  <2>2. ~(y < x)
    BY <1>2, <1>3, <2>1
  <2> QED BY <2>1, <2>2
<1>5. \E n \in I : \A m \in I : n <= m
  BY <1>4
<1> QED BY <1>5 DEF Min

\* A list without its i-th node.
LEMMA RemoveAtFacts ==
    ASSUME NEW S, NEW q \in Seq(S), NEW i \in 1 .. Len(q)
    PROVE  /\ RemoveAt(q, i) \in Seq(S)
           /\ Len(RemoveAt(q, i)) = Len(q) - 1
           /\ \A j \in 1 .. Len(q) - 1 :
                RemoveAt(q, i)[j] = q[IF j < i THEN j ELSE j + 1]
<1> DEFINE a == SubSeq(q, 1, i - 1)
           b == SubSeq(q, i + 1, Len(q))
<1>0. Len(q) \in Nat /\ i \in Nat /\ i >= 1 /\ i <= Len(q)
  OBVIOUS
<1>1. a \in Seq(S) /\ Len(a) = i - 1 /\ \A j \in 1 .. i - 1 : a[j] = q[j]
  BY <1>0, SubSeqProperties
<1>2. b \in Seq(S) /\ Len(b) = Len(q) - i /\ \A j \in 1 .. Len(q) - i : b[j] = q[i + j]
  BY <1>0, SubSeqProperties
<1>3. RemoveAt(q, i) = a \o b
  BY DEF RemoveAt
<1> HIDE DEF a, b
<1>4. /\ a \o b \in Seq(S) /\ Len(a \o b) = Len(a) + Len(b)
      /\ \A j \in 1 .. Len(a) + Len(b) :
           (a \o b)[j] = IF j <= Len(a) THEN a[j] ELSE b[j - Len(a)]
  BY <1>1, <1>2, ConcatProperties
<1>5. ASSUME NEW j \in 1 .. Len(q) - 1
      PROVE  (a \o b)[j] = q[IF j < i THEN j ELSE j + 1]
  <2>0. j \in Nat /\ j >= 1 /\ j \in 1 .. Len(a) + Len(b)
    BY <1>0, <1>1, <1>2
  <2>1. CASE j < i
    <3>1. (a \o b)[j] = a[j] /\ j \in 1 .. i - 1
      BY <1>0, <1>1, <1>4, <2>0, <2>1
    <3> QED BY <1>1, <2>1, <3>1
  <2>2. CASE ~(j < i)
    <3>1. (a \o b)[j] = b[j - (i - 1)]
      BY <1>0, <1>1, <1>4, <2>0, <2>2
    <3>2. j - (i - 1) \in 1 .. Len(q) - i /\ i + (j - (i - 1)) = j + 1
      BY <1>0, <2>0, <2>2
    <3>3. b[j - (i - 1)] = q[i + (j - (i - 1))]
      BY <1>2, <3>2
    <3> QED BY <2>2, <3>1, <3>2, <3>3
  <2> QED BY <2>1, <2>2
<1> QED BY <1>0, <1>1, <1>2, <1>3, <1>4, <1>5

\* Taking the first of the nodes I off a list.
LEMMA RemoveMinFacts ==
    ASSUME NEW S, NEW q \in Seq(S), NEW I \in SUBSET (1 .. Len(q)), I # {}
    PROVE  /\ Min(I) \in I
           /\ RemoveAt(q, Min(I)) \in Seq(S)
           /\ Len(RemoveAt(q, Min(I))) = Len(q) - 1
           /\ \A j \in 1 .. Len(q) - 1 :
                RemoveAt(q, Min(I))[j] = q[IF j < Min(I) THEN j ELSE j + 1]
<1>1. I \in SUBSET Nat
  OBVIOUS
<1>2. Min(I) \in I
  BY <1>1, MinIsMember
<1> QED BY <1>2, RemoveAtFacts

\* A nonempty stack without its top.
LEMMA FrontLast ==
    ASSUME NEW S, NEW s \in Seq(S), s # <<>>
    PROVE  /\ Len(s) \in Nat /\ Len(s) >= 1
           /\ Last(s) = s[Len(s)] /\ Last(s) \in S
           /\ Front(s) \in Seq(S) /\ Len(Front(s)) = Len(s) - 1
           /\ \A i \in 1 .. Len(s) - 1 : Front(s)[i] = s[i]
<1>1. Len(s) \in Nat /\ Len(s) >= 1
  BY EmptySeq
<1>2. Last(s) = s[Len(s)] /\ Last(s) \in S
  BY <1>1, ElementOfSeq DEF Last
<1>3. \A i \in 1 .. Len(s) - 1 : s[i] \in S
  BY <1>1, ElementOfSeq
<1>4. /\ SubSeq(s, 1, Len(s) - 1) \in Seq(S)
      /\ Len(SubSeq(s, 1, Len(s) - 1)) =
           IF 1 <= Len(s) - 1 THEN Len(s) - 1 - 1 + 1 ELSE 0
      /\ \A i \in 1 .. Len(s) - 1 - 1 + 1 : SubSeq(s, 1, Len(s) - 1)[i] = s[1 + i - 1]
  BY <1>1, <1>3, SubSeqProperties
<1>5. \A i \in 1 .. Len(s) - 1 : SubSeq(s, 1, Len(s) - 1)[i] = s[i]
  BY <1>1, <1>4
<1>6. Len(SubSeq(s, 1, Len(s) - 1)) = Len(s) - 1
  <2> DEFINE n == Len(s)
             m == Len(SubSeq(s, 1, n - 1))
  <2>1. n \in Nat /\ n >= 1 /\ m = IF 1 <= n - 1 THEN n - 1 - 1 + 1 ELSE 0
    BY <1>1, <1>4
  <2> HIDE DEF n, m
  <2>2. m = n - 1
    BY <2>1
  <2> QED BY <2>2 DEF n, m
<1>7. Front(s) = SubSeq(s, 1, Len(s) - 1)
  BY DEF Front
<1> QED BY <1>1, <1>2, <1>4, <1>5, <1>6, <1>7

\* A stack with one more frame, and with two.
LEMMA PushOne ==
    ASSUME NEW S, NEW s \in Seq(S), NEW f \in S
    PROVE  /\ Len(s) \in Nat
           /\ Append(s, f) \in Seq(S) /\ Len(Append(s, f)) = Len(s) + 1
           /\ \A i \in 1 .. Len(s) : i \in 1 .. Len(s) + 1 /\ Append(s, f)[i] = s[i]
           /\ Append(s, f)[Len(s) + 1] = f
           /\ Len(s) + 1 \in 1 .. Len(s) + 1
           /\ \A i \in 1 .. Len(s) + 1 : i \in 1 .. Len(s) \/ i = Len(s) + 1
<1>1. Len(s) \in Nat
  OBVIOUS
<1>2. /\ Append(s, f) \in Seq(S) /\ Len(Append(s, f)) = Len(s) + 1
      /\ \A i \in 1 .. Len(s) : Append(s, f)[i] = s[i]
      /\ Append(s, f)[Len(s) + 1] = f
  BY AppendProperties
<1> QED BY <1>1, <1>2

LEMMA PairConcat ==
    ASSUME NEW S, NEW a \in Seq(S), NEW b \in Seq(S), NEW c \in Seq(S),
           Len(a) = 1, Len(b) = 1, Len(c) = 2, a[1] = c[1], b[1] = c[2]
    PROVE  a \o b = c
<1>1. /\ a \o b \in Seq(S) /\ Len(a \o b) = Len(a) + Len(b)
      /\ \A i \in 1 .. Len(a) + Len(b) :
           (a \o b)[i] = IF i <= Len(a) THEN a[i] ELSE b[i - Len(a)]
  BY ConcatProperties
<1>2. Len(a \o b) = 2 /\ (a \o b)[1] = c[1] /\ (a \o b)[2] = c[2]
  BY <1>1
<1>3. \A i \in 1 .. Len(a \o b) : (a \o b)[i] = c[i]
  BY <1>2
<1> QED BY <1>1, <1>2, <1>3, SeqEqual

LEMMA PushTwo ==
    ASSUME NEW S, NEW s \in Seq(S), NEW f \in S, NEW g \in S, NEW t,
           t = s \o <<f, g>> \/ t = Append(Append(s, f), g)
    PROVE  /\ Len(s) \in Nat
           /\ t \in Seq(S) /\ Len(t) = Len(s) + 2
           /\ \A i \in 1 .. Len(s) : i \in 1 .. Len(s) + 2 /\ t[i] = s[i]
           /\ t[Len(s) + 1] = f /\ t[Len(s) + 2] = g
           /\ Len(s) + 1 \in 1 .. Len(s) + 2 /\ Len(s) + 2 \in 1 .. Len(s) + 2
           /\ \A i \in 1 .. Len(s) + 2 :
                i \in 1 .. Len(s) \/ i = Len(s) + 1 \/ i = Len(s) + 2
<1> DEFINE u == Append(s, f)
<1>1. u \in Seq(S)
  BY AppendProperties
<1>2. s \o <<f, g>> = Append(u, g)
  <2>1. u = s \o <<f>> /\ Append(u, g) = u \o <<g>>
    BY <1>1, AppendIsConcat
  <2>2. <<f>> \in Seq(S) /\ <<g>> \in Seq(S) /\ <<f>> \o <<g>> = <<f, g>>
    <3>1. <<f>> \in Seq(S) /\ Len(<<f>>) = 1 /\ <<f>>[1] = f
      OBVIOUS
    <3>2. <<g>> \in Seq(S) /\ Len(<<g>>) = 1 /\ <<g>>[1] = g
      OBVIOUS
    <3>3. <<f, g>> \in Seq(S) /\ Len(<<f, g>>) = 2 /\ <<f, g>>[1] = f /\ <<f, g>>[2] = g
      OBVIOUS
    <3> QED BY <3>1, <3>2, <3>3, PairConcat
  <2>3. (s \o <<f>>) \o <<g>> = s \o (<<f>> \o <<g>>)
    BY <2>2, ConcatAssociative
  <2> QED BY <2>1, <2>2, <2>3
<1>3. t = Append(u, g)
  BY <1>2
<1>4. /\ Len(s) \in Nat /\ Len(u) = Len(s) + 1 /\ u[Len(s) + 1] = f
      /\ \A i \in 1 .. Len(s) : i \in 1 .. Len(s) + 1 /\ u[i] = s[i]
  BY PushOne
<1> HIDE DEF u
<1>5. /\ t \in Seq(S) /\ Len(t) = Len(u) + 1 /\ t[Len(u) + 1] = g
      /\ \A i \in 1 .. Len(u) : t[i] = u[i]
  BY <1>1, <1>3, PushOne
<1> DEFINE n == Len(s)
           k == Len(u)
<1>6. n \in Nat /\ k = n + 1 /\ k + 1 = n + 2
  BY <1>4
<1> HIDE DEF n, k
<1>7. /\ \A i \in 1 .. n : i \in 1 .. n + 2 /\ i \in 1 .. k
      /\ n + 1 \in 1 .. k /\ n + 1 \in 1 .. n + 2 /\ n + 2 \in 1 .. n + 2
      /\ \A i \in 1 .. n + 2 : i \in 1 .. n \/ i = n + 1 \/ i = n + 2
  BY <1>6
<1> QED BY <1>4, <1>5, <1>6, <1>7 DEF n, k

-----------------------------------------------------------------------------
Message == [r : Reqs, ok : BOOLEAN]
Frame == [fn : {"cb", "post", "posted"}, r : Reqs] \cup [fn : {"reap"}, failed : BOOLEAN]
Request == [mem : {"none", "refused", "used", "freed"},
            state : {"pending", "running", "done", "error"},
            mux : BOOLEAN, closing : BOOLEAN, starting : BOOLEAN,
            received : Nat, watched : BOOLEAN]

TypeOK ==
    /\ owner \in {"host", "client"}
    /\ mux \in {"open", "closing", "freed"}
    /\ timer \in BOOLEAN
    /\ live \in Nat
    /\ req \in [Reqs -> Request]
    /\ call \in [Reqs -> {"none", "starting", "open", "completed"}]
    /\ held \in SUBSET Reqs
    /\ msgs \in Seq(Message)
    /\ frames \in Seq(Frame)
    /\ told \in [Reqs -> Nat]

\* A request is on the mux exactly while it is neither detached nor freed, and
\* while the mux has one it is open and its timer is on the loop.
OnMux ==
    \A r \in Reqs :
        /\ req[r].mux <=> req[r].mem = "used" /\ ~req[r].closing
        /\ req[r].mux => timer

\* What has run for a request, and who knows it.
RequestOK(r) ==
    /\ req[r].mem \in {"none", "refused"} => ~req[r].closing /\ ~req[r].starting
    /\ told[r] > 0 => req[r].closing
    /\ req[r].mem = "used" /\ req[r].closing /\ told[r] = 0 => req[r].starting
    /\ req[r].mem = "freed" /\ told[r] = 0 => mux # "open"
    /\ r \in held => req[r].mem = "used"
    /\ call[r] = "open" => req[r].mux /\ ~req[r].starting
    /\ owner = "host" /\ req[r].mux =>
           call[r] = IF req[r].starting THEN "starting" ELSE "open"

\* The queue holds one message of each transfer that is in it.
OneEach(q) == \A i, j \in 1 .. Len(q) : q[i].r = q[j].r => i = j

QueueOK ==
    /\ OneEach(msgs)
    /\ \A i \in 1 .. Len(msgs) : req[msgs[i].r].mux
    /\ msgs # <<>> => \E i \in 1 .. Len(frames) : frames[i].fn = "reap"

\* The functions that run, and the requests they run for.
FrameOK(f) ==
    /\ f.fn = "post" => req[f.r].starting /\ req[f.r].mem = "used" /\ told[f.r] = 0
    /\ f.fn = "cb" => told[f.r] > 0
    /\ f.fn = "posted" => req[f.r].closing

StackOK ==
    /\ \A i \in 1 .. Len(frames) : FrameOK(frames[i])
    /\ \A i, j \in 1 .. Len(frames) :
         frames[i].fn = "post" /\ frames[j].fn = "post" /\ frames[i].r = frames[j].r => i = j
    /\ \A r \in Reqs : req[r].starting =>
         \E i \in 1 .. Len(frames) : frames[i].fn = "post" /\ frames[i].r = r

MuxOK ==
    /\ frames # <<>> => timer
    /\ mux = "freed" => frames = <<>>

IInv ==
    TypeOK /\ OnMux /\ LiveExact /\ (\A r \in Reqs : RequestOK(r)) /\ QueueOK /\ StackOK /\ MuxOK

-----------------------------------------------------------------------------
(* The queue of finished transfers.                                        *)

\* Removing a transfer takes its message and no other.
LEMMA WithoutFacts ==
    ASSUME NEW q \in Seq(Message), NEW r \in Reqs, OneEach(q)
    PROVE  /\ Without(q, r) \in Seq(Message)
           /\ OneEach(Without(q, r))
           /\ \A i \in 1 .. Len(Without(q, r)) :
                \E j \in 1 .. Len(q) : Without(q, r)[i] = q[j] /\ q[j].r # r
<1> DEFINE I == {i \in 1 .. Len(q) : q[i].r = r}
<1>0. Len(q) \in Nat
  BY LenProperties
<1>1. CASE I = {}
  <2>1. Without(q, r) = q
    BY <1>1 DEF Without, RemoveFirstMatch
  <2> QED BY <1>1, <2>1
<1>2. CASE I # {}
  <2> DEFINE w == RemoveAt(q, Min(I))
             at(i) == IF i < Min(I) THEN i ELSE i + 1
  <2>1. Without(q, r) = w
    BY <1>2 DEF Without, RemoveFirstMatch, SelectInSeq
  <2>2. /\ Min(I) \in I /\ w \in Seq(Message) /\ Len(w) = Len(q) - 1
        /\ \A j \in 1 .. Len(q) - 1 : w[j] = q[at(j)]
    BY <1>2, RemoveMinFacts
  <2>3. Min(I) \in 1 .. Len(q) /\ q[Min(I)].r = r
    BY <2>2
  <2> HIDE DEF I, w
  <2>4. \A i \in 1 .. Len(q) - 1 : at(i) \in 1 .. Len(q) /\ at(i) # Min(I)
    BY <1>0, <2>3
  <2>5. \A i, j \in 1 .. Len(q) - 1 : at(i) = at(j) => i = j
    BY <1>0, <2>3
  <2>6. OneEach(w)
    BY <1>0, <2>2, <2>4, <2>5 DEF OneEach
  <2>7. \A i \in 1 .. Len(w) : \E j \in 1 .. Len(q) : w[i] = q[j] /\ q[j].r # r
    BY <1>0, <2>2, <2>3, <2>4 DEF OneEach
  <2> QED BY <2>1, <2>2, <2>6, <2>7
<1> QED BY <1>1, <1>2

\* What one socket action puts on the queue.
LEMMA FinishedFacts ==
    ASSUME NEW S \in SUBSET Reqs, NEW q \in Finished(S)
    PROVE  /\ q \in Seq(Message)
           /\ OneEach(q)
           /\ \A i \in 1 .. Len(q) : q[i].r \in S
<1> DEFINE n == Cardinality(S)
<1>1. n \in Nat
  BY ReqsAssumption, FS_Subset, FS_CardinalityType
<1>2. PICK p \in SetToSeqs(S), f \in [S -> BOOLEAN] :
         q = [i \in DOMAIN p |-> [r |-> p[i], ok |-> f[p[i]]]]
  BY DEF Finished
<1>3. p \in [1 .. n -> S] /\ \A i, j \in 1 .. n : i # j => p[i] # p[j]
  BY DEF SetToSeqs
<1> HIDE DEF n
<1>4. q = [i \in 1 .. n |-> [r |-> p[i], ok |-> f[p[i]]]]
  BY <1>2, <1>3
<1>5. \A i \in 1 .. n : q[i] \in Message /\ q[i].r = p[i] /\ p[i] \in S
  BY <1>3, <1>4 DEF Message
<1>6. q \in [1 .. n -> Message]
  BY <1>4, <1>5
<1>7. q \in Seq(Message) /\ Len(q) = n
  BY <1>1, <1>6
<1> QED BY <1>3, <1>5, <1>7 DEF OneEach

\* Messages of other transfers join the queue.
LEMMA ConcatQueue ==
    ASSUME NEW p \in Seq(Message), NEW q \in Seq(Message), OneEach(p), OneEach(q),
           \A i \in 1 .. Len(p), j \in 1 .. Len(q) : p[i].r # q[j].r
    PROVE  /\ p \o q \in Seq(Message)
           /\ OneEach(p \o q)
           /\ \A i \in 1 .. Len(p \o q) :
                \/ \E j \in 1 .. Len(p) : (p \o q)[i] = p[j]
                \/ \E j \in 1 .. Len(q) : (p \o q)[i] = q[j]
<1>0. Len(p) \in Nat /\ Len(q) \in Nat
  OBVIOUS
<1>1. /\ p \o q \in Seq(Message) /\ Len(p \o q) = Len(p) + Len(q)
      /\ \A i \in 1 .. Len(p) + Len(q) :
           (p \o q)[i] = IF i <= Len(p) THEN p[i] ELSE q[i - Len(p)]
  BY ConcatProperties
<1>2. ASSUME NEW i \in 1 .. Len(p) + Len(q)
      PROVE  \/ i \in 1 .. Len(p) /\ (p \o q)[i] = p[i]
             \/ i - Len(p) \in 1 .. Len(q) /\ (p \o q)[i] = q[i - Len(p)] /\ i > Len(p)
  BY <1>0, <1>1
<1>3. OneEach(p \o q)
  <2> SUFFICES ASSUME NEW i \in 1 .. Len(p) + Len(q), NEW j \in 1 .. Len(p) + Len(q),
                      (p \o q)[i].r = (p \o q)[j].r
               PROVE  i = j
    BY <1>1 DEF OneEach
  <2>1. CASE i <= Len(p)
    <3>1. i \in 1 .. Len(p) /\ (p \o q)[i] = p[i]
      BY <1>0, <1>2, <2>1
    <3>2. j \in 1 .. Len(p) /\ (p \o q)[j] = p[j]
      BY <1>2, <3>1
    <3> QED BY <3>1, <3>2 DEF OneEach
  <2>2. CASE ~(i <= Len(p))
    <3>1. i - Len(p) \in 1 .. Len(q) /\ (p \o q)[i] = q[i - Len(p)]
      BY <1>0, <1>2, <2>2
    <3>2. j - Len(p) \in 1 .. Len(q) /\ (p \o q)[j] = q[j - Len(p)]
      BY <1>2, <3>1
    <3>3. i - Len(p) = j - Len(p)
      BY <3>1, <3>2 DEF OneEach
    <3> QED BY <1>0, <3>3
  <2> QED BY <2>1, <2>2
<1> QED BY <1>1, <1>2, <1>3

-----------------------------------------------------------------------------
(* The number of requests on the mux.                                      *)

OnMuxSet == {r \in Reqs : req[r].mux}

LEMMA OnMuxFinite == IsFiniteSet(OnMuxSet) /\ Cardinality(OnMuxSet) \in Nat
<1>1. IsFiniteSet(OnMuxSet)
  BY ReqsAssumption, FS_Subset DEF OnMuxSet
<1> QED BY <1>1, FS_CardinalityType

\* While a request is on the mux, the mux is open.
LEMMA MuxOpen ==
    ASSUME LiveExact, NEW r \in Reqs, req[r].mux
    PROVE  mux = "open" /\ live \in Nat /\ live >= 1
<1>1. OnMuxSet # {}
  BY DEF OnMuxSet
<1>2. Cardinality(OnMuxSet) # 0
  BY <1>1, OnMuxFinite, FS_EmptySet
<1>3. live = Cardinality(OnMuxSet) /\ (mux # "open" => live = 0)
  BY DEF LiveExact, OnMuxSet
<1> QED BY <1>2, <1>3, OnMuxFinite

\* A request leaves the mux, or joins it.
LEMMA LiveLoses ==
    ASSUME LiveExact, NEW r \in Reqs, req[r].mux, ~req'[r].mux,
           \A s \in Reqs : s # r => req'[s] = req[s]
    PROVE  live - 1 = Cardinality({s \in Reqs : req'[s].mux})
<1>1. {s \in Reqs : req'[s].mux} = OnMuxSet \ {r} /\ r \in OnMuxSet
  BY DEF OnMuxSet
<1>2. Cardinality(OnMuxSet \ {r}) = Cardinality(OnMuxSet) - 1
  BY <1>1, OnMuxFinite, FS_RemoveElement
<1> QED BY <1>1, <1>2 DEF LiveExact, OnMuxSet

LEMMA LiveGains ==
    ASSUME LiveExact, NEW r \in Reqs, ~req[r].mux, req'[r].mux,
           \A s \in Reqs : s # r => req'[s] = req[s]
    PROVE  live + 1 = Cardinality({s \in Reqs : req'[s].mux})
<1>1. {s \in Reqs : req'[s].mux} = OnMuxSet \cup {r} /\ r \notin OnMuxSet
  BY DEF OnMuxSet
<1>2. Cardinality(OnMuxSet \cup {r}) = Cardinality(OnMuxSet) + 1
  BY <1>1, OnMuxFinite, FS_AddElement
<1> QED BY <1>1, <1>2 DEF LiveExact, OnMuxSet

\* A change that moves no request on or off the mux leaves the count right.
LEMMA LiveSame ==
    ASSUME LiveExact, live' = live, mux' = mux,
           \A s \in Reqs : req'[s].mux = req[s].mux
    PROVE  LiveExact'
<1>1. {s \in Reqs : req'[s].mux} = {s \in Reqs : req[s].mux}
  OBVIOUS
<1> QED BY <1>1 DEF LiveExact

-----------------------------------------------------------------------------
(* Completion.                                                             *)

\* http_request_teardown of an attached request, with its message gone from
\* the queue or about to go, keeps the invariant.
LEMMA TeardownKeeps ==
    ASSUME IInv, NEW r \in Reqs, req[r].mux, NEW state \in {"done", "error"},
           NEW q \in Seq(Message), OneEach(q),
           \A i \in 1 .. Len(q) : \E j \in 1 .. Len(msgs) : q[i] = msgs[j],
           http_request_teardown(r, state, q, frames),
           UNCHANGED <<owner, mux, timer, held>>
    PROVE  IInv'
<1> USE DEF IInv
<1>0. mux = "open" /\ live \in Nat /\ live >= 1
  BY MuxOpen
<1>1. /\ req' \in [Reqs -> Request]
      /\ req'[r].closing /\ ~req'[r].mux /\ req'[r].mem = "used"
      /\ req'[r].starting = req[r].starting
      /\ \A s \in Reqs : s # r => req'[s] = req[s]
  BY DEF http_request_teardown, TypeOK, Request, OnMux
<1>2. live' = live - 1 /\ live' \in Nat
  BY <1>0 DEF http_request_teardown
<1>3. LiveExact'
  BY <1>0, <1>1, <1>2, LiveLoses DEF LiveExact
<1>4. /\ msgs' \in Seq(Message) /\ OneEach(msgs')
      /\ \A i \in 1 .. Len(msgs') : \E j \in 1 .. Len(msgs) :
            msgs'[i] = msgs[j] /\ msgs[j].r # r
  <2>1. msgs' = Without(q, r)
    BY DEF http_request_teardown
  <2> DEFINE w == Without(q, r)
  <2>2. /\ w \in Seq(Message) /\ OneEach(w)
        /\ \A i \in 1 .. Len(w) : \E j \in 1 .. Len(q) : w[i] = q[j] /\ q[j].r # r
    BY WithoutFacts
  <2> HIDE DEF w
  <2>3. ASSUME NEW i \in 1 .. Len(w)
        PROVE  \E j \in 1 .. Len(msgs) : w[i] = msgs[j] /\ msgs[j].r # r
    <3>1. PICK k \in 1 .. Len(q) : w[i] = q[k] /\ q[k].r # r
      BY <2>2
    <3>2. PICK j \in 1 .. Len(msgs) : q[k] = msgs[j]
      OBVIOUS
    <3> QED BY <3>1, <3>2
  <2>4. msgs' = w
    BY <2>1 DEF w
  <2> QED BY <2>2, <2>3, <2>4
<1>5. msgs' # <<>> => msgs # <<>>
  <2>1. ASSUME msgs' # <<>> PROVE msgs # <<>>
    <3>1. Len(msgs') \in Nat /\ Len(msgs') >= 1
      BY <1>4, <2>1, EmptySeq
    <3>2. 1 \in 1 .. Len(msgs')
      BY <3>1
    <3>3. \E j \in 1 .. Len(msgs) : TRUE
      BY <1>4, <3>2
    <3> QED BY <3>3
  <2> QED BY <2>1
<1>6. \A i \in 1 .. Len(msgs') : msgs'[i].r \in Reqs /\ req'[msgs'[i].r].mux
  <2> SUFFICES ASSUME NEW i \in 1 .. Len(msgs')
               PROVE  msgs'[i].r \in Reqs /\ req'[msgs'[i].r].mux
    OBVIOUS
  <2>1. PICK j \in 1 .. Len(msgs) : msgs'[i] = msgs[j] /\ msgs[j].r # r
    BY <1>4
  <2>2. msgs[j] \in Message /\ req[msgs[j].r].mux
    BY ElementOfSeq DEF TypeOK, QueueOK
  <2> QED BY <1>1, <2>1, <2>2 DEF Message
<1>7. OnMux'
  BY <1>1 DEF OnMux
<1>8. CASE req[r].starting
  <2>1. frames' = frames /\ told' = told /\ call' = call
    BY <1>8 DEF http_request_teardown
  <2>2. TypeOK'
    BY <1>1, <1>2, <1>4, <2>1 DEF TypeOK
  <2>3. \A s \in Reqs : RequestOK(s)'
    <3> SUFFICES ASSUME NEW s \in Reqs PROVE RequestOK(s)'
      OBVIOUS
    <3>1. RequestOK(s) /\ UNCHANGED <<owner, mux, held, told, call>>
      BY <2>1
    <3>2. CASE s = r
      BY <1>0, <1>1, <1>8, <3>1, <3>2 DEF RequestOK, OnMux
    <3>3. CASE s # r
      <4>1. req'[s] = req[s]
        BY <1>1, <3>3
      <4> QED BY <3>1, <4>1 DEF RequestOK
    <3> QED BY <3>2, <3>3
  <2>4. QueueOK'
    BY <1>4, <1>5, <1>6, <2>1 DEF QueueOK
  <2>5. StackOK'
    <3>1. \A i \in 1 .. Len(frames) : frames[i].fn \in {"cb", "post", "posted"} => frames[i].r \in Reqs
      BY ElementOfSeq DEF TypeOK, Frame
    <3> QED BY <1>1, <2>1, <3>1 DEF StackOK, FrameOK
  <2>6. MuxOK'
    BY <2>1 DEF MuxOK
  <2> QED BY <1>3, <1>7, <2>2, <2>3, <2>4, <2>5, <2>6
<1>9. CASE ~req[r].starting
  <2> DEFINE f == [fn |-> "cb", r |-> r]
  <2>1. /\ frames' = Append(frames, f)
        /\ told' = [told EXCEPT ![r] = @ + 1]
        /\ call' = [call EXCEPT ![r] = IF @ = "starting" THEN "completed" ELSE "none"]
    BY <1>9 DEF http_request_teardown, http_request_complete, host_uv_http_done
  <2>2. f \in Frame /\ f.fn = "cb" /\ f.r = r
    BY DEF Frame
  <2> HIDE DEF f
  <2>3. /\ frames' \in Seq(Frame) /\ Len(frames') = Len(frames) + 1 /\ Len(frames) \in Nat
        /\ \A i \in 1 .. Len(frames) : frames'[i] = frames[i]
        /\ frames'[Len(frames) + 1] = f
    BY <2>1, <2>2, AppendProperties, LenProperties DEF TypeOK
  <2>4. told' \in [Reqs -> Nat] /\ told'[r] > 0 /\ \A s \in Reqs : s # r => told'[s] = told[s]
    BY <2>1 DEF TypeOK
  <2>5. /\ call' \in [Reqs -> {"none", "starting", "open", "completed"}]
        /\ call'[r] # "open" /\ \A s \in Reqs : s # r => call'[s] = call[s]
    BY <2>1 DEF TypeOK
  <2>6. TypeOK'
    BY <1>1, <1>2, <1>4, <2>3, <2>4, <2>5 DEF TypeOK
  <2>7. \A s \in Reqs : RequestOK(s)'
    <3> SUFFICES ASSUME NEW s \in Reqs PROVE RequestOK(s)'
      OBVIOUS
    <3>1. RequestOK(s) /\ UNCHANGED <<owner, mux, held>>
      OBVIOUS
    <3>2. CASE s = r
      <4>1. told'[r] \in Nat /\ told'[r] # 0
        BY <2>4
      <4> QED BY <1>0, <1>1, <1>9, <2>5, <3>1, <3>2, <4>1 DEF RequestOK
    <3>3. CASE s # r
      <4>1. req'[s] = req[s] /\ told'[s] = told[s] /\ call'[s] = call[s]
        BY <1>1, <2>4, <2>5, <3>3
      <4> QED BY <3>1, <4>1 DEF RequestOK
    <3> QED BY <3>2, <3>3
  <2>8. QueueOK'
    BY <1>4, <1>5, <1>6, <2>3 DEF QueueOK
  <2>9. StackOK'
    <3>1. \A i \in 1 .. Len(frames) : frames[i].fn \in {"cb", "post", "posted"} => frames[i].r \in Reqs
      BY ElementOfSeq DEF TypeOK, Frame
    <3>2. \A i \in 1 .. Len(frames') : i \in 1 .. Len(frames) \/ i = Len(frames) + 1
      BY <2>3
    <3>3. \A i \in 1 .. Len(frames) : frames[i].fn = "post" => frames[i].r # r
      BY <1>9 DEF StackOK, FrameOK
    <3>4. \A i \in 1 .. Len(frames') : FrameOK(frames[i])'
      <4> SUFFICES ASSUME NEW i \in 1 .. Len(frames')
                   PROVE  FrameOK(frames[i])'
        OBVIOUS
      <4>1. CASE i \in 1 .. Len(frames)
        <5>1. frames'[i] = frames[i]
          BY <2>3, <4>1
        <5>2. CASE frames[i].fn = "post"
          BY <1>1, <2>4, <3>1, <3>3, <4>1, <5>1, <5>2 DEF StackOK, FrameOK
        <5>3. CASE frames[i].fn = "cb"
          BY <2>4, <3>1, <4>1, <5>1, <5>3 DEF StackOK, FrameOK
        <5>4. CASE frames[i].fn = "posted"
          <6>1. req[frames[i].r].closing /\ frames[i].r \in Reqs
            BY <3>1, <4>1, <5>4 DEF StackOK, FrameOK
          <6>2. req'[frames[i].r].closing
            BY <1>1, <6>1
          <6> QED BY <5>1, <5>4, <6>2 DEF FrameOK
        <5> QED BY <5>1, <5>2, <5>3, <5>4 DEF FrameOK
      <4>2. CASE i = Len(frames) + 1
        BY <2>2, <2>3, <2>4, <4>2 DEF FrameOK
      <4> QED BY <3>2, <4>1, <4>2
    <3>5. \A i, j \in 1 .. Len(frames') :
         frames'[i].fn = "post" /\ frames'[j].fn = "post" /\ frames'[i].r = frames'[j].r => i = j
      BY <2>2, <2>3, <3>2 DEF StackOK
    <3>6. \A s \in Reqs : req'[s].starting =>
         \E i \in 1 .. Len(frames') : frames'[i].fn = "post" /\ frames'[i].r = s
      <4> SUFFICES ASSUME NEW s \in Reqs, req'[s].starting
                   PROVE  \E i \in 1 .. Len(frames') : frames'[i].fn = "post" /\ frames'[i].r = s
        OBVIOUS
      <4>1. req[s].starting
        BY <1>1, <1>9
      <4>2. PICK i \in 1 .. Len(frames) : frames[i].fn = "post" /\ frames[i].r = s
        BY <4>1 DEF StackOK
      <4>3. i \in 1 .. Len(frames') /\ frames'[i] = frames[i]
        BY <2>3
      <4> QED BY <4>2, <4>3
    <3> QED BY <3>4, <3>5, <3>6 DEF StackOK
  <2>10. MuxOK'
    BY <1>0 DEF MuxOK, OnMux
  <2> QED BY <1>3, <1>7, <2>6, <2>7, <2>8, <2>9, <2>10
<1> QED BY <1>8, <1>9

-----------------------------------------------------------------------------
(* The stack of running functions.                                         *)

LEMMA FrameFacts ==
    ASSUME TypeOK
    PROVE  \A i \in 1 .. Len(frames) :
             /\ frames[i] \in Frame
             /\ frames[i].fn \in {"cb", "post", "posted", "reap"}
             /\ frames[i].fn # "reap" => frames[i].r \in Reqs
  BY ElementOfSeq DEF TypeOK, Frame

\* The function on top returns.
LEMMA PopFacts ==
    ASSUME TypeOK, frames # <<>>, frames' = Front(frames)
    PROVE  /\ Len(frames) \in Nat /\ Len(frames) >= 1
           /\ frames' \in Seq(Frame) /\ Len(frames') = Len(frames) - 1
           /\ \A i \in 1 .. Len(frames') : i \in 1 .. Len(frames) /\ frames'[i] = frames[i]
           /\ \A i \in 1 .. Len(frames) : i \in 1 .. Len(frames') \/ i = Len(frames)
           /\ Len(frames) \in 1 .. Len(frames) /\ Top = frames[Len(frames)]
           /\ Top \in Frame /\ (Top.fn \in {"cb", "post", "posted"} => Top.r \in Reqs)
<1>1. frames \in Seq(Frame)
  BY DEF TypeOK
<1>2. /\ Len(frames) \in Nat /\ Len(frames) >= 1
      /\ Top = frames[Len(frames)] /\ Top \in Frame
      /\ frames' \in Seq(Frame) /\ Len(frames') = Len(frames) - 1
      /\ \A i \in 1 .. Len(frames) - 1 : frames'[i] = frames[i]
  BY <1>1, FrontLast DEF Top
<1>3. Top.fn \in {"cb", "post", "posted"} => Top.r \in Reqs
  BY <1>2 DEF Frame
<1> QED BY <1>2, <1>3

\* The queue is still reaped when the frames below the top stay.
LEMMA QueueKeeps ==
    ASSUME TypeOK, QueueOK, frames # <<>>, Top.fn # "reap", UNCHANGED msgs,
           Len(frames') \in Nat, Len(frames) - 1 <= Len(frames'),
           \A i \in 1 .. Len(frames) - 1 : frames'[i] = frames[i],
           \A s \in Reqs : req'[s].mux = req[s].mux
    PROVE  QueueOK'
<1>1. Len(frames) \in Nat /\ Len(frames) >= 1 /\ Top = frames[Len(frames)]
  BY FrontLast DEF TypeOK, Top
<1>2. msgs # <<>> => \E i \in 1 .. Len(frames') : frames'[i].fn = "reap"
  <2> SUFFICES ASSUME msgs # <<>> PROVE \E i \in 1 .. Len(frames') : frames'[i].fn = "reap"
    OBVIOUS
  <2>1. PICK i \in 1 .. Len(frames) : frames[i].fn = "reap"
    BY DEF QueueOK
  <2>2. i \in 1 .. Len(frames) - 1 /\ i \in 1 .. Len(frames')
    BY <1>1, <2>1
  <2> QED BY <2>1, <2>2
<1>3. \A i \in 1 .. Len(msgs) : msgs[i].r \in Reqs
  <2>1. \A i \in 1 .. Len(msgs) : msgs[i] \in Message
    BY ElementOfSeq DEF TypeOK
  <2> QED BY <2>1 DEF Message
<1>4. \A i \in 1 .. Len(msgs) : req'[msgs[i].r].mux
  BY <1>3 DEF QueueOK
<1> QED BY <1>2, <1>4 DEF QueueOK

\* The stack below the top is still right.
LEMMA StackPops ==
    ASSUME TypeOK, StackOK, frames # <<>>, frames' = Front(frames),
           \A i \in 1 .. Len(frames') : FrameOK(frames[i])',
           \A r \in Reqs : req'[r].starting =>
                req[r].starting /\ (Top.fn = "post" => Top.r # r)
    PROVE  StackOK'
<1>1. \A i, j \in 1 .. Len(frames') :
        frames'[i].fn = "post" /\ frames'[j].fn = "post" /\ frames'[i].r = frames'[j].r => i = j
  BY PopFacts DEF StackOK
<1>2. ASSUME NEW r \in Reqs, req'[r].starting
      PROVE  \E i \in 1 .. Len(frames') : frames'[i].fn = "post" /\ frames'[i].r = r
  <2>1. PICK i \in 1 .. Len(frames) : frames[i].fn = "post" /\ frames[i].r = r
    BY <1>2 DEF StackOK
  <2>2. i # Len(frames)
    BY <1>2, <2>1, PopFacts
  <2>3. i \in 1 .. Len(frames') /\ frames'[i] = frames[i]
    BY <2>2, PopFacts
  <2> QED BY <2>1, <2>3
<1> QED BY <1>1, <1>2 DEF StackOK

LEMMA CallbackReturnsKeeps ==
    ASSUME IInv, CallbackReturns
    PROVE  IInv'
<1> USE DEF IInv
<1> DEFINE t == Top.r
<1>1. frames # <<>> /\ frames' = Front(frames) /\ Top.fn = "cb"
  BY DEF CallbackReturns
<1>2. t \in Reqs /\ told[t] > 0 /\ req[t].closing
  <2>1. FrameOK(Top) /\ Top.r \in Reqs
    BY <1>1, PopFacts DEF StackOK
  <2> QED BY <1>1, <2>1 DEF FrameOK, RequestOK
<1> HIDE DEF t
<1>3. UNCHANGED <<owner, mux, timer, live, call, msgs, told>>
  BY DEF CallbackReturns
<1>4. /\ req' \in [Reqs -> Request] /\ req'[t].mem = "freed"
      /\ req'[t].closing = req[t].closing /\ req'[t].starting = req[t].starting
      /\ req'[t].mux = req[t].mux
      /\ \A s \in Reqs : s # t => req'[s] = req[s]
  <2>1. req' = [req EXCEPT ![t].mem = "freed"]
    BY DEF CallbackReturns, t
  <2>2. req \in [Reqs -> Request]
    BY DEF TypeOK
  <2>3. req'[t] = [req[t] EXCEPT !.mem = "freed"] /\ \A s \in Reqs : s # t => req'[s] = req[s]
    BY <1>2, <2>1, <2>2
  <2>4. req[t] \in Request
    BY <1>2, <2>2
  <2>5. [req[t] EXCEPT !.mem = "freed"] \in Request
    BY <2>4 DEF Request
  <2>6. req' \in [Reqs -> Request]
    BY <1>2, <2>1, <2>2, <2>5
  <2> QED BY <2>3, <2>4, <2>6 DEF Request
<1>5. held' = held \ {t}
  BY DEF CallbackReturns, t
<1>6. TypeOK'
  BY <1>1, <1>3, <1>4, <1>5, PopFacts DEF TypeOK
<1>7. OnMux'
  <2> SUFFICES ASSUME NEW s \in Reqs
               PROVE  /\ req'[s].mux <=> req'[s].mem = "used" /\ ~req'[s].closing
                      /\ req'[s].mux => timer'
    BY DEF OnMux
  <2>1. CASE s = t
    BY <1>2, <1>3, <1>4, <2>1 DEF OnMux
  <2>2. CASE s # t
    <3>1. req'[s] = req[s]
      BY <1>4, <2>2
    <3> QED BY <1>3, <3>1 DEF OnMux
  <2> QED BY <2>1, <2>2
<1>8. LiveExact'
  BY <1>3, <1>4, LiveSame
<1>9. ASSUME NEW s \in Reqs PROVE RequestOK(s)'
  <2>1. CASE s = t
    <3>1. told[t] \in Nat /\ told[t] # 0
      BY <1>2 DEF TypeOK
    <3>2. req[t].mux = FALSE /\ call[t] # "open"
      BY <1>2 DEF OnMux, RequestOK, TypeOK, Request
    <3> QED BY <1>2, <1>3, <1>4, <1>5, <2>1, <3>1, <3>2 DEF RequestOK
  <2>2. CASE s # t
    <3>1. req'[s] = req[s] /\ (s \in held' <=> s \in held) /\ RequestOK(s)
      BY <1>4, <1>5, <2>2
    <3> QED BY <1>3, <3>1 DEF RequestOK
  <2> QED BY <2>1, <2>2
<1>10. QueueOK'
  <2>1. \A i \in 1 .. Len(frames) - 1 : frames'[i] = frames[i]
    BY <1>1, PopFacts
  <2> QED BY <1>1, <1>3, <1>4, <2>1, PopFacts, QueueKeeps
<1>11. StackOK'
  <2>1. ASSUME NEW i \in 1 .. Len(frames') PROVE FrameOK(frames[i])'
    <3>1. /\ frames'[i] = frames[i] /\ FrameOK(frames[i])
          /\ frames[i].fn # "reap" => frames[i].r \in Reqs
          /\ frames[i].fn \in {"cb", "post", "posted", "reap"}
      BY <1>1, PopFacts, FrameFacts DEF StackOK
    <3>2. CASE frames[i].fn = "post"
      <4>1. frames[i].r # t
        BY <1>2, <3>1, <3>2 DEF FrameOK
      <4> QED BY <1>3, <1>4, <3>1, <3>2, <4>1 DEF FrameOK
    <3>3. CASE frames[i].fn = "cb"
      BY <1>3, <3>1, <3>3 DEF FrameOK
    <3>4. CASE frames[i].fn = "posted"
      <4>1. req'[frames[i].r].closing
        BY <1>2, <1>4, <3>1, <3>4 DEF FrameOK
      <4> QED BY <3>1, <3>4, <4>1 DEF FrameOK
    <3>5. CASE frames[i].fn = "reap"
      BY <3>1, <3>5 DEF FrameOK
    <3> QED BY <3>1, <3>2, <3>3, <3>4, <3>5
  <2>2. \A r \in Reqs : req'[r].starting => req[r].starting
    BY <1>4
  <2> QED BY <1>1, <2>1, <2>2, StackPops
<1>12. MuxOK'
  <2>1. mux = "freed" => FALSE
    BY <1>1 DEF MuxOK
  <2> QED BY <1>1, <1>3, <2>1 DEF MuxOK
<1> QED BY <1>6, <1>7, <1>8, <1>9, <1>10, <1>11, <1>12

\* What a popped frame leaves is right when nothing of its requests changed.
LEMMA PopKeeps ==
    ASSUME IInv, frames # <<>>, frames' = Front(frames), Top.fn \in {"reap", "posted"},
           UNCHANGED <<req, told, timer, mux>>
    PROVE  StackOK' /\ MuxOK'
<1> USE DEF IInv
<1>1. \A i \in 1 .. Len(frames') : FrameOK(frames[i])'
  BY PopFacts DEF StackOK, FrameOK
<1>2. StackOK'
  BY <1>1, StackPops
<1>3. MuxOK'
  BY DEF MuxOK
<1> QED BY <1>2, <1>3

LEMMA ReapKeeps ==
    ASSUME IInv, http_reap_done
    PROVE  IInv'
<1> USE DEF IInv
<1>1. frames # <<>> /\ Top.fn = "reap" /\ UNCHANGED <<owner, mux, timer, held>>
  BY DEF http_reap_done
<1>2. CASE msgs = <<>>
  <2>1. frames' = Front(frames) /\ UNCHANGED <<live, req, call, msgs, told>>
    BY <1>2 DEF http_reap_done
  <2>2. TypeOK'
    BY <1>1, <2>1, PopFacts DEF TypeOK
  <2>3. OnMux'
    BY <1>1, <2>1 DEF OnMux
  <2>4. LiveExact'
    BY <1>1, <2>1, LiveSame
  <2>5. \A s \in Reqs : RequestOK(s)'
    BY <1>1, <2>1 DEF RequestOK
  <2>6. QueueOK'
    BY <1>2, <2>1 DEF QueueOK
  <2>7. StackOK' /\ MuxOK'
    BY <1>1, <2>1, PopKeeps
  <2> QED BY <2>2, <2>3, <2>4, <2>5, <2>6, <2>7
<1>3. CASE msgs # <<>>
  <2> DEFINE m == Head(msgs)
             q == Tail(msgs)
             state == IF req[m.r].state = "error" \/ ~m.ok \/ Top.failed THEN "error" ELSE "done"
  <2>1. http_request_teardown(m.r, state, q, frames)
    BY <1>3 DEF http_reap_done
  <2>2. /\ Len(msgs) \in Nat /\ Len(msgs) >= 1 /\ m = msgs[1] /\ m \in Message
        /\ q \in Seq(Message) /\ Len(q) = Len(msgs) - 1
        /\ \A i \in 1 .. Len(q) : q[i] = msgs[i + 1]
    BY <1>3, EmptySeq, HeadTailProperties DEF TypeOK
  <2>3. state \in {"done", "error"}
    OBVIOUS
  <2> HIDE DEF m, q, state
  <2>4. m.r \in Reqs
    BY <2>2 DEF Message
  <2>5. req[m.r].mux
    BY <2>2 DEF QueueOK
  <2>6. \A i \in 1 .. Len(q) : i + 1 \in 1 .. Len(msgs)
    BY <2>2
  <2>7. \A i \in 1 .. Len(q) : \E j \in 1 .. Len(msgs) : q[i] = msgs[j]
    BY <2>2, <2>6
  <2>8. OneEach(q)
    BY <2>2, <2>6 DEF QueueOK, OneEach
  <2> QED BY <1>1, <2>1, <2>2, <2>3, <2>4, <2>5, <2>7, <2>8, TeardownKeeps
<1> QED BY <1>2, <1>3

LEMMA CompletedPostReturnsKeeps ==
    ASSUME IInv, CompletedPostReturns
    PROVE  IInv'
<1> USE DEF IInv
<1> DEFINE t == Top.r
<1>1. /\ frames # <<>> /\ Top.fn = "posted" /\ frames' = Front(frames)
      /\ UNCHANGED <<owner, mux, timer, live, req, held, msgs, told>>
  BY DEF CompletedPostReturns
<1>2. t \in Reqs /\ req[t].closing
  BY <1>1, PopFacts DEF StackOK, FrameOK
<1>3. /\ call' \in [Reqs -> {"none", "starting", "open", "completed"}]
      /\ call'[t] = "none" /\ \A s \in Reqs : s # t => call'[s] = call[s]
  BY <1>2 DEF CompletedPostReturns, TypeOK
<1> HIDE DEF t
<1>4. TypeOK'
  BY <1>1, <1>3, PopFacts DEF TypeOK
<1>5. OnMux' /\ LiveExact'
  BY <1>1, LiveSame DEF OnMux
<1>6. ASSUME NEW s \in Reqs PROVE RequestOK(s)'
  <2>1. CASE s = t
    <3>1. ~req[t].mux
      BY <1>2 DEF OnMux
    <3> QED BY <1>1, <1>3, <2>1, <3>1 DEF RequestOK
  <2>2. CASE s # t
    <3>1. call'[s] = call[s]
      BY <1>3, <2>2
    <3> QED BY <1>1, <3>1 DEF RequestOK
  <2> QED BY <2>1, <2>2
<1>7. QueueOK'
  <2>1. \A i \in 1 .. Len(frames) - 1 : frames'[i] = frames[i]
    BY <1>1, PopFacts
  <2> QED BY <1>1, <2>1, PopFacts, QueueKeeps
<1>8. StackOK' /\ MuxOK'
  BY <1>1, PopKeeps
<1> QED BY <1>4, <1>5, <1>6, <1>7, <1>8

-----------------------------------------------------------------------------
(* From the loop.                                                          *)

\* The loop's callbacks: transfers that are attached and not queued are done,
\* and the reaper runs.
LEMMA LoopReaps ==
    ASSUME IInv, frames = <<>>, NEW q \in Seq(Message), OneEach(q),
           \A i \in 1 .. Len(q) : q[i].r \in Attached,
           msgs' = msgs \o q, NEW failed \in BOOLEAN, Reap(failed), timer,
           \A s \in Reqs : /\ req'[s].mux = req[s].mux /\ req'[s].mem = req[s].mem
                           /\ req'[s].closing = req[s].closing
                           /\ req'[s].starting = req[s].starting,
           req' \in [Reqs -> Request], mux = "open",
           UNCHANGED <<owner, mux, timer, live, call, held, told>>
    PROVE  IInv'
<1> USE DEF IInv
<1>1. \A i \in 1 .. Len(q) : q[i].r \in Reqs /\ req[q[i].r].mux
  BY DEF Attached
<1>3. msgs \in Seq(Message) /\ OneEach(msgs)
  BY DEF TypeOK, QueueOK
<1>4. \A i \in 1 .. Len(msgs), j \in 1 .. Len(q) : msgs[i].r # q[j].r
  <2>1. \A i \in 1 .. Len(msgs) : msgs[i].r \in Queued
    BY <1>3, LenProperties DEF Queued, Range
  <2> QED BY <2>1 DEF Attached
<1>5. /\ msgs' \in Seq(Message) /\ OneEach(msgs')
      /\ \A i \in 1 .. Len(msgs') :
           \/ \E j \in 1 .. Len(msgs) : msgs'[i] = msgs[j]
           \/ \E j \in 1 .. Len(q) : msgs'[i] = q[j]
  BY <1>3, <1>4, ConcatQueue
<1>6. \A i \in 1 .. Len(msgs') : req'[msgs'[i].r].mux
  <2> SUFFICES ASSUME NEW i \in 1 .. Len(msgs') PROVE req'[msgs'[i].r].mux
    OBVIOUS
  <2>1. msgs'[i].r \in Reqs /\ req[msgs'[i].r].mux
    <3>1. ASSUME NEW j \in 1 .. Len(msgs), msgs'[i] = msgs[j]
          PROVE  msgs'[i].r \in Reqs /\ req[msgs'[i].r].mux
      <4>1. msgs[j] \in Message
        BY <1>3, ElementOfSeq
      <4> QED BY <3>1, <4>1 DEF QueueOK, Message
    <3>2. ASSUME NEW j \in 1 .. Len(q), msgs'[i] = q[j]
          PROVE  msgs'[i].r \in Reqs /\ req[msgs'[i].r].mux
      BY <1>1, <3>2
    <3> QED BY <1>5, <3>1, <3>2
  <2> QED BY <2>1
<1> DEFINE f == [fn |-> "reap", failed |-> failed]
<1>8. f \in Frame /\ f.fn = "reap"
  BY DEF Frame
<1>9. frames' = <<f>>
  BY DEF Reap
<1> HIDE DEF f
<1>10. frames' \in Seq(Frame) /\ Len(frames') = 1 /\ frames'[1] = f
  BY <1>8, <1>9
<1>11. TypeOK'
  BY <1>5, <1>10 DEF TypeOK
<1>12. OnMux' /\ LiveExact'
  BY LiveSame DEF OnMux
<1>13. \A s \in Reqs : RequestOK(s)'
  BY DEF RequestOK
<1>14. QueueOK'
  BY <1>5, <1>6, <1>8, <1>10 DEF QueueOK
<1>15. StackOK'
  <2>1. \A r \in Reqs : ~req'[r].starting
    BY DEF StackOK
  <2> QED BY <1>8, <1>10, <2>1 DEF StackOK, FrameOK
<1>16. MuxOK'
  BY DEF MuxOK
<1> QED BY <1>11, <1>12, <1>13, <1>14, <1>15, <1>16

LEMMA PollKeeps ==
    ASSUME IInv, http_poll_callback
    PROVE  IInv'
<1> USE DEF IInv
<1>1. /\ frames = <<>> /\ UNCHANGED <<owner, mux, timer, live, req, call, held, told>>
      /\ \E r \in Attached : req[r].watched
      /\ \E S \in SUBSET Attached : \E q \in Finished(S) : msgs' = msgs \o q
      /\ \E failed \in BOOLEAN : Reap(failed)
  BY DEF http_poll_callback
<1>2. PICK S \in SUBSET Attached : \E q \in Finished(S) : msgs' = msgs \o q
  BY <1>1
<1>3. PICK q \in Finished(S) : msgs' = msgs \o q
  BY <1>2
<1>4. PICK failed \in BOOLEAN : Reap(failed)
  BY <1>1
<1>5. timer /\ mux = "open"
  BY <1>1, MuxOpen DEF Attached, OnMux
<1>6. S \in SUBSET Reqs
  BY DEF Attached
<1>7. q \in Seq(Message) /\ OneEach(q) /\ \A i \in 1 .. Len(q) : q[i].r \in Attached
  BY <1>6, FinishedFacts
<1>8. req' \in [Reqs -> Request]
  BY <1>1 DEF TypeOK
<1> QED BY <1>1, <1>3, <1>4, <1>5, <1>7, <1>8, LoopReaps

LEMMA TimerKeeps ==
    ASSUME IInv, NEW r \in Reqs, http_timer_expired(r)
    PROVE  IInv'
<1> USE DEF IInv
<1>1. /\ frames = <<>> /\ timer /\ mux = "open" /\ r \in Attached
      /\ UNCHANGED <<owner, mux, timer, live, req, call, held, told>> /\ Reap(FALSE)
  BY DEF http_timer_expired
<1>2. PICK q \in Finished({r}) : msgs' = msgs \o q
  BY DEF http_timer_expired
<1>3. q \in Seq(Message) /\ OneEach(q) /\ \A i \in 1 .. Len(q) : q[i].r \in {r}
  BY FinishedFacts
<1>4. req' \in [Reqs -> Request]
  BY <1>1 DEF TypeOK
<1> QED BY <1>1, <1>2, <1>3, <1>4, LoopReaps

\* A change of a request that only its own state, size or socket sees.
LEMMA RequestDetail ==
    ASSUME IInv, req' \in [Reqs -> Request],
           \A s \in Reqs : /\ req'[s].mux = req[s].mux /\ req'[s].mem = req[s].mem
                           /\ req'[s].closing = req[s].closing
                           /\ req'[s].starting = req[s].starting,
           UNCHANGED <<owner, mux, timer, live, call, held, msgs, frames, told>>
    PROVE  IInv'
<1> USE DEF IInv
<1>1. TypeOK'
  BY DEF TypeOK
<1>2. OnMux' /\ LiveExact' /\ MuxOK'
  BY LiveSame DEF OnMux, MuxOK
<1>3. \A s \in Reqs : RequestOK(s)'
  BY DEF RequestOK
<1>4. QueueOK'
  <2>1. \A i \in 1 .. Len(msgs) : msgs[i] \in Message
    BY ElementOfSeq DEF TypeOK
  <2>2. \A i \in 1 .. Len(msgs) : req'[msgs[i].r].mux
    BY <2>1 DEF QueueOK, Message
  <2> QED BY <2>2 DEF QueueOK
<1>5. StackOK'
  <2>1. ASSUME NEW i \in 1 .. Len(frames) PROVE FrameOK(frames[i])'
    <3>1. FrameOK(frames[i]) /\ frames'[i] = frames[i]
      BY DEF StackOK
    <3> QED BY <3>1, FrameFacts DEF FrameOK
  <2>2. \A r \in Reqs : req'[r].starting =>
          \E i \in 1 .. Len(frames) : frames[i].fn = "post" /\ frames[i].r = r
    BY DEF StackOK
  <2> QED BY <2>1, <2>2 DEF StackOK
<1> QED BY <1>1, <1>2, <1>3, <1>4, <1>5

LEMMA WriteKeeps ==
    ASSUME IInv, NEW r \in Reqs, http_write_callback(r)
    PROVE  IInv'
<1> USE DEF IInv
<1>1. frames = <<>> /\ r \in Attached /\ UNCHANGED <<owner, mux, timer, live, call, held, told>>
  BY DEF http_write_callback
<1>2. timer /\ mux = "open"
  BY <1>1, MuxOpen DEF Attached, OnMux
<1>3. CASE http_response_buffer_write(r)
  <2>1. req' = [req EXCEPT ![r].received = @ + 1] /\ UNCHANGED <<msgs, frames>>
    BY <1>3 DEF http_write_callback
  <2>2. req' \in [Reqs -> Request]
    <3>1. req[r].received + 1 \in Nat
      BY DEF TypeOK, Request
    <3>2. [req[r] EXCEPT !.received = @ + 1] \in Request
      BY <3>1 DEF TypeOK, Request
    <3> QED BY <2>1, <3>2 DEF TypeOK
  <2>3. \A s \in Reqs : /\ req'[s].mux = req[s].mux /\ req'[s].mem = req[s].mem
                        /\ req'[s].closing = req[s].closing
                        /\ req'[s].starting = req[s].starting
    BY <2>1 DEF TypeOK, Request
  <2> QED BY <1>1, <2>1, <2>2, <2>3, RequestDetail
<1>4. CASE ~http_response_buffer_write(r)
  <2> DEFINE m == [r |-> r, ok |-> FALSE]
             q == <<m>>
  <2>1. req' = [req EXCEPT ![r].state = "error"] /\ msgs' = Append(msgs, m) /\ Reap(FALSE)
    BY <1>4 DEF http_write_callback
  <2>2. req' \in [Reqs -> Request]
    BY <2>1 DEF TypeOK, Request
  <2>3. \A s \in Reqs : /\ req'[s].mux = req[s].mux /\ req'[s].mem = req[s].mem
                        /\ req'[s].closing = req[s].closing
                        /\ req'[s].starting = req[s].starting
    BY <2>1 DEF TypeOK, Request
  <2>4. m \in Message /\ m.r = r
    BY DEF Message
  <2> HIDE DEF m
  <2>5. q \in Seq(Message) /\ Len(q) = 1 /\ q[1] = m
    BY <2>4
  <2>6. OneEach(q) /\ \A i \in 1 .. Len(q) : q[i].r \in Attached
    BY <1>1, <2>4, <2>5 DEF OneEach
  <2>7. msgs' = msgs \o q
    BY <2>1, <2>4, AppendIsConcat DEF TypeOK
  <2> HIDE DEF q
  <2> QED BY <1>1, <1>2, <2>1, <2>2, <2>3, <2>5, <2>6, <2>7, LoopReaps
<1> QED BY <1>3, <1>4

-----------------------------------------------------------------------------
(* The end of the mux.                                                     *)

\* A request still on the mux keeps its owner from freeing it.
LEMMA NoneLeft ==
    ASSUME IInv, \A r \in Reqs : ~req[r].mux
    PROVE  live = 0
<1>1. {r \in Reqs : req[r].mux} = {}
  OBVIOUS
<1> QED BY <1>1, FS_EmptySet DEF IInv, LiveExact

LEMMA MuxFreeNowKeeps ==
    ASSUME IInv, mux_free_now
    PROVE  IInv'
<1> USE DEF IInv
<1>1. /\ frames = <<>> /\ mux = "closing" /\ mux' = "freed"
      /\ UNCHANGED <<owner, timer, live, req, call, held, msgs, frames, told>>
  BY DEF mux_free_now
<1>2. TypeOK' /\ OnMux' /\ LiveExact' /\ QueueOK' /\ StackOK' /\ MuxOK'
  BY <1>1 DEF TypeOK, OnMux, LiveExact, QueueOK, StackOK, FrameOK, MuxOK
<1>3. \A r \in Reqs : RequestOK(r)'
  BY <1>1 DEF RequestOK
<1> QED BY <1>2, <1>3

LEMMA ClientFreeKeeps ==
    ASSUME IInv, ClientFree
    PROVE  IInv'
<1> USE DEF IInv
<1>1. /\ mux = "open" /\ Outstanding = {} /\ mux' = IF timer THEN "closing" ELSE "freed"
      /\ UNCHANGED <<owner, timer, live, req, call, held, msgs, frames, told>>
  BY DEF ClientFree, clm_http_mux_free
<1>2. \A r \in Reqs : ~req[r].mux
  BY <1>1 DEF Outstanding, OnMux, RequestOK, TypeOK
<1>3. live = 0
  BY <1>2, NoneLeft
<1>4. mux' \in {"closing", "freed"} /\ (mux' = "freed" => ~timer)
  BY <1>1
<1>5. TypeOK' /\ OnMux' /\ QueueOK' /\ StackOK'
  BY <1>1, <1>4 DEF TypeOK, OnMux, QueueOK, StackOK, FrameOK
<1>6. LiveExact' /\ MuxOK'
  BY <1>1, <1>3, <1>4 DEF LiveExact, MuxOK
<1>7. \A r \in Reqs : RequestOK(r)'
  BY <1>1, <1>4 DEF RequestOK
<1> QED BY <1>5, <1>6, <1>7

LEMMA HostFreeKeeps ==
    ASSUME IInv, clm_host_uv_free
    PROVE  IInv'
<1> USE DEF IInv
<1> DEFINE R == {r \in Reqs : call[r] = "open"}
<1>1. /\ owner = "host" /\ frames = <<>> /\ mux = "open"
      /\ req' = [r \in Reqs |-> IF r \in R THEN [req[r] EXCEPT !.mux = FALSE, !.mem = "freed"]
                                ELSE req[r]]
      /\ live' = live - Cardinality(R)
      /\ call' = [r \in Reqs |-> "none"] /\ held' = {}
      /\ mux' = IF timer THEN "closing" ELSE "freed"
      /\ UNCHANGED <<owner, timer, msgs, frames, told>>
  BY DEF clm_host_uv_free, clm_http_mux_free
<1>0. Len(frames) = 0
  BY <1>1
<1>2. \A r \in Reqs : ~req[r].starting
  BY <1>0 DEF StackOK
<1>3. \A r \in Reqs : call[r] = "open" <=> req[r].mux
  BY <1>1, <1>2 DEF RequestOK
<1>4. R = {r \in Reqs : req[r].mux}
  BY <1>3
<1>5. live = Cardinality(R) /\ live \in Nat
  BY <1>4 DEF LiveExact, TypeOK
<1>6. live' = 0
  <2>1. live' = live - live
    BY <1>1, <1>5
  <2> QED BY <1>5, <2>1
<1>7. req' \in [Reqs -> Request]
  <2>1. ASSUME NEW r \in Reqs
        PROVE  /\ req[r] \in Request
               /\ [req[r] EXCEPT !.mux = FALSE, !.mem = "freed"] \in Request
    <3>1. req[r] \in Request
      BY DEF TypeOK
    <3> QED BY <3>1 DEF Request
  <2> HIDE DEF IInv, R
  <2> QED BY <1>1, <2>1
<1>8. ASSUME NEW r \in Reqs
      PROVE  /\ ~req'[r].mux
             /\ req'[r].closing = req[r].closing /\ req'[r].starting = req[r].starting
             /\ ~req[r].mux => req'[r] = req[r]
             /\ req[r].mux => req'[r].mem = "freed"
  BY <1>1, <1>4 DEF TypeOK, Request
<1> HIDE DEF R
<1>9. TypeOK'
  <2>1. /\ mux' \in {"open", "closing", "freed"} /\ held' \in SUBSET Reqs
        /\ call' \in [Reqs -> {"none", "starting", "open", "completed"}]
    BY <1>1
  <2>2. UNCHANGED <<owner, timer, msgs, frames, told>>
    BY <1>1
  <2>3. live' \in Nat
    BY <1>6
  <2> QED BY <1>7, <2>1, <2>2, <2>3 DEF TypeOK
<1>10. OnMux'
  <2>1. \A r \in Reqs : ~(req'[r].mem = "used" /\ ~req'[r].closing)
    BY <1>8 DEF OnMux
  <2> QED BY <1>8, <2>1 DEF OnMux
<1>11. LiveExact'
  <2>1. {r \in Reqs : req'[r].mux} = {}
    BY <1>8
  <2> QED BY <1>6, <2>1, FS_EmptySet DEF LiveExact
<1>12. ASSUME NEW r \in Reqs PROVE RequestOK(r)'
  <2>1. mux' # "open" /\ call'[r] = "none" /\ r \notin held' /\ told'[r] = told[r]
    BY <1>1
  <2>2. CASE req[r].mux
    BY <1>2, <1>8, <2>1, <2>2 DEF RequestOK
  <2>3. CASE ~req[r].mux
    <3>1. req'[r] = req[r]
      BY <1>8, <2>3
    <3> QED BY <2>1, <2>3, <3>1 DEF RequestOK
  <2> QED BY <2>2, <2>3
<1>13. msgs = <<>>
  BY <1>0 DEF QueueOK
<1>14. QueueOK' /\ StackOK' /\ MuxOK'
  <2>1. frames' = <<>> /\ Len(frames') = 0 /\ msgs' = <<>> /\ Len(msgs') = 0
    BY <1>1, <1>13
  <2>2. QueueOK' /\ MuxOK'
    BY <2>1 DEF QueueOK, OneEach, MuxOK
  <2>3. StackOK'
    BY <1>2, <1>8, <2>1 DEF StackOK
  <2> QED BY <2>2, <2>3
<1> QED BY <1>9, <1>10, <1>11, <1>12, <1>14

-----------------------------------------------------------------------------
(* What the owner calls.                                                   *)

LEMMA PostRefusedKeeps ==
    ASSUME IInv, NEW r \in Reqs, PostRefused(r)
    PROVE  IInv'
<1> USE DEF IInv
<1>1. /\ req[r].mem = "none" /\ req' = [req EXCEPT ![r].mem = "refused"]
      /\ UNCHANGED <<owner, mux, timer, live, call, held, msgs, frames, told>>
  BY DEF PostRefused
<1>2. /\ req' \in [Reqs -> Request] /\ req'[r].mem = "refused"
      /\ req'[r].mux = req[r].mux /\ req'[r].closing = req[r].closing
      /\ req'[r].starting = req[r].starting
      /\ \A s \in Reqs : s # r => req'[s] = req[s]
  BY <1>1 DEF TypeOK, Request
<1>3. TypeOK'
  BY <1>1, <1>2 DEF TypeOK
<1>4. ~req[r].mux /\ ~req[r].closing /\ ~req[r].starting
  BY <1>1 DEF OnMux, RequestOK
<1>5. OnMux'
  BY <1>1, <1>2, <1>4 DEF OnMux
<1>6. LiveExact' /\ MuxOK'
  BY <1>1, <1>2, LiveSame DEF MuxOK
<1>7. ASSUME NEW s \in Reqs PROVE RequestOK(s)'
  <2>1. CASE s = r
    BY <1>1, <1>2, <1>4, <2>1 DEF RequestOK
  <2>2. CASE s # r
    <3>1. req'[s] = req[s]
      BY <1>2, <2>2
    <3> QED BY <1>1, <3>1 DEF RequestOK
  <2> QED BY <2>1, <2>2
<1>8. QueueOK'
  <2>1. \A i \in 1 .. Len(msgs) : msgs[i] \in Message
    BY ElementOfSeq DEF TypeOK
  <2>2. \A i \in 1 .. Len(msgs) : req'[msgs[i].r].mux
    BY <1>2, <2>1 DEF QueueOK, Message
  <2> QED BY <1>1, <2>2 DEF QueueOK
<1>9. StackOK'
  <2>1. ASSUME NEW i \in 1 .. Len(frames) PROVE FrameOK(frames[i])'
    <3>1. FrameOK(frames[i]) /\ frames'[i] = frames[i]
      BY <1>1 DEF StackOK
    <3> QED BY <1>1, <1>2, <1>4, <3>1, FrameFacts DEF FrameOK
  <2>2. \A s \in Reqs : req'[s].starting =>
          \E i \in 1 .. Len(frames) : frames[i].fn = "post" /\ frames[i].r = s
    BY <1>2 DEF StackOK
  <2> QED BY <1>1, <2>1, <2>2 DEF StackOK
<1> QED BY <1>3, <1>5, <1>6, <1>7, <1>8, <1>9

LEMMA CancelKeeps ==
    ASSUME IInv, NEW r \in Reqs, clm_http_async_cancel(r)
    PROVE  IInv'
<1> USE DEF IInv
<1>1. /\ r \in held /\ ~req[r].closing /\ http_request_teardown(r, "error", msgs, frames)
      /\ UNCHANGED <<owner, mux, timer, held>>
  BY DEF clm_http_async_cancel
<1>2. req[r].mux
  BY <1>1 DEF RequestOK, OnMux
<1>3. msgs \in Seq(Message) /\ OneEach(msgs)
  BY DEF TypeOK, QueueOK
<1> QED BY <1>1, <1>2, <1>3, TeardownKeeps

LEMMA PostKeeps ==
    ASSUME IInv, NEW r \in Reqs, clm_http_async_post(r)
    PROVE  IInv'
<1> USE DEF IInv
<1> DEFINE n == Len(frames)
           f == [fn |-> "post", r |-> r]
           g == [fn |-> "reap", failed |-> FALSE]
<1>1. /\ mux = "open" /\ req[r].mem = "none" /\ live' = live + 1 /\ timer' = TRUE
      /\ call' = IF owner = "host" THEN [call EXCEPT ![r] = "starting"] ELSE call
      /\ frames' = frames \o <<f, g>>
      /\ UNCHANGED <<owner, mux, held, told>>
  BY DEF clm_http_async_post, http_timer_callback, host_uv_http_post
<1>2. PICK w \in BOOLEAN :
        req' = [req EXCEPT ![r] = [Fresh EXCEPT !.mem = "used", !.state = "running",
                                     !.mux = TRUE, !.starting = TRUE, !.watched = w]]
  BY DEF clm_http_async_post, http_socket_callback
<1>3. /\ req' \in [Reqs -> Request] /\ req'[r].mem = "used" /\ req'[r].mux
      /\ req'[r].starting /\ ~req'[r].closing
      /\ \A s \in Reqs : s # r => req'[s] = req[s]
  BY <1>2 DEF TypeOK, Request, Fresh
<1>4. ~req[r].mux /\ ~req[r].closing /\ ~req[r].starting /\ told[r] = 0 /\ r \notin held
  BY <1>1 DEF OnMux, RequestOK, TypeOK
<1>5. LiveExact'
  BY <1>1, <1>3, <1>4, LiveGains DEF LiveExact
<1>6. PICK S \in SUBSET (Attached \cup {r}) : \E q \in Finished(S) : msgs' = msgs \o q
  BY DEF clm_http_async_post
<1>7. PICK q \in Finished(S) : msgs' = msgs \o q
  BY <1>6
<1>8. q \in Seq(Message) /\ OneEach(q) /\ \A i \in 1 .. Len(q) : q[i].r \in S
  <2>1. S \in SUBSET Reqs
    BY DEF Attached
  <2> QED BY <2>1, FinishedFacts
<1>9. msgs \in Seq(Message) /\ OneEach(msgs) /\ \A i \in 1 .. Len(msgs) : msgs[i] \in Message
  BY ElementOfSeq DEF TypeOK, QueueOK
<1>10. \A i \in 1 .. Len(msgs), j \in 1 .. Len(q) : msgs[i].r # q[j].r
  <2>1. \A i \in 1 .. Len(msgs) : msgs[i].r \in Queued /\ msgs[i].r # r
    BY <1>4, <1>9, LenProperties DEF Queued, Range, QueueOK
  <2> QED BY <1>8, <2>1 DEF Attached
<1>11. /\ msgs' \in Seq(Message) /\ OneEach(msgs')
       /\ \A i \in 1 .. Len(msgs') :
            \/ \E j \in 1 .. Len(msgs) : msgs'[i] = msgs[j]
            \/ \E j \in 1 .. Len(q) : msgs'[i] = q[j]
  BY <1>7, <1>8, <1>9, <1>10, ConcatQueue
<1>12. \A i \in 1 .. Len(msgs') : req'[msgs'[i].r].mux
  <2> SUFFICES ASSUME NEW i \in 1 .. Len(msgs') PROVE req'[msgs'[i].r].mux
    OBVIOUS
  <2>1. ASSUME NEW j \in 1 .. Len(msgs), msgs'[i] = msgs[j] PROVE req'[msgs'[i].r].mux
    BY <1>3, <1>9, <2>1 DEF QueueOK, Message
  <2>2. ASSUME NEW j \in 1 .. Len(q), msgs'[i] = q[j] PROVE req'[msgs'[i].r].mux
    BY <1>3, <1>8, <2>2 DEF Attached
  <2> QED BY <1>11, <2>1, <2>2
<1>13. f \in Frame /\ g \in Frame /\ f.fn = "post" /\ f.r = r /\ g.fn = "reap"
  BY DEF Frame
<1> HIDE DEF f, g
<1>14. /\ n \in Nat /\ frames' \in Seq(Frame) /\ Len(frames') = n + 2
       /\ \A i \in 1 .. n : i \in 1 .. n + 2 /\ frames'[i] = frames[i]
       /\ frames'[n + 1] = f /\ frames'[n + 2] = g
       /\ \A i \in 1 .. n + 2 : i \in 1 .. n \/ i = n + 1 \/ i = n + 2
  BY <1>1, <1>13, PushTwo DEF TypeOK
<1> HIDE DEF n
<1>15. /\ call' \in [Reqs -> {"none", "starting", "open", "completed"}]
       /\ call'[r] # "open" /\ (owner = "host" => call'[r] = "starting")
       /\ \A s \in Reqs : s # r => call'[s] = call[s]
  <2>1. call[r] # "open"
    BY <1>4 DEF RequestOK
  <2> QED BY <1>1, <2>1 DEF TypeOK
<1>16. TypeOK'
  <2>1. live' \in Nat
    BY <1>1 DEF TypeOK
  <2> QED BY <1>1, <1>3, <1>11, <1>14, <1>15, <2>1 DEF TypeOK
<1>17. OnMux'
  BY <1>1, <1>3 DEF OnMux
<1>18. ASSUME NEW s \in Reqs PROVE RequestOK(s)'
  <2>1. CASE s = r
    BY <1>1, <1>3, <1>4, <1>15, <2>1 DEF RequestOK
  <2>2. CASE s # r
    <3>1. req'[s] = req[s] /\ call'[s] = call[s]
      BY <1>3, <1>15, <2>2
    <3> QED BY <1>1, <3>1 DEF RequestOK
  <2> QED BY <2>1, <2>2
<1>19. QueueOK'
  <2>1. n + 2 \in 1 .. Len(frames') /\ frames'[n + 2].fn = "reap"
    BY <1>13, <1>14
  <2> QED BY <1>11, <1>12, <2>1 DEF QueueOK
<1>20. StackOK'
  <2>1. ASSUME NEW i \in 1 .. Len(frames') PROVE FrameOK(frames[i])'
    <3>1. CASE i \in 1 .. n
      <4>1. /\ frames'[i] = frames[i] /\ FrameOK(frames[i])
            /\ frames[i].fn \in {"cb", "post", "posted", "reap"}
            /\ frames[i].fn # "reap" => frames[i].r \in Reqs
        BY <1>14, <3>1, FrameFacts DEF StackOK, n
      <4>2. CASE frames[i].fn = "reap"
        BY <4>1, <4>2 DEF FrameOK
      <4>3. CASE frames[i].fn # "reap"
        <5>1. frames[i].r # r
          BY <1>4, <4>1, <4>3 DEF FrameOK
        <5>2. req'[frames[i].r] = req[frames[i].r]
          BY <1>3, <4>1, <4>3, <5>1
        <5> QED BY <1>1, <4>1, <5>2 DEF FrameOK
      <4> QED BY <4>2, <4>3
    <3>2. CASE i = n + 1
      BY <1>1, <1>3, <1>4, <1>13, <1>14, <3>2 DEF FrameOK
    <3>3. CASE i = n + 2
      BY <1>13, <1>14, <3>3 DEF FrameOK
    <3> QED BY <1>14, <3>1, <3>2, <3>3
  <2>2. ASSUME NEW i \in 1 .. Len(frames'), NEW j \in 1 .. Len(frames'),
               frames'[i].fn = "post", frames'[j].fn = "post", frames'[i].r = frames'[j].r
        PROVE  i = j
    <3>1. \A k \in 1 .. n : frames[k].fn = "post" => frames[k].r # r
      BY <1>4 DEF StackOK, FrameOK, n
    <3>2. i # n + 2 /\ j # n + 2
      BY <1>13, <1>14, <2>2
    <3>3. CASE i = n + 1
      BY <1>13, <1>14, <2>2, <3>1, <3>2, <3>3
    <3>4. CASE i \in 1 .. n
      <4>1. j \in 1 .. n
        BY <1>13, <1>14, <2>2, <3>1, <3>2, <3>4
      <4> QED BY <1>14, <2>2, <3>4, <4>1 DEF StackOK, n
    <3> QED BY <1>14, <3>2, <3>3, <3>4
  <2>3. ASSUME NEW s \in Reqs, req'[s].starting
        PROVE  \E i \in 1 .. Len(frames') : frames'[i].fn = "post" /\ frames'[i].r = s
    <3>1. CASE s = r
      <4>1. n + 1 \in 1 .. Len(frames')
        BY <1>14
      <4> QED BY <1>13, <1>14, <3>1, <4>1
    <3>2. CASE s # r
      <4>1. req[s].starting
        BY <1>3, <2>3, <3>2
      <4>2. PICK i \in 1 .. n : frames[i].fn = "post" /\ frames[i].r = s
        BY <4>1 DEF StackOK, n
      <4> QED BY <1>14, <4>2
    <3> QED BY <3>1, <3>2
  <2> QED BY <2>1, <2>2, <2>3 DEF StackOK
<1>21. MuxOK'
  BY <1>1 DEF MuxOK
<1> QED BY <1>5, <1>16, <1>17, <1>18, <1>19, <1>20, <1>21

LEMMA PostReturnsKeeps ==
    ASSUME IInv, PostReturns
    PROVE  IInv'
<1> USE DEF IInv
<1> DEFINE t == Top.r
           fs == Front(frames)
           n == Len(fs)
<1>1. /\ frames # <<>> /\ Top.fn = "post" /\ req' = [req EXCEPT ![t].starting = FALSE]
      /\ UNCHANGED <<owner, mux, timer, live, msgs>>
  BY DEF PostReturns
<1>2. /\ fs \in Seq(Frame) /\ n \in Nat /\ Len(frames) = n + 1 /\ Top = frames[n + 1]
      /\ \A i \in 1 .. n : i \in 1 .. Len(frames) /\ fs[i] = frames[i]
      /\ \A i \in 1 .. Len(frames) : i \in 1 .. n \/ i = n + 1
      /\ n + 1 \in 1 .. Len(frames)
  <2>1. /\ Len(frames) \in Nat /\ Len(frames) >= 1 /\ Top = frames[Len(frames)]
        /\ fs \in Seq(Frame) /\ n = Len(frames) - 1
        /\ \A i \in 1 .. Len(frames) - 1 : fs[i] = frames[i]
    BY <1>1, FrontLast DEF TypeOK, Top
  <2> HIDE DEF fs
  <2>2. n \in Nat /\ Len(frames) = n + 1
    BY <2>1
  <2> QED BY <2>1, <2>2
<1>3. /\ t \in Reqs /\ req[t].starting /\ req[t].mem = "used" /\ told[t] = 0
      /\ \A i \in 1 .. n : frames[i].fn = "post" => frames[i].r # t
  BY <1>1, <1>2, FrameFacts DEF StackOK, FrameOK
<1> HIDE DEF t, fs, n
<1>4. /\ req' \in [Reqs -> Request] /\ ~req'[t].starting /\ req'[t].mem = "used"
      /\ req'[t].closing = req[t].closing /\ req'[t].mux = req[t].mux
      /\ \A s \in Reqs : s # t => req'[s] = req[s]
  BY <1>1, <1>3 DEF TypeOK, Request
<1>5. OnMux'
  BY <1>1, <1>3, <1>4 DEF OnMux
<1>6. LiveExact'
  BY <1>1, <1>4, LiveSame
<1>7. mux # "freed" /\ timer
  BY <1>1 DEF MuxOK
<1>8. ASSUME NEW i \in 1 .. n, \A s \in Reqs : s # t => told'[s] = told[s],
             told'[t] >= told[t], frames'[i] = frames[i]
      PROVE  FrameOK(frames[i])'
  <2>1. /\ FrameOK(frames[i]) /\ frames[i].fn \in {"cb", "post", "posted", "reap"}
        /\ frames[i].fn # "reap" => frames[i].r \in Reqs
    BY <1>2, FrameFacts DEF StackOK
  <2>2. CASE frames[i].fn = "reap"
    BY <1>8, <2>1, <2>2 DEF FrameOK
  <2>3. CASE frames[i].fn = "post"
    <3>1. frames[i].r \in Reqs /\ frames[i].r # t
      BY <1>3, <2>1, <2>3
    <3>2. req'[frames[i].r] = req[frames[i].r] /\ told'[frames[i].r] = told[frames[i].r]
      BY <1>4, <1>8, <3>1
    <3> QED BY <1>8, <2>1, <2>3, <3>2 DEF FrameOK
  <2>4. CASE frames[i].fn = "cb"
    <3>1. told[frames[i].r] > 0 /\ frames[i].r # t
      BY <1>3, <2>1, <2>4 DEF FrameOK
    <3> QED BY <1>8, <2>1, <2>4, <3>1 DEF FrameOK
  <2>5. CASE frames[i].fn = "posted"
    <3>1. req'[frames[i].r].closing
      BY <1>4, <2>1, <2>5 DEF FrameOK
    <3> QED BY <1>8, <2>5, <3>1 DEF FrameOK
  <2> QED BY <2>1, <2>2, <2>3, <2>4, <2>5
<1>9. ASSUME NEW s \in Reqs, req'[s].starting
      PROVE  \E i \in 1 .. n : frames[i].fn = "post" /\ frames[i].r = s
  <2>1. req[s].starting /\ s # t
    BY <1>4, <1>9
  <2>2. PICK i \in 1 .. Len(frames) : frames[i].fn = "post" /\ frames[i].r = s
    BY <2>1 DEF StackOK
  <2>3. i # n + 1
    BY <1>2, <2>1, <2>2 DEF t
  <2> QED BY <1>2, <2>2, <2>3
<1>10. CASE req[t].closing
  <2> DEFINE f == [fn |-> "posted", r |-> t]
             g == [fn |-> "cb", r |-> t]
  <2>1. /\ frames' = Append(Append(fs, f), g) /\ held' = held
        /\ told' = [told EXCEPT ![t] = @ + 1]
        /\ call' = [call EXCEPT ![t] = IF @ = "starting" THEN "completed" ELSE "none"]
    BY <1>10 DEF PostReturns, http_request_complete, host_uv_http_done, t, fs
  <2>2. f \in Frame /\ g \in Frame /\ f.fn = "posted" /\ f.r = t /\ g.fn = "cb" /\ g.r = t
    BY <1>3 DEF Frame
  <2> HIDE DEF f, g
  <2>3. /\ frames' \in Seq(Frame) /\ Len(frames') = n + 2
        /\ \A i \in 1 .. n : i \in 1 .. n + 2 /\ frames'[i] = frames[i]
        /\ frames'[n + 1] = f /\ frames'[n + 2] = g
        /\ \A i \in 1 .. n + 2 : i \in 1 .. n \/ i = n + 1 \/ i = n + 2
    BY <1>2, <2>1, <2>2, PushTwo DEF n
  <2>4. /\ told' \in [Reqs -> Nat] /\ told'[t] = 1 /\ \A s \in Reqs : s # t => told'[s] = told[s]
        /\ call' \in [Reqs -> {"none", "starting", "open", "completed"}]
        /\ call'[t] # "open" /\ \A s \in Reqs : s # t => call'[s] = call[s]
    BY <1>3, <2>1 DEF TypeOK
  <2>5. TypeOK'
    BY <1>1, <1>4, <2>1, <2>3, <2>4 DEF TypeOK
  <2>6. ASSUME NEW s \in Reqs PROVE RequestOK(s)'
    <3>1. CASE s = t
      <4>1. ~req[t].mux
        BY <1>3, <1>10 DEF OnMux
      <4> QED BY <1>1, <1>4, <1>10, <2>1, <2>4, <3>1, <4>1 DEF RequestOK
    <3>2. CASE s # t
      <4>1. req'[s] = req[s] /\ call'[s] = call[s] /\ told'[s] = told[s]
        BY <1>4, <2>4, <3>2
      <4> QED BY <1>1, <2>1, <4>1 DEF RequestOK
    <3> QED BY <3>1, <3>2
  <2>7. QueueOK'
    <3>1. /\ Len(frames') \in Nat /\ Len(frames) - 1 <= Len(frames')
          /\ \A i \in 1 .. Len(frames) - 1 : frames'[i] = frames[i]
      BY <1>2, <2>3
    <3>2. \A s \in Reqs : req'[s].mux = req[s].mux
      BY <1>4
    <3> QED BY <1>1, <3>1, <3>2, QueueKeeps
  <2>8. StackOK'
    <3>1. ASSUME NEW i \in 1 .. Len(frames') PROVE FrameOK(frames[i])'
      <4>1. CASE i \in 1 .. n
        BY <1>3, <1>8, <2>3, <2>4, <4>1
      <4>2. CASE i = n + 1
        <5>1. req'[t].closing
          BY <1>4, <1>10
        <5> QED BY <2>2, <2>3, <4>2, <5>1 DEF FrameOK
      <4>3. CASE i = n + 2
        BY <2>2, <2>3, <2>4, <4>3 DEF FrameOK
      <4> QED BY <2>3, <4>1, <4>2, <4>3
    <3>2. ASSUME NEW i \in 1 .. Len(frames'), NEW j \in 1 .. Len(frames'),
                 frames'[i].fn = "post", frames'[j].fn = "post", frames'[i].r = frames'[j].r
          PROVE  i = j
      <4>1. i \in 1 .. n /\ j \in 1 .. n
        BY <2>2, <2>3, <3>2
      <4> QED BY <1>2, <2>3, <3>2, <4>1 DEF StackOK
    <3>3. \A s \in Reqs : req'[s].starting =>
            \E i \in 1 .. Len(frames') : frames'[i].fn = "post" /\ frames'[i].r = s
      BY <1>9, <2>3
    <3> QED BY <3>1, <3>2, <3>3 DEF StackOK
  <2>9. MuxOK'
    BY <1>1, <1>7 DEF MuxOK
  <2> QED BY <1>5, <1>6, <2>5, <2>6, <2>7, <2>8, <2>9
<1>11. CASE ~req[t].closing
  <2>1. /\ frames' = fs /\ UNCHANGED told
        /\ call' = [call EXCEPT ![t] = IF @ = "starting" THEN "open" ELSE @]
        /\ \E keep \in BOOLEAN : held' = IF keep THEN held \cup {t} ELSE held
    BY <1>11 DEF PostReturns, t, fs
  <2>2. held' \in SUBSET Reqs /\ \A s \in Reqs : s # t => (s \in held' <=> s \in held)
    BY <1>3, <2>1 DEF TypeOK
  <2>3. /\ call' \in [Reqs -> {"none", "starting", "open", "completed"}]
        /\ call'[t] = IF call[t] = "starting" THEN "open" ELSE call[t]
        /\ \A s \in Reqs : s # t => call'[s] = call[s]
    BY <1>3, <2>1 DEF TypeOK
  <2>4. /\ frames' \in Seq(Frame) /\ Len(frames') = n
        /\ \A i \in 1 .. n : frames'[i] = frames[i]
    BY <1>2, <2>1 DEF n
  <2>5. TypeOK'
    BY <1>1, <1>4, <2>1, <2>2, <2>3, <2>4 DEF TypeOK
  <2>6. req[t].mux
    BY <1>3, <1>11 DEF OnMux
  <2>7. ASSUME NEW s \in Reqs PROVE RequestOK(s)'
    <3>1. CASE s = t
      BY <1>1, <1>3, <1>4, <1>11, <2>1, <2>3, <2>6, <3>1 DEF RequestOK
    <3>2. CASE s # t
      <4>1. req'[s] = req[s] /\ call'[s] = call[s] /\ (s \in held' <=> s \in held)
        BY <1>4, <2>2, <2>3, <3>2
      <4> QED BY <1>1, <2>1, <4>1 DEF RequestOK
    <3> QED BY <3>1, <3>2
  <2>8. QueueOK'
    <3>1. /\ Len(frames') \in Nat /\ Len(frames) - 1 <= Len(frames')
          /\ \A i \in 1 .. Len(frames) - 1 : frames'[i] = frames[i]
      BY <1>2, <2>4
    <3>2. \A s \in Reqs : req'[s].mux = req[s].mux
      BY <1>4
    <3> QED BY <1>1, <3>1, <3>2, QueueKeeps
  <2>9. StackOK'
    <3>1. told'[t] >= told[t]
      BY <1>3, <2>1
    <3>2. \A i \in 1 .. Len(frames') : FrameOK(frames[i])'
      BY <1>8, <2>1, <2>4, <3>1
    <3>3. ASSUME NEW i \in 1 .. Len(frames'), NEW j \in 1 .. Len(frames'),
                 frames'[i].fn = "post", frames'[j].fn = "post", frames'[i].r = frames'[j].r
          PROVE  i = j
      BY <1>2, <2>4, <3>3 DEF StackOK
    <3>4. \A s \in Reqs : req'[s].starting =>
            \E i \in 1 .. Len(frames') : frames'[i].fn = "post" /\ frames'[i].r = s
      BY <1>9, <2>4
    <3> QED BY <3>2, <3>3, <3>4 DEF StackOK
  <2>10. MuxOK'
    BY <1>1, <1>7 DEF MuxOK
  <2> QED BY <1>5, <1>6, <2>5, <2>7, <2>8, <2>9, <2>10
<1> QED BY <1>10, <1>11

-----------------------------------------------------------------------------
(* The invariant.                                                          *)

LEMMA InitInv == Init => IInv
<1> SUFFICES ASSUME Init PROVE IInv
  OBVIOUS
<1> USE DEF Init
<1>1. Fresh \in Request /\ Fresh.mem = "none" /\ ~Fresh.mux /\ ~Fresh.closing /\ ~Fresh.starting
  BY DEF Fresh, Request
<1>2. req \in [Reqs -> Request] /\ \A r \in Reqs : req[r] = Fresh
  BY <1>1
<1>3. TypeOK
  <2>1. owner \in {"host", "client"} /\ mux \in {"open", "closing", "freed"}
    OBVIOUS
  <2>2. timer \in BOOLEAN /\ live \in Nat /\ held \in SUBSET Reqs
    OBVIOUS
  <2>3. msgs \in Seq(Message) /\ frames \in Seq(Frame)
    OBVIOUS
  <2>4. told \in [Reqs -> Nat] /\ call \in [Reqs -> {"none", "starting", "open", "completed"}]
    OBVIOUS
  <2> QED BY <1>2, <2>1, <2>2, <2>3, <2>4 DEF TypeOK
<1>4. OnMux
  BY <1>1, <1>2 DEF OnMux
<1>5. LiveExact
  <2>1. {r \in Reqs : req[r].mux} = {}
    BY <1>1, <1>2
  <2> QED BY <2>1, FS_EmptySet DEF LiveExact
<1>6. \A r \in Reqs : RequestOK(r)
  BY <1>1, <1>2 DEF RequestOK
<1>7. QueueOK /\ MuxOK
  BY DEF QueueOK, OneEach, MuxOK
<1>8. StackOK
  BY <1>1, <1>2 DEF StackOK
<1> QED BY <1>3, <1>4, <1>5, <1>6, <1>7, <1>8 DEF IInv

LEMMA NextInv == IInv /\ [Next]_vars => IInv'
<1> SUFFICES ASSUME IInv, [Next]_vars PROVE IInv'
  OBVIOUS
<1>1. CASE UNCHANGED vars
  BY <1>1 DEF vars, IInv, TypeOK, OnMux, LiveExact, RequestOK, QueueOK, StackOK, FrameOK, MuxOK
<1>2. CASE Next
  BY <1>2, CallbackReturnsKeeps, ReapKeeps, PostReturnsKeeps, CompletedPostReturnsKeeps,
     PollKeeps, MuxFreeNowKeeps, ClientFreeKeeps, HostFreeKeeps, TimerKeeps, WriteKeeps,
     PostRefusedKeeps, PostKeeps, CancelKeeps DEF Next
<1> QED BY <1>1, <1>2

\* Whatever the callbacks of clm/host.h start, cancel or free from inside the
\* loops of http_async.c, nothing freed is used: the count of requests that
\* lets the mux go is exact, no function that goes on to use the mux finds it
\* freed, and the owner's handles are to live requests.
THEOREM HandlesAlwaysSafe == Spec => []HandlesSafe
<1>1. IInv => HandlesSafe
  <2> SUFFICES ASSUME IInv PROVE HandlesSafe
    OBVIOUS
  <2>1. MuxThere
    BY DEF IInv, MuxOK, MuxThere
  <2>2. HandlesLive
    BY DEF IInv, TypeOK, RequestOK, HandlesLive
  <2> QED BY <2>1, <2>2 DEF IInv, HandlesSafe
<1> QED BY <1>1, InitInv, NextInv, PTL DEF Spec

-----------------------------------------------------------------------------
(* The engine implements Completions.                                      *)

LEMMA InitRefines == Init => Promise!Init
<1> SUFFICES ASSUME Init PROVE Promise!Init
  OBVIOUS
<1>1. \A r \in Reqs : told[r] = 0 /\ req[r].mem = "none"
  BY DEF Init, Fresh
<1>2. \A r \in Reqs : Life(r) = "idle"
  BY <1>1 DEF Life
<1> QED BY <1>2 DEF Init, Promise!Init

\* A request whose memory and answers stay is to its owner what it was.
LEMMA SameLife ==
    ASSUME NEW r \in Reqs, told'[r] = told[r], req'[r].mem = req[r].mem
    PROVE  Life(r)' = Life(r)
  BY DEF Life

LEMMA Stutters ==
    ASSUME UNCHANGED told, \A r \in Reqs : Life(r)' = Life(r)
    PROVE  UNCHANGED Promise!vars
  BY DEF Promise!vars

\* The one callback of a request that is open.
LEMMA Settles ==
    ASSUME IInv, NEW t \in Reqs, req[t].mem = "used", told[t] = 0,
           told' = [told EXCEPT ![t] = @ + 1],
           \A s \in Reqs : s # t => req'[s].mem = req[s].mem
    PROVE  Promise!Next
<1>1. told \in [Reqs -> Nat]
  BY DEF IInv, TypeOK
<1>2. Life(t) = "open"
  BY <1>1 DEF Life
<1>3. told'[t] = 1 /\ \A s \in Reqs : s # t => told'[s] = told[s]
  BY <1>1
<1>4. Life(t)' = "settled"
  BY <1>3 DEF Life
<1>5. \A s \in Reqs : s # t => Life(s)' = Life(s)
  BY <1>3, SameLife
<1>6. [s \in Reqs |-> Life(s)'] = [s \in Reqs |-> IF s \in {t} THEN "settled" ELSE Life(s)]
  BY <1>4, <1>5
<1>7. told' = [s \in Reqs |-> IF s \in {t} THEN told[s] + 1 ELSE told[s]]
  BY <1>1
<1>8. Promise!Settle({t})
  BY <1>2, <1>6, <1>7 DEF Promise!Settle
<1> QED BY <1>8 DEF Promise!Next

LEMMA TeardownRefines ==
    ASSUME IInv, NEW r \in Reqs, req[r].mux, NEW state, NEW q,
           http_request_teardown(r, state, q, frames)
    PROVE  Promise!Next \/ UNCHANGED Promise!vars
<1>1. req[r].mem = "used" /\ told[r] = 0
  <2>1. told[r] \in Nat
    BY DEF IInv, TypeOK
  <2>2. req[r].mem = "used" /\ ~req[r].closing
    BY DEF IInv, OnMux
  <2>3. ~(told[r] > 0)
    BY <2>2 DEF IInv, RequestOK
  <2> QED BY <2>1, <2>2, <2>3
<1>2. \A s \in Reqs : req'[s].mem = req[s].mem
  BY DEF http_request_teardown, IInv, TypeOK, Request
<1>3. CASE req[r].starting
  <2>1. told' = told
    BY <1>3 DEF http_request_teardown
  <2> QED BY <1>2, <2>1, SameLife, Stutters
<1>4. CASE ~req[r].starting
  <2>1. told' = [told EXCEPT ![r] = @ + 1]
    BY <1>4 DEF http_request_teardown, http_request_complete
  <2> QED BY <1>1, <1>2, <2>1, Settles
<1> QED BY <1>3, <1>4

LEMMA NextRefines ==
    ASSUME IInv, [Next]_vars
    PROVE  Promise!Next \/ UNCHANGED Promise!vars
<1> USE DEF IInv
<1>1. CASE UNCHANGED vars
  BY <1>1, SameLife, Stutters DEF vars
<1>2. CASE UNCHANGED <<req, told>>
  BY <1>2, SameLife, Stutters
<1>3. CASE CallbackReturns
  <2>1. frames # <<>> /\ Top.fn = "cb" /\ UNCHANGED told
    BY <1>3 DEF CallbackReturns
  <2>2. Top.r \in Reqs /\ told[Top.r] > 0
    <3>1. Len(frames) \in Nat /\ Len(frames) >= 1 /\ Top = frames[Len(frames)]
      BY <2>1, FrontLast DEF TypeOK, Top
    <3>2. Len(frames) \in 1 .. Len(frames)
      BY <3>1
    <3> QED BY <2>1, <3>1, <3>2, FrameFacts DEF StackOK, FrameOK
  <2>3. PICK t \in Reqs : t = Top.r
    BY <2>2
  <2>4. \A s \in Reqs : s # t => req'[s].mem = req[s].mem
    BY <1>3, <2>3 DEF CallbackReturns, TypeOK, Request
  <2>5. Life(t)' = Life(t)
    BY <2>1, <2>2, <2>3 DEF Life
  <2>6. \A s \in Reqs : Life(s)' = Life(s)
    BY <2>1, <2>4, <2>5, SameLife
  <2> QED BY <2>1, <2>6, Stutters
<1>4. CASE http_reap_done
  <2>1. CASE msgs = <<>>
    BY <1>2, <1>4, <2>1 DEF http_reap_done
  <2>2. CASE msgs # <<>>
    <3> DEFINE m == Head(msgs)
    <3>1. m = msgs[1] /\ m \in Message /\ 1 \in 1 .. Len(msgs)
      BY <2>2, EmptySeq, HeadTailProperties DEF TypeOK
    <3>2. m.r \in Reqs /\ req[m.r].mux
      BY <3>1 DEF QueueOK, Message
    <3> QED BY <1>4, <2>2, <3>2, TeardownRefines DEF http_reap_done
  <2> QED BY <2>1, <2>2
<1>5. CASE PostReturns
  <2> DEFINE t == Top.r
  <2>1. frames # <<>> /\ Top.fn = "post" /\ req' = [req EXCEPT ![t].starting = FALSE]
    BY <1>5 DEF PostReturns
  <2>2. t \in Reqs /\ req[t].mem = "used" /\ told[t] = 0
    <3>1. Len(frames) \in Nat /\ Len(frames) >= 1 /\ Top = frames[Len(frames)]
      BY <2>1, FrontLast DEF TypeOK, Top
    <3>2. Len(frames) \in 1 .. Len(frames)
      BY <3>1
    <3> QED BY <2>1, <3>1, <3>2, FrameFacts DEF StackOK, FrameOK
  <2>3. \A s \in Reqs : req'[s].mem = req[s].mem
    BY <2>1, <2>2 DEF TypeOK, Request
  <2>4. told' = [told EXCEPT ![t] = @ + 1] \/ told' = told
    BY <1>5 DEF PostReturns, http_request_complete
  <2> HIDE DEF t
  <2> QED BY <2>2, <2>3, <2>4, Settles, SameLife, Stutters
<1>6. CASE clm_host_uv_free
  <2> DEFINE R == {r \in Reqs : call[r] = "open"}
  <2>1. /\ owner = "host" /\ frames = <<>> /\ mux = "open" /\ UNCHANGED told
        /\ req' = [r \in Reqs |-> IF r \in R THEN [req[r] EXCEPT !.mux = FALSE, !.mem = "freed"]
                                  ELSE req[r]]
    BY <1>6 DEF clm_host_uv_free
  <2>2. Len(frames) = 0
    BY <2>1
  <2>3. \A r \in Reqs : ~req[r].starting
    BY <2>2 DEF StackOK
  <2>4. ASSUME NEW r \in Reqs
        PROVE  Life(r)' = IF Life(r) = "open" THEN "dropped" ELSE Life(r)
    <3>1. told[r] \in Nat /\ told'[r] = told[r]
      BY <2>1 DEF TypeOK
    <3>2. CASE r \in R
      <4>1. req[r].mux
        BY <3>2 DEF RequestOK
      <4>2. req[r].mem = "used" /\ told[r] = 0
        BY <3>1, <4>1 DEF OnMux, RequestOK
      <4>3. req'[r].mem = "freed"
        BY <2>1, <3>2 DEF TypeOK, Request
      <4> QED BY <3>1, <4>2, <4>3 DEF Life
    <3>3. CASE r \notin R
      <4>1. ~req[r].mux
        BY <2>1, <2>3, <3>3 DEF RequestOK
      <4>2. Life(r) # "open"
        <5>1. told[r] > 0 \/ req[r].mem # "used"
          BY <2>3, <3>1, <4>1 DEF OnMux, RequestOK
        <5> QED BY <3>1, <5>1 DEF Life, TypeOK, Request
      <4>3. req'[r].mem = req[r].mem
        BY <2>1, <3>3
      <4> QED BY <3>1, <4>2, <4>3, SameLife
    <3> QED BY <3>2, <3>3
  <2>5. Promise!DropAll
    <3>1. [r \in Reqs |-> Life(r)'] =
            [r \in Reqs |-> IF Life(r) = "open" THEN "dropped" ELSE Life(r)]
      BY <2>4
    <3> QED BY <2>1, <3>1 DEF Promise!DropAll
  <2> QED BY <2>5 DEF Promise!Next
<1>7. ASSUME NEW r \in Reqs, PostRefused(r)
      PROVE  Promise!Next
  <2>1. /\ req[r].mem = "none" /\ req' = [req EXCEPT ![r].mem = "refused"] /\ UNCHANGED told
    BY <1>7 DEF PostRefused
  <2>2. told[r] = 0 /\ told'[r] = 0
    <3>1. told[r] \in Nat
      BY DEF TypeOK
    <3>2. ~(told[r] > 0)
      BY <2>1 DEF RequestOK
    <3> QED BY <2>1, <3>1, <3>2
  <2>3. req'[r].mem = "refused" /\ \A s \in Reqs : s # r => req'[s].mem = req[s].mem
    BY <2>1 DEF TypeOK, Request
  <2>4. Life(r) = "idle" /\ Life(r)' = "refused" /\ \A s \in Reqs : s # r => Life(s)' = Life(s)
    <3>1. \A s \in Reqs : s # r => Life(s)' = Life(s)
      BY <2>1, <2>3, SameLife
    <3> QED BY <2>1, <2>2, <2>3, <3>1 DEF Life
  <2>5. Promise!Refuse(r)
    <3>1. [s \in Reqs |-> Life(s)'] = [[s \in Reqs |-> Life(s)] EXCEPT ![r] = "refused"]
      BY <2>4
    <3> QED BY <2>1, <2>4, <3>1 DEF Promise!Refuse
  <2> QED BY <2>5 DEF Promise!Next
<1>8. ASSUME NEW r \in Reqs, clm_http_async_post(r)
      PROVE  Promise!Next
  <2>1. mux = "open" /\ req[r].mem = "none" /\ UNCHANGED told
    BY <1>8 DEF clm_http_async_post
  <2>2. told[r] = 0 /\ told'[r] = 0
    <3>1. told[r] \in Nat
      BY DEF TypeOK
    <3>2. ~(told[r] > 0)
      BY <2>1 DEF RequestOK
    <3> QED BY <2>1, <3>1, <3>2
  <2>3. req'[r].mem = "used" /\ \A s \in Reqs : s # r => req'[s].mem = req[s].mem
    BY <1>8 DEF clm_http_async_post, TypeOK, Request, Fresh
  <2>4. Life(r) = "idle" /\ Life(r)' = "open" /\ \A s \in Reqs : s # r => Life(s)' = Life(s)
    <3>1. \A s \in Reqs : s # r => Life(s)' = Life(s)
      BY <2>1, <2>3, SameLife
    <3> QED BY <2>1, <2>2, <2>3, <3>1 DEF Life
  <2>5. \A s \in Reqs : Life(s) # "dropped"
    <3> SUFFICES ASSUME NEW s \in Reqs PROVE Life(s) # "dropped"
      OBVIOUS
    <3>1. req[s].mem = "freed" => told[s] # 0
      BY <2>1 DEF RequestOK
    <3>2. told[s] \in Nat
      BY DEF TypeOK
    <3> QED BY <3>1, <3>2 DEF Life
  <2>6. Promise!Accept(r)
    <3>1. [s \in Reqs |-> Life(s)'] = [[s \in Reqs |-> Life(s)] EXCEPT ![r] = "open"]
      BY <2>4
    <3> QED BY <2>1, <2>4, <2>5, <3>1 DEF Promise!Accept
  <2> QED BY <2>6 DEF Promise!Next
<1>9. ASSUME NEW r \in Reqs, clm_http_async_cancel(r)
      PROVE  Promise!Next \/ UNCHANGED Promise!vars
  <2>1. req[r].mux
    BY <1>9 DEF clm_http_async_cancel, RequestOK, OnMux
  <2> QED BY <1>9, <2>1, TeardownRefines DEF clm_http_async_cancel
<1>10. ASSUME NEW r \in Reqs, http_write_callback(r)
       PROVE  UNCHANGED Promise!vars
  <2>1. \A s \in Reqs : req'[s].mem = req[s].mem
    <3>1. \/ req' = [req EXCEPT ![r].received = @ + 1]
          \/ req' = [req EXCEPT ![r].state = "error"]
      BY <1>10 DEF http_write_callback
    <3>2. CASE req' = [req EXCEPT ![r].received = @ + 1]
      BY <3>2 DEF TypeOK, Request
    <3>3. CASE req' = [req EXCEPT ![r].state = "error"]
      BY <3>3 DEF TypeOK, Request
    <3> QED BY <3>1, <3>2, <3>3
  <2>2. UNCHANGED told
    BY <1>10 DEF http_write_callback
  <2> QED BY <2>1, <2>2, SameLife, Stutters
<1>11. CASE CompletedPostReturns \/ http_poll_callback \/ mux_free_now \/ ClientFree
             \/ \E r \in Reqs : http_timer_expired(r)
  BY <1>2, <1>11 DEF CompletedPostReturns, http_poll_callback, mux_free_now, ClientFree,
     http_timer_expired
<1> QED BY <1>1, <1>3, <1>4, <1>5, <1>6, <1>7, <1>8, <1>9, <1>10, <1>11 DEF Next

\* The engine keeps the promise of clm/host.h for any number of requests: a
\* request it took is answered by one callback, one it refused by none, and
\* none runs once the host is freed.
THEOREM EngineKeepsPromise == Spec => OneAnswer
<1>1. IInv /\ [Next]_vars => [Promise!Next]_(Promise!vars)
  BY NextRefines
<1> QED BY <1>1, InitInv, NextInv, InitRefines, PTL DEF Spec, OneAnswer, Promise!Spec
=============================================================================
