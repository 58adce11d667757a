-------------------------- MODULE McpClient_proofs --------------------------
(***************************************************************************)
(* An MCP client leaves nothing behind, answers each call with its own     *)
(* reply and answers it once: proved of McpClient for every set of calls   *)
(* and every restart burst.                                                *)
(***************************************************************************)
EXTENDS McpClient, Integers, SequenceTheorems, FiniteSetTheorems, WellFoundedInduction, TLAPS

-----------------------------------------------------------------------------
(* The sequences of the linked lists.                                      *)

\* A set of naturals has its minimum in it.
LEMMA MinIsMember ==
    ASSUME NEW I \in SUBSET Nat, I # {}
    PROVE  Min(I) \in I /\ \A i \in I : Min(I) <= i
<1> DEFINE R == OpToRel(<, Nat)
<1>1. IsWellFoundedOn(R, Nat)
  BY NatLessThanWellFounded
<1>2. \A a, b \in Nat : <<a, b>> \in R <=> a < b
  BY DEF OpToRel
<1> HIDE DEF R
<1>3. PICK x \in I : \A y \in I : ~(<<y, x>> \in R)
  BY <1>1, WFMin
<1>4. ASSUME NEW y \in I PROVE x <= y
  <2>1. x \in Nat /\ y \in Nat
    OBVIOUS
  <2>2. ~(y < x)
    BY <1>2, <1>3, <2>1
  <2> QED BY <2>1, <2>2
<1>5. \E n \in I : \A m \in I : n <= m
  BY <1>4
<1> QED BY <1>5 DEF Min

\* A list without its i-th node.
LEMMA RemoveAtFacts ==
    ASSUME NEW S, NEW q \in Seq(S), NEW i \in 1 .. Len(q)
    PROVE  /\ RemoveAt(q, i) \in Seq(S)
           /\ Len(RemoveAt(q, i)) = Len(q) - 1
           /\ \A j \in 1 .. Len(q) - 1 :
                RemoveAt(q, i)[j] = q[IF j < i THEN j ELSE j + 1]
<1> DEFINE a == SubSeq(q, 1, i - 1)
           b == SubSeq(q, i + 1, Len(q))
<1>0. Len(q) \in Nat /\ i \in Nat /\ i >= 1 /\ i <= Len(q)
  OBVIOUS
<1>1. a \in Seq(S) /\ Len(a) = i - 1 /\ \A j \in 1 .. i - 1 : a[j] = q[j]
  BY <1>0, SubSeqProperties
<1>2. b \in Seq(S) /\ Len(b) = Len(q) - i /\ \A j \in 1 .. Len(q) - i : b[j] = q[i + j]
  BY <1>0, SubSeqProperties
<1>3. RemoveAt(q, i) = a \o b
  BY DEF RemoveAt
<1> HIDE DEF a, b
<1>4. /\ a \o b \in Seq(S) /\ Len(a \o b) = Len(a) + Len(b)
      /\ \A j \in 1 .. Len(a) + Len(b) :
           (a \o b)[j] = IF j <= Len(a) THEN a[j] ELSE b[j - Len(a)]
  BY <1>1, <1>2, ConcatProperties
<1>5. ASSUME NEW j \in 1 .. Len(q) - 1
      PROVE  (a \o b)[j] = q[IF j < i THEN j ELSE j + 1]
  <2>0. j \in Nat /\ j >= 1 /\ j \in 1 .. Len(a) + Len(b)
    BY <1>0, <1>1, <1>2
  <2>1. CASE j < i
    <3>1. (a \o b)[j] = a[j] /\ j \in 1 .. i - 1
      BY <1>0, <1>1, <1>4, <2>0, <2>1
    <3> QED BY <1>1, <2>1, <3>1
  <2>2. CASE ~(j < i)
    <3>1. (a \o b)[j] = b[j - (i - 1)]
      BY <1>0, <1>1, <1>4, <2>0, <2>2
    <3>2. j - (i - 1) \in 1 .. Len(q) - i /\ i + (j - (i - 1)) = j + 1
      BY <1>0, <2>0, <2>2
    <3>3. b[j - (i - 1)] = q[i + (j - (i - 1))]
      BY <1>2, <3>2
    <3> QED BY <2>2, <3>1, <3>2, <3>3
  <2> QED BY <2>1, <2>2
<1> QED BY <1>0, <1>1, <1>2, <1>3, <1>4, <1>5

\* Taking the first of the nodes I off a list.
LEMMA RemoveMinFacts ==
    ASSUME NEW S, NEW q \in Seq(S), NEW I \in SUBSET (1 .. Len(q)), I # {}
    PROVE  /\ Min(I) \in I
           /\ RemoveAt(q, Min(I)) \in Seq(S)
           /\ Len(RemoveAt(q, Min(I))) = Len(q) - 1
           /\ \A j \in 1 .. Len(q) - 1 :
                RemoveAt(q, Min(I))[j] = q[IF j < Min(I) THEN j ELSE j + 1]
<1>1. I \in SUBSET Nat
  OBVIOUS
<1>2. Min(I) \in I
  BY <1>1, MinIsMember
<1> QED BY <1>2, RemoveAtFacts

\* A stack with one more frame, and with two.
LEMMA PushOne ==
    ASSUME NEW S, NEW s \in Seq(S), NEW f \in S
    PROVE  /\ Len(s) \in Nat
           /\ Append(s, f) \in Seq(S) /\ Len(Append(s, f)) = Len(s) + 1
           /\ \A i \in 1 .. Len(s) : i \in 1 .. Len(s) + 1 /\ Append(s, f)[i] = s[i]
           /\ Append(s, f)[Len(s) + 1] = f
           /\ Len(s) + 1 \in 1 .. Len(s) + 1
           /\ \A i \in 1 .. Len(s) + 1 : i \in 1 .. Len(s) \/ i = Len(s) + 1
<1>1. Len(s) \in Nat
  OBVIOUS
<1>2. /\ Append(s, f) \in Seq(S) /\ Len(Append(s, f)) = Len(s) + 1
      /\ \A i \in 1 .. Len(s) : Append(s, f)[i] = s[i]
      /\ Append(s, f)[Len(s) + 1] = f
  BY AppendProperties
<1> QED BY <1>1, <1>2

-----------------------------------------------------------------------------
Handles == {"in", "out", "proc"}

Entry == [id : Nat, kind : {"init", "list", "call"}, call : Calls \cup {None}]

Reply == [id : Nat, ok : BOOLEAN, to : Calls \cup {None}]

Client == [st : {"none", "live", "freed"}, transport : {"stdio", "http"}, dead : BOOLEAN,
           spawned : BOOLEAN, closing : BOOLEAN, remaining : Nat,
           intent : {"idle", "respawn", "free"}, uv : SUBSET Handles, discarded : BOOLEAN,
           tokens : Nat, next_id : Nat, pending : Seq(Entry), https : Seq(Entry),
           tools : BOOLEAN, on_ready : BOOLEAN, owns_user : BOOLEAN]

Call == [st : {"idle", "open", "failed", "done"}, answers : Nat,
         by : Calls \cup {None, "client"}]

TypeOK ==
    /\ cl \in Client
    /\ calls \in [Calls -> Call]
    /\ ready \in [settled : BOOLEAN, waiting : Int, frees : Nat, late : BOOLEAN]
    /\ child \in [st : {"none", "running", "exited"}, out : BOOLEAN, reaped : BOOLEAN,
                  killed : BOOLEAN]
    /\ work \in SUBSET Entry
    /\ lines \in Seq(Reply)

\* The stages of a client: not started, running its server, closing, waiting
\* for nothing (dead for good, or a connection without a process), and gone.
StageOK(c) ==
    /\ c.st = "none" => ~c.spawned /\ ~c.closing /\ ~c.dead /\ ~c.discarded
    /\ c.st = "freed" => ~c.spawned /\ ~c.closing /\ c.discarded
    /\ c.spawned => c.transport = "stdio" /\ ~c.closing /\ ~c.dead /\ ~c.discarded
    /\ c.closing => c.transport = "stdio" /\ (c.dead \/ c.discarded)
                    /\ (c.intent = "free" <=> c.discarded)
    /\ c.transport = "stdio" /\ c.st = "live" => c.spawned \/ c.dead \/ c.discarded
    /\ c.transport = "http" => ~c.dead
    /\ c.on_ready <=> ~c.discarded
    /\ ~c.owns_user => c.discarded

\* A process that was not reaped belongs to a client that runs it or that
\* waits for its exit.
ChildOK(c, ch) ==
    /\ c.spawned => ~ch.reaped
    /\ ~ch.reaped => c.spawned \/ (c.closing /\ c.dead)
    /\ ch.st = "running" => ~ch.reaped

One(b) == IF b THEN 1 ELSE 0

\* `remaining' counts the handles whose close is to come, the process handle
\* from the start although mcp_on_exit closes it later.
HandlesOK(c, ch) ==
    /\ ~c.closing => c.uv = {}
    /\ c.closing => /\ "proc" \in c.uv => ch.reaped
                    /\ c.remaining = One("in" \in c.uv) + One("out" \in c.uv)
                                     + One("proc" \in c.uv \/ ~ch.reaped)

\* A request list: calls are requests with a call, and each is there once.
ListOK(q) ==
    /\ \A i \in 1 .. Len(q) : q[i].kind = "call" <=> q[i].call # None
    /\ \A i, j \in 1 .. Len(q) : q[i].call = q[j].call /\ q[i].call # None => i = j

QueuesOK(c) ==
    /\ ListOK(c.pending) /\ ListOK(c.https)
    /\ c.transport = "http" => c.pending = <<>>
    /\ c.transport = "stdio" => c.https = <<>>
    /\ c.st = "none" \/ c.dead \/ c.discarded => c.pending = <<>> /\ c.https = <<>> /\ ~c.tools

\* The owner's context, and the count its owner waits on.
ReadyOK(c, rd) ==
    /\ ~rd.late
    /\ rd.frees = One(c.st = "freed" \/ ~c.owns_user)
    /\ rd.waiting = One(c.st = "live" /\ c.owns_user /\ ~rd.settled)
    /\ c.st = "none" => ~rd.settled

Listed(c) == CallsOf(c.pending) \cup CallsOf(c.https)

CallsOK(c, cs) ==
    \A k \in Calls :
        /\ cs[k].st = "open" <=> k \in Listed(c)
        /\ cs[k].answers = One(cs[k].st = "done")
        /\ cs[k].by \in {None, "client", k}

\* What the server has and sends carries ids of this server only, and an id
\* means the same request on both sides.
IdsOK(c, w, ls) ==
    c.spawned =>
        /\ \A i \in 1 .. Len(c.pending) : c.pending[i].id < c.next_id
        /\ \A e \in w : /\ e.id < c.next_id
                        /\ \A i \in 1 .. Len(c.pending) :
                             c.pending[i].id = e.id => c.pending[i].call = e.call
        /\ \A j \in 1 .. Len(ls) :
                /\ ls[j].id < c.next_id
                /\ \A i \in 1 .. Len(c.pending) :
                      c.pending[i].id = ls[j].id => c.pending[i].call = ls[j].to

\* Before the start there is no server.
FreshOK == cl.st = "none" => work = {} /\ lines = <<>> /\ child.reaped

IInv ==
    /\ TypeOK /\ StageOK(cl) /\ ChildOK(cl, child) /\ HandlesOK(cl, child)
    /\ QueuesOK(cl) /\ ReadyOK(cl, ready) /\ CallsOK(cl, calls)
    /\ IdsOK(cl, work, lines) /\ FreshOK

-----------------------------------------------------------------------------
(* Request lists.                                                          *)

LEMMA ListFacts ==
    ASSUME NEW q \in Seq(Entry)
    PROVE  /\ Len(q) \in Nat /\ DOMAIN q = 1 .. Len(q)
           /\ \A i \in 1 .. Len(q) : q[i] \in Entry
           /\ CallsOf(q) \in SUBSET Calls
<1>1. Len(q) \in Nat /\ DOMAIN q = 1 .. Len(q) /\ \A i \in 1 .. Len(q) : q[i] \in Entry
  BY LenProperties, ElementOfSeq
<1> QED BY <1>1 DEF CallsOf, Entry

LEMMA CallsMember ==
    ASSUME NEW q \in Seq(Entry)
    PROVE  \A k : k \in CallsOf(q) <=> k # None /\ \E i \in 1 .. Len(q) : q[i].call = k
BY ListFacts DEF CallsOf

LEMMA EmptyList ==
    <<>> \in Seq(Entry) /\ ListOK(<<>>) /\ CallsOf(<<>>) = {} /\ Len(<<>>) = 0
<1>1. <<>> \in Seq(Entry) /\ Len(<<>>) = 0
  BY EmptySeq
<1>2. \A i \in 1 .. Len(<<>>) : FALSE
  BY <1>1
<1> QED BY <1>1, <1>2, ListFacts DEF ListOK, CallsOf

\* A new request comes first.
LEMMA ConsFacts ==
    ASSUME NEW q \in Seq(Entry), NEW e \in Entry, ListOK(q),
           e.kind = "call" <=> e.call # None, e.call \notin CallsOf(q)
    PROVE  /\ <<e>> \o q \in Seq(Entry) /\ ListOK(<<e>> \o q)
           /\ CallsOf(<<e>> \o q) = CallsOf(q) \cup ({e.call} \ {None})
           /\ \A i \in 1 .. Len(<<e>> \o q) :
                (<<e>> \o q)[i] = e \/ \E j \in 1 .. Len(q) : (<<e>> \o q)[i] = q[j]
<1> DEFINE w == <<e>> \o q
           n == Len(q)
<1>1. <<e>> \in Seq(Entry) /\ Len(<<e>>) = 1 /\ <<e>>[1] = e
  OBVIOUS
<1>2. n \in Nat /\ DOMAIN q = 1 .. n
  BY ListFacts
<1>3. /\ w \in Seq(Entry) /\ Len(w) = 1 + n
      /\ \A i \in 1 .. 1 + n : w[i] = IF i <= 1 THEN <<e>>[i] ELSE q[i - 1]
  BY <1>1, <1>2, ConcatProperties
<1>4. w[1] = e /\ \A i \in 1 .. n : w[i + 1] = q[i]
  BY <1>1, <1>2, <1>3
<1>5. DOMAIN w = 1 .. n + 1
  BY <1>2, <1>3, LenProperties
<1> HIDE DEF w, n
<1>6. \A i \in 1 .. n + 1 : i = 1 \/ (i - 1 \in 1 .. n /\ i = (i - 1) + 1)
  BY <1>2
<1>7. \A i \in 1 .. n + 1 : w[i] = e \/ \E j \in 1 .. n : i = j + 1 /\ w[i] = q[j]
  BY <1>4, <1>6
<1>8. CallsOf(w) = CallsOf(q) \cup ({e.call} \ {None})
  <2>1. \A i \in 1 .. n : i + 1 \in 1 .. n + 1
    BY <1>2
  <2>2. 1 \in 1 .. n + 1
    BY <1>2
  <2>3. Len(w) = n + 1
    BY <1>2, <1>3
  <2>4. ASSUME NEW k, k \in CallsOf(w) PROVE k \in CallsOf(q) \cup ({e.call} \ {None})
    <3>1. PICK i \in 1 .. n + 1 : w[i].call = k /\ k # None
      BY <1>3, <2>3, <2>4, CallsMember
    <3>2. CASE w[i] = e
      BY <3>1, <3>2
    <3>3. CASE \E j \in 1 .. n : w[i] = q[j]
      BY <3>1, <3>3, CallsMember DEF n
    <3> QED BY <1>7, <3>2, <3>3
  <2>5. ASSUME NEW k, k \in CallsOf(q) PROVE k \in CallsOf(w)
    <3>1. PICK j \in 1 .. n : q[j].call = k /\ k # None
      BY <2>5, CallsMember DEF n
    <3>2. j + 1 \in 1 .. n + 1 /\ w[j + 1].call = k
      BY <1>4, <2>1, <3>1
    <3> QED BY <1>3, <2>3, <3>1, <3>2, CallsMember
  <2>6. e.call # None => e.call \in CallsOf(w)
    BY <1>3, <1>4, <2>2, <2>3, CallsMember
  <2> QED BY <2>4, <2>5, <2>6
<1>9. ListOK(w)
  <2>1. \A i \in 1 .. n + 1 : w[i].kind = "call" <=> w[i].call # None
    BY <1>7 DEF ListOK, n
  <2>2. ASSUME NEW i \in 1 .. n + 1, NEW j \in 1 .. n + 1, w[i].call = w[j].call, w[i].call # None
        PROVE  i = j
    <3>1. \A m \in 1 .. n : q[m].call # None => q[m].call \in CallsOf(q)
      BY <1>2 DEF CallsOf
    <3>2. CASE i = 1 /\ j # 1
      BY <1>4, <1>6, <2>2, <3>1, <3>2
    <3>3. CASE j = 1 /\ i # 1
      BY <1>4, <1>6, <2>2, <3>1, <3>3
    <3>4. CASE i # 1 /\ j # 1
      <4>1. i - 1 \in 1 .. n /\ j - 1 \in 1 .. n /\ w[i] = q[i - 1] /\ w[j] = q[j - 1]
        BY <1>4, <1>6, <3>4
      <4>2. i - 1 = j - 1
        BY <2>2, <4>1 DEF ListOK, n
      <4> QED BY <4>2
    <3> QED BY <3>2, <3>3, <3>4
  <2> QED BY <1>2, <1>3, <2>1, <2>2 DEF ListOK
<1> QED BY <1>2, <1>3, <1>7, <1>8, <1>9 DEF w, n

\* A request is taken off its list.
LEMMA TakeFacts ==
    ASSUME NEW q \in Seq(Entry), ListOK(q), NEW i \in 1 .. Len(q)
    PROVE  /\ RemoveAt(q, i) \in Seq(Entry) /\ ListOK(RemoveAt(q, i))
           /\ CallsOf(RemoveAt(q, i)) = CallsOf(q) \ {q[i].call}
           /\ \A j \in 1 .. Len(RemoveAt(q, i)) :
                \E m \in 1 .. Len(q) : RemoveAt(q, i)[j] = q[m]
<1> DEFINE w == RemoveAt(q, i)
           n == Len(q)
           at(j) == IF j < i THEN j ELSE j + 1
<1>1. n \in Nat /\ DOMAIN q = 1 .. n
  BY ListFacts
<1>2. w \in Seq(Entry) /\ Len(w) = n - 1 /\ \A j \in 1 .. n - 1 : w[j] = q[at(j)]
  BY RemoveAtFacts
<1>3. DOMAIN w = 1 .. n - 1
  BY <1>2, LenProperties
<1> HIDE DEF w
<1>4. /\ \A j \in 1 .. n - 1 : at(j) \in 1 .. n /\ at(j) # i
      /\ \A j, m \in 1 .. n - 1 : at(j) = at(m) => j = m
  BY <1>1
<1>5. \A m \in 1 .. n : m # i => \E j \in 1 .. n - 1 : at(j) = m
  <2> SUFFICES ASSUME NEW m \in 1 .. n, m # i PROVE \E j \in 1 .. n - 1 : at(j) = m
    OBVIOUS
  <2>1. CASE m < i
    <3>1. m \in 1 .. n - 1 /\ at(m) = m
      BY <1>1, <2>1
    <3> QED BY <3>1
  <2>2. CASE ~(m < i)
    <3>1. m - 1 \in 1 .. n - 1 /\ at(m - 1) = m
      BY <1>1, <2>2
    <3> QED BY <3>1
  <2> QED BY <2>1, <2>2
<1> HIDE DEF at
<1>6. ListOK(w)
  <2>1. ASSUME NEW j \in 1 .. n - 1
        PROVE  at(j) \in 1 .. n /\ w[j] = q[at(j)] /\ (w[j].kind = "call" <=> w[j].call # None)
    <3>1. at(j) \in 1 .. n /\ w[j] = q[at(j)]
      BY <1>2, <1>4
    <3> QED BY <3>1 DEF ListOK
  <2>2. ASSUME NEW j \in 1 .. n - 1, NEW m \in 1 .. n - 1, w[j].call = w[m].call, w[j].call # None
        PROVE  j = m
    <3>1. at(j) = at(m)
      BY <2>1, <2>2 DEF ListOK
    <3> QED BY <1>4, <3>1
  <2> QED BY <1>2, <2>1, <2>2 DEF ListOK
<1>7. CallsOf(w) = CallsOf(q) \ {q[i].call}
  <2>1. ASSUME NEW k PROVE k \in CallsOf(w) => k \in CallsOf(q) /\ k # q[i].call
    <3> SUFFICES ASSUME k \in CallsOf(w) PROVE k \in CallsOf(q) /\ k # q[i].call
      OBVIOUS
    <3>1. PICK j \in 1 .. n - 1 : k = w[j].call /\ k # None
      BY <1>3 DEF CallsOf
    <3>2. at(j) \in 1 .. n /\ at(j) # i /\ k = q[at(j)].call
      BY <1>2, <1>4, <3>1
    <3> QED BY <1>1, <3>1, <3>2 DEF CallsOf, ListOK
  <2>2. ASSUME NEW k PROVE k \in CallsOf(q) /\ k # q[i].call => k \in CallsOf(w)
    <3> SUFFICES ASSUME k \in CallsOf(q), k # q[i].call PROVE k \in CallsOf(w)
      OBVIOUS
    <3>1. PICK m \in 1 .. n : q[m].call = k /\ k # None
      BY CallsMember
    <3>2. PICK j \in 1 .. n - 1 : at(j) = m
      BY <1>5, <3>1
    <3> QED BY <1>2, <3>1, <3>2, CallsMember
  <2> QED BY <2>1, <2>2
<1> QED BY <1>1, <1>2, <1>4, <1>6, <1>7 DEF w, n

LEMMA UnlinkFacts ==
    ASSUME NEW q \in Seq(Entry), ListOK(q), NEW k \in Calls
    PROVE  /\ Unlink(q, k) \in Seq(Entry) /\ ListOK(Unlink(q, k))
           /\ CallsOf(Unlink(q, k)) = CallsOf(q) \ {k}
           /\ \A j \in 1 .. Len(Unlink(q, k)) :
                \E m \in 1 .. Len(q) : Unlink(q, k)[j] = q[m]
<1> DEFINE I == {i \in 1 .. Len(q) : q[i].call = k}
<1>0. Len(q) \in Nat /\ DOMAIN q = 1 .. Len(q)
  BY ListFacts
<1>1. CASE I = {}
  <2>1. Unlink(q, k) = q
    BY <1>1 DEF Unlink, RemoveFirstMatch, SelectInSeq
  <2>2. k \notin CallsOf(q)
    BY <1>0, <1>1 DEF CallsOf
  <2> QED BY <2>1, <2>2
<1>2. CASE I # {}
  <2>1. Unlink(q, k) = RemoveAt(q, Min(I))
    BY <1>2 DEF Unlink, RemoveFirstMatch, SelectInSeq
  <2>2. Min(I) \in I
    BY <1>2, RemoveMinFacts
  <2>3. Min(I) \in 1 .. Len(q) /\ q[Min(I)].call = k
    BY <2>2
  <2> DEFINE m == Min(I)
  <2> HIDE DEF m
  <2>4. m \in 1 .. Len(q) /\ q[m].call = k /\ Unlink(q, k) = RemoveAt(q, m)
    BY <2>1, <2>3 DEF m
  <2> DEFINE w == RemoveAt(q, m)
  <2>5. /\ w \in Seq(Entry) /\ ListOK(w) /\ CallsOf(w) = CallsOf(q) \ {k}
        /\ \A j \in 1 .. Len(w) : \E x \in 1 .. Len(q) : w[j] = q[x]
    <3>1. /\ w \in Seq(Entry) /\ ListOK(w) /\ CallsOf(w) = CallsOf(q) \ {q[m].call}
          /\ \A j \in 1 .. Len(w) : \E x \in 1 .. Len(q) : w[j] = q[x]
      BY <2>4, TakeFacts
    <3> QED BY <2>4, <3>1
  <2>6. Unlink(q, k) = w
    BY <2>4
  <2> HIDE DEF w
  <2> QED BY <2>5, <2>6
<1> QED BY <1>1, <1>2

LEMMA TakenPlace ==
    ASSUME NEW q \in Seq(Entry), NEW id
    PROVE  \/ mcp_pending_take(q, id) = 0
           \/ mcp_pending_take(q, id) \in 1 .. Len(q) /\ q[mcp_pending_take(q, id)].id = id
<1> DEFINE I == {i \in 1 .. Len(q) : q[i].id = id}
<1>1. CASE I = {}
  BY <1>1 DEF mcp_pending_take, SelectInSeq
<1>2. CASE I # {}
  <2>1. mcp_pending_take(q, id) = Min(I)
    BY <1>2 DEF mcp_pending_take, SelectInSeq
  <2>2. Min(I) \in I
    BY <1>2, RemoveMinFacts
  <2> QED BY <2>1, <2>2
<1> QED BY <1>1, <1>2

-----------------------------------------------------------------------------
(* What the owner sees.                                                    *)

LEMMA ListedFacts ==
    ASSUME NEW c \in Client
    PROVE  Listed(c) \in SUBSET Calls
<1>1. c.pending \in Seq(Entry) /\ c.https \in Seq(Entry)
  BY DEF Client
<1> QED BY <1>1, ListFacts DEF Listed

\* The calls of K are taken off the lists and reported.
LEMMA Reported ==
    ASSUME TypeOK, CallsOK(cl, calls), NEW c, NEW K, K \in SUBSET Calls, K \subseteq Listed(cl),
           Listed(c) = Listed(cl) \ K, NEW by,
           by = "client" \/ \E k \in Calls : K = {k} /\ by = k
    PROVE  Report(K, by) \in [Calls -> Call] /\ CallsOK(c, Report(K, by))
<1> DEFINE cs == Report(K, by)
<1>1. \A k \in Calls : calls[k] \in Call /\ calls[k].answers \in Nat /\ calls[k].answers + 1 \in Nat
  BY DEF TypeOK, Call
<1>2. \A k \in Calls : k \in K => /\ cs[k] = [st |-> "done", answers |-> calls[k].answers + 1, by |-> by]
                                  /\ by \in {"client", k} /\ calls[k].answers = 0
  BY DEF Report, CallsOK, One
<1>3. \A k \in Calls : k \notin K => cs[k] = calls[k]
  BY DEF Report
<1>4. ASSUME NEW k \in Calls PROVE cs[k] \in Call
  <2>1. CASE k \in K
    <3>1. cs[k] = [st |-> "done", answers |-> calls[k].answers + 1, by |-> by]
      BY <1>2, <2>1
    <3>2. by \in Calls \cup {None, "client"} /\ calls[k].answers + 1 \in Nat
      BY <1>1, <1>2, <2>1
    <3> QED BY <3>1, <3>2 DEF Call
  <2>2. CASE k \notin K
    BY <1>1, <1>3, <2>2
  <2> QED BY <2>1, <2>2
<1>5. cs \in [Calls -> Call]
  BY <1>4 DEF Report
<1> HIDE DEF cs
<1>6. ASSUME NEW k \in Calls
      PROVE  /\ cs[k].st = "open" <=> k \in Listed(c)
             /\ cs[k].answers = One(cs[k].st = "done")
             /\ cs[k].by \in {None, "client", k}
  <2>1. CASE k \in K
    <3>0. /\ cs[k] = [st |-> "done", answers |-> calls[k].answers + 1, by |-> by]
          /\ calls[k].answers = 0
      BY <1>2, <2>1
    <3>1. cs[k].st = "done" /\ cs[k].answers = 0 + 1 /\ cs[k].by = by
      BY <3>0
    <3> QED BY <1>2, <2>1, <3>1 DEF One
  <2>2. CASE k \notin K
    BY <1>3, <2>2 DEF CallsOK
  <2> QED BY <2>1, <2>2
<1> QED BY <1>5, <1>6 DEF CallsOK, cs

LEMMA SameCalls ==
    ASSUME CallsOK(cl, calls), NEW c, Listed(c) = Listed(cl)
    PROVE  CallsOK(c, calls)
BY DEF CallsOK

ReadyType == [settled : BOOLEAN, waiting : Int, frees : Nat, late : BOOLEAN]

LEMMA ReadyKept ==
    ASSUME ReadyOK(cl, ready), NEW d, d.st = cl.st, d.owns_user = cl.owns_user
    PROVE  ReadyOK(d, ready)
BY DEF ReadyOK

\* on_ready is reported to an owner whose context is there.
LEMMA ReadyReported ==
    ASSUME TypeOK, StageOK(cl), ReadyOK(cl, ready), cl.st = "live",
           NEW c, c.on_ready = cl.on_ready,
           NEW d, d.st = "live", d.owns_user = cl.owns_user
    PROVE  on_mcp_ready(c) \in ReadyType /\ ReadyOK(d, on_mcp_ready(c))
<1>0. ready \in ReadyType /\ cl.on_ready \in BOOLEAN
  BY DEF TypeOK, ReadyType, Client
<1>1. CASE ~c.on_ready
  BY <1>0, <1>1 DEF on_mcp_ready, ReadyOK
<1>2. CASE c.on_ready
  <2>0. cl.owns_user /\ ready.frees = One(FALSE)
    <3>1. cl.on_ready /\ cl.owns_user \in BOOLEAN /\ cl.discarded \in BOOLEAN
      BY <1>2 DEF TypeOK, Client
    <3>2. cl.owns_user
      BY <3>1 DEF StageOK
    <3>3. (cl.st = "freed" \/ ~cl.owns_user) = FALSE
      BY <3>2
    <3> QED BY <3>2, <3>3 DEF ReadyOK
  <2>1. cl.owns_user /\ ready.frees = 0 /\ ~ready.late
    BY <2>0 DEF ReadyOK, One
  <2>2. ready.waiting = IF ready.settled THEN 0 ELSE 1
    <3>1. ready.settled \in BOOLEAN
      BY <1>0 DEF ReadyType
    <3>2. CASE ready.settled
      BY <2>1, <3>2 DEF ReadyOK, One
    <3>3. CASE ~ready.settled
      BY <2>1, <3>3 DEF ReadyOK, One
    <3> QED BY <3>2, <3>3
  <2>3. (IF ready.settled THEN ready.waiting ELSE ready.waiting - 1) = 0
    BY <2>2
  <2>4. on_mcp_ready(c) = [ready EXCEPT !.settled = TRUE, !.late = ready.late \/ ready.frees > 0,
                                        !.waiting = 0]
    BY <1>2, <2>3 DEF on_mcp_ready
  <2>5. ~(ready.late \/ ready.frees > 0)
    BY <2>1
  <2>6. on_mcp_ready(c) = [settled |-> TRUE, waiting |-> 0, frees |-> 0, late |-> FALSE]
    BY <1>0, <2>1, <2>4, <2>5 DEF ReadyType
  <2> QED BY <2>1, <2>6 DEF ReadyType, ReadyOK, One
<1> QED BY <1>1, <1>2

\* The owner's context goes with the client, once.
LEMMA ReadyFreed ==
    ASSUME TypeOK, ReadyOK(cl, ready), cl.st = "live", cl.owns_user \in BOOLEAN,
           NEW d, d.st = "freed", d.owns_user = cl.owns_user
    PROVE  UserFreed(d, ready) \in ReadyType /\ ReadyOK(d, UserFreed(d, ready))
<1>0. ready \in ReadyType
  BY DEF TypeOK, ReadyType
<1>1. CASE ~cl.owns_user
  BY <1>0, <1>1 DEF UserFreed, ReadyOK, One
<1>2. CASE cl.owns_user
  <2>0. (cl.st = "freed" \/ ~cl.owns_user) = FALSE
    BY <1>2
  <2>1. ready.frees = 0 /\ ~ready.late
    BY <2>0 DEF ReadyOK, One
  <2>2. ready.waiting = IF ready.settled THEN 0 ELSE 1
    <3>1. ready.settled \in BOOLEAN
      BY <1>0 DEF ReadyType
    <3>2. CASE ready.settled
      BY <1>2, <3>2 DEF ReadyOK, One
    <3>3. CASE ~ready.settled
      BY <1>2, <3>3 DEF ReadyOK, One
    <3> QED BY <3>1, <3>2, <3>3
  <2>3. (IF ready.settled THEN ready.waiting ELSE ready.waiting - 1) = 0
    BY <2>2
  <2>4. UserFreed(d, ready) = [ready EXCEPT !.frees = 1, !.waiting = 0]
    <3>1. ready.frees + 1 = 1
      BY <2>1
    <3>2. UserFreed(d, ready) = free_mcp_ready_ctx(ready)
      BY <1>2 DEF UserFreed
    <3> QED BY <2>3, <3>1, <3>2 DEF free_mcp_ready_ctx
  <2>5. /\ UserFreed(d, ready) \in ReadyType
        /\ UserFreed(d, ready).frees = 1 /\ UserFreed(d, ready).waiting = 0
        /\ UserFreed(d, ready).late = ready.late
    <3> DEFINE u == UserFreed(d, ready)
    <3>1. u = [ready EXCEPT !.frees = 1, !.waiting = 0]
      BY <2>4
    <3> HIDE DEF u
    <3>2. u.frees = 1 /\ u.waiting = 0 /\ u.late = ready.late
      BY <1>0, <3>1 DEF ReadyType
    <3>3. u \in ReadyType
      <4>1. u = [settled |-> ready.settled, waiting |-> 0, frees |-> 1, late |-> ready.late]
        BY <1>0, <3>1 DEF ReadyType
      <4>2. ready.settled \in BOOLEAN /\ ready.late \in BOOLEAN
        BY <1>0 DEF ReadyType
      <4> QED BY <4>1, <4>2 DEF ReadyType
    <3> QED BY <3>2, <3>3 DEF u
  <2> QED BY <2>1, <2>5 DEF ReadyOK, One
<1> QED BY <1>1, <1>2

-----------------------------------------------------------------------------
(* Requests.                                                               *)

\* The fields that say in which stage a client is.
SameStage(c, d) ==
    /\ d.st = c.st /\ d.transport = c.transport /\ d.dead = c.dead
    /\ d.spawned = c.spawned /\ d.closing = c.closing /\ d.remaining = c.remaining
    /\ d.intent = c.intent /\ d.uv = c.uv /\ d.discarded = c.discarded
    /\ d.on_ready = c.on_ready /\ d.owns_user = c.owns_user

LEMMA StageKept ==
    ASSUME StageOK(cl), ChildOK(cl, child), HandlesOK(cl, child), NEW d, SameStage(cl, d)
    PROVE  StageOK(d) /\ ChildOK(d, child) /\ HandlesOK(d, child)
<1>1. StageOK(d)
  BY DEF StageOK, SameStage
<1>2. ChildOK(d, child)
  BY DEF ChildOK, SameStage
<1>3. HandlesOK(d, child)
  BY DEF HandlesOK, SameStage
<1> QED BY <1>1, <1>2, <1>3

Request(c, kind, k) == [id |-> c.next_id, kind |-> kind, call |-> k]

\* mcp_send, from a client whose server or connection is there.
LEMMA SendFacts ==
    ASSUME NEW c \in Client, QueuesOK(c), c.st = "live", ~c.dead, ~c.discarded,
           NEW kind \in {"init", "list", "call"}, NEW k \in Calls \cup {None},
           kind = "call" <=> k # None, k \notin Listed(c),
           NEW d, d = mcp_send(c, kind, k)
    PROVE  /\ d \in Client /\ SameStage(c, d) /\ d.tools = c.tools /\ QueuesOK(d)
           /\ Listed(d) = Listed(c) \cup ({k} \ {None})
           /\ d.next_id = c.next_id + 1 /\ Request(c, kind, k) \in Entry
           /\ c.transport = "stdio" =>
                \A i \in 1 .. Len(d.pending) :
                    \/ d.pending[i] = Request(c, kind, k)
                    \/ \E j \in 1 .. Len(c.pending) : d.pending[i] = c.pending[j]
<1> DEFINE e == Request(c, kind, k)
<1>1. /\ c.next_id \in Nat /\ c.next_id + 1 \in Nat /\ c.pending \in Seq(Entry) /\ c.https \in Seq(Entry)
      /\ c.transport \in {"stdio", "http"}
  BY DEF Client
<1>2. e \in Entry /\ e.kind = kind /\ e.call = k
  BY <1>1 DEF Entry, Request
<1>3. k \notin CallsOf(c.pending) /\ k \notin CallsOf(c.https)
  BY DEF Listed
<1> HIDE DEF e
<1>4. CASE c.transport = "http"
  <2> DEFINE q == <<e>> \o c.https
  <2>1. q \in Seq(Entry) /\ ListOK(q) /\ CallsOf(q) = CallsOf(c.https) \cup ({k} \ {None})
    BY <1>1, <1>2, <1>3, ConsFacts DEF QueuesOK
  <2>2. d = [[c EXCEPT !.next_id = @ + 1] EXCEPT !.https = q]
    BY <1>4 DEF mcp_send, mcp_http_send, e, Request
  <2> HIDE DEF q
  <2>3. /\ d \in Client /\ SameStage(c, d) /\ d.tools = c.tools /\ d.https = q
        /\ d.pending = c.pending /\ d.next_id = c.next_id + 1
    BY <1>1, <2>1, <2>2 DEF Client, SameStage
  <2>4. QueuesOK(d)
    BY <1>4, <2>1, <2>3 DEF QueuesOK, SameStage
  <2>5. Listed(d) = Listed(c) \cup ({k} \ {None})
    BY <2>1, <2>3 DEF Listed
  <2> QED BY <1>2, <1>4, <2>3, <2>4, <2>5 DEF e
<1>5. CASE c.transport = "stdio"
  <2> DEFINE q == <<e>> \o c.pending
  <2>1. /\ q \in Seq(Entry) /\ ListOK(q) /\ CallsOf(q) = CallsOf(c.pending) \cup ({k} \ {None})
        /\ \A i \in 1 .. Len(q) : q[i] = e \/ \E j \in 1 .. Len(c.pending) : q[i] = c.pending[j]
    BY <1>1, <1>2, <1>3, ConsFacts DEF QueuesOK
  <2>2. d = [[c EXCEPT !.next_id = @ + 1] EXCEPT !.pending = q]
    BY <1>5 DEF mcp_send, e, Request
  <2> HIDE DEF q
  <2>3. /\ d \in Client /\ SameStage(c, d) /\ d.tools = c.tools /\ d.pending = q
        /\ d.https = c.https /\ d.next_id = c.next_id + 1
    BY <1>1, <2>1, <2>2 DEF Client, SameStage
  <2>4. QueuesOK(d)
    BY <1>5, <2>1, <2>3 DEF QueuesOK, SameStage
  <2>5. Listed(d) = Listed(c) \cup ({k} \ {None})
    BY <2>1, <2>3 DEF Listed
  <2> QED BY <1>2, <2>1, <2>3, <2>4, <2>5 DEF e
<1> QED BY <1>1, <1>4, <1>5

\* A request that is not sent uses up an id.
LEMMA SkipFacts ==
    ASSUME NEW c \in Client, QueuesOK(c), NEW d, d = [c EXCEPT !.next_id = @ + 1]
    PROVE  /\ d \in Client /\ SameStage(c, d) /\ d.tools = c.tools /\ QueuesOK(d)
           /\ Listed(d) = Listed(c) /\ d.pending = c.pending /\ d.next_id = c.next_id + 1
<1>1. c.next_id \in Nat /\ c.next_id + 1 \in Nat
  BY DEF Client
<1>2. /\ d \in Client /\ SameStage(c, d) /\ d.tools = c.tools
      /\ d.pending = c.pending /\ d.https = c.https /\ d.next_id = c.next_id + 1
  BY <1>1 DEF Client, SameStage
<1> QED BY <1>2 DEF QueuesOK, SameStage, Listed

\* The ids stay in step when a request is sent, or not sent.
LEMMA IdsSent ==
    ASSUME NEW c \in Client, NEW d \in Client, d.spawned = c.spawned,
           NEW w \in SUBSET Entry, NEW ls \in Seq(Reply), IdsOK(c, w, ls),
           d.next_id = c.next_id + 1, NEW e \in Entry, e.id = c.next_id,
           NEW v, v \subseteq w \cup {e},
           \A i \in 1 .. Len(d.pending) :
                \/ d.pending[i] = e
                \/ \E j \in 1 .. Len(c.pending) : d.pending[i] = c.pending[j]
    PROVE  IdsOK(d, v, ls)
<1> SUFFICES ASSUME d.spawned PROVE IdsOK(d, v, ls)
  BY DEF IdsOK
<1>0. /\ c.next_id \in Nat /\ \A i \in 1 .. Len(d.pending) : d.pending[i].id \in Nat
      /\ \A x \in w : x.id \in Nat
      /\ \A j \in 1 .. Len(ls) : ls[j].id \in Nat
  <2>1. c.next_id \in Nat /\ d.pending \in Seq(Entry)
    BY DEF Client
  <2>2. \A i \in 1 .. Len(d.pending) : d.pending[i] \in Entry
    BY <2>1, ElementOfSeq
  <2>3. \A j \in 1 .. Len(ls) : ls[j] \in Reply
    BY ElementOfSeq
  <2> QED BY <2>1, <2>2, <2>3 DEF Entry, Reply
<1>1. \A i \in 1 .. Len(c.pending) : c.pending[i].id < c.next_id
  BY DEF IdsOK
<1>2. ASSUME NEW i \in 1 .. Len(d.pending) PROVE d.pending[i].id < d.next_id
  <2>1. CASE d.pending[i] = e
    BY <1>0, <2>1
  <2>2. ASSUME NEW j \in 1 .. Len(c.pending), d.pending[i] = c.pending[j]
        PROVE  d.pending[i].id < d.next_id
    <3>1. d.pending[i].id < c.next_id
      BY <1>1, <2>2
    <3> QED BY <1>0, <3>1
  <2> QED BY <2>1, <2>2
<1>3. ASSUME NEW x \in v
      PROVE  /\ x.id < d.next_id
             /\ \A i \in 1 .. Len(d.pending) : d.pending[i].id = x.id => d.pending[i].call = x.call
  <2>1. CASE x = e
    <3>1. x.id < d.next_id
      BY <1>0, <2>1
    <3>2. ASSUME NEW i \in 1 .. Len(d.pending), d.pending[i].id = x.id
          PROVE  d.pending[i].call = x.call
      <4>1. ASSUME NEW j \in 1 .. Len(c.pending), d.pending[i] = c.pending[j] PROVE FALSE
        <5>1. d.pending[i].id < c.next_id /\ d.pending[i].id = c.next_id
          BY <1>1, <2>1, <3>2, <4>1
        <5> QED BY <1>0, <5>1
      <4> QED BY <2>1, <4>1
    <3> QED BY <3>1, <3>2
  <2>2. CASE x \in w
    <3>1. /\ x.id < c.next_id
          /\ \A i \in 1 .. Len(c.pending) : c.pending[i].id = x.id => c.pending[i].call = x.call
      BY <2>2 DEF IdsOK
    <3>2. x.id # e.id /\ x.id < d.next_id
      BY <1>0, <2>2, <3>1
    <3> QED BY <3>1, <3>2
  <2> QED BY <2>1, <2>2
<1>4. ASSUME NEW n \in 1 .. Len(ls)
      PROVE  /\ ls[n].id < d.next_id
             /\ \A i \in 1 .. Len(d.pending) : d.pending[i].id = ls[n].id => d.pending[i].call = ls[n].to
  <2>1. /\ ls[n].id < c.next_id
        /\ \A i \in 1 .. Len(c.pending) : c.pending[i].id = ls[n].id => c.pending[i].call = ls[n].to
    BY DEF IdsOK
  <2>2. ls[n].id # e.id /\ ls[n].id < d.next_id
    BY <1>0, <2>1
  <2> QED BY <2>1, <2>2
<1> QED BY <1>2, <1>3, <1>4 DEF IdsOK

\* They stay in step when requests, or the server's answers, are taken away.
LEMMA IdsTaken ==
    ASSUME NEW c, NEW d, d.spawned => c.spawned, d.next_id = c.next_id,
           NEW w, NEW v, v \subseteq w, NEW ls, NEW rs, IdsOK(c, w, ls),
           \A i \in 1 .. Len(d.pending) : \E j \in 1 .. Len(c.pending) : d.pending[i] = c.pending[j],
           \A i \in 1 .. Len(rs) : \E j \in 1 .. Len(ls) : rs[i] = ls[j]
    PROVE  IdsOK(d, v, rs)
<1> SUFFICES ASSUME d.spawned
             PROVE  /\ \A i \in 1 .. Len(d.pending) : d.pending[i].id < c.next_id
                    /\ \A x \in v : /\ x.id < c.next_id
                                    /\ \A i \in 1 .. Len(d.pending) :
                                         d.pending[i].id = x.id => d.pending[i].call = x.call
                    /\ \A n \in 1 .. Len(rs) :
                          /\ rs[n].id < c.next_id
                          /\ \A i \in 1 .. Len(d.pending) :
                               d.pending[i].id = rs[n].id => d.pending[i].call = rs[n].to
  BY DEF IdsOK
<1>1. /\ \A i \in 1 .. Len(c.pending) : c.pending[i].id < c.next_id
      /\ \A x \in w : /\ x.id < c.next_id
                      /\ \A i \in 1 .. Len(c.pending) :
                           c.pending[i].id = x.id => c.pending[i].call = x.call
      /\ \A n \in 1 .. Len(ls) :
            /\ ls[n].id < c.next_id
            /\ \A i \in 1 .. Len(c.pending) :
                 c.pending[i].id = ls[n].id => c.pending[i].call = ls[n].to
  BY DEF IdsOK
<1>2. \A i \in 1 .. Len(d.pending) : d.pending[i].id < c.next_id
  BY <1>1
<1>3. ASSUME NEW x \in v
      PROVE  /\ x.id < c.next_id
             /\ \A i \in 1 .. Len(d.pending) : d.pending[i].id = x.id => d.pending[i].call = x.call
  BY <1>1
<1>4. ASSUME NEW n \in 1 .. Len(rs)
      PROVE  /\ rs[n].id < c.next_id
             /\ \A i \in 1 .. Len(d.pending) : d.pending[i].id = rs[n].id => d.pending[i].call = rs[n].to
  <2>1. PICK m \in 1 .. Len(ls) : rs[n] = ls[m]
    OBVIOUS
  <2>2. /\ ls[m].id < c.next_id
        /\ \A j \in 1 .. Len(c.pending) : c.pending[j].id = ls[m].id => c.pending[j].call = ls[m].to
    BY <1>1
  <2>3. ASSUME NEW i \in 1 .. Len(d.pending), d.pending[i].id = rs[n].id
        PROVE  d.pending[i].call = rs[n].to
    <3>1. PICK j \in 1 .. Len(c.pending) : d.pending[i] = c.pending[j]
      OBVIOUS
    <3> QED BY <2>1, <2>2, <2>3, <3>1
  <2> QED BY <2>1, <2>2, <2>3
<1> QED BY <1>2, <1>3, <1>4

-----------------------------------------------------------------------------
(* Replies and calls: the client stays in its stage.                       *)

\* What a step owes when the client stays in its stage.
LEMMA InStage ==
    ASSUME IInv, cl.st # "none", cl' \in Client, SameStage(cl, cl'), QueuesOK(cl'),
           calls' \in [Calls -> Call], CallsOK(cl', calls'),
           ready' \in ReadyType, ReadyOK(cl', ready'),
           child' = child, work' \in SUBSET Entry, lines' \in Seq(Reply),
           IdsOK(cl', work', lines')
    PROVE  IInv'
<1>1. StageOK(cl') /\ ChildOK(cl', child) /\ HandlesOK(cl', child)
  BY StageKept DEF IInv
<1>2. TypeOK'
  BY DEF IInv, TypeOK, ReadyType
<1>3. FreshOK'
  BY DEF FreshOK, SameStage
<1> QED BY <1>1, <1>2, <1>3 DEF IInv

LEMMA SameStageReady ==
    ASSUME IInv, NEW d, SameStage(cl, d)
    PROVE  ready \in ReadyType /\ ReadyOK(d, ready)
<1>1. d.st = cl.st /\ d.owns_user = cl.owns_user
  BY DEF SameStage
<1> QED BY <1>1, ReadyKept DEF IInv, TypeOK, ReadyType

LEMMA HandleInv ==
    ASSUME IInv, cl.st = "live", ~cl.dead, ~cl.discarded, cl.transport = "http" \/ cl.spawned,
           NEW c \in Client, SameStage(cl, c), QueuesOK(c), c.next_id = cl.next_id,
           NEW e \in Entry, e.kind = "call" <=> e.call # None,
           Listed(c) = Listed(cl) \ {e.call}, e.call # None => e.call \in Listed(cl),
           lines' \in Seq(Reply), IdsOK(c, work, lines'), child' = child,
           NEW reply, e.kind = "call" => reply.to = e.call, Handle(c, e, reply)
    PROVE  IInv'
<1> USE DEF IInv
<1>0. /\ c.st = "live" /\ ~c.dead /\ ~c.discarded /\ c.on_ready = cl.on_ready
      /\ c.owns_user = cl.owns_user /\ c.spawned = cl.spawned
      /\ calls \in [Calls -> Call] /\ work \in SUBSET Entry
  BY DEF SameStage, TypeOK
<1>1. None \notin Listed(cl)
  BY ListedFacts, McpAssumption DEF TypeOK
<1>2. ready \in ReadyType /\ ReadyOK(c, ready)
  BY SameStageReady
<1>3. CASE e.kind = "init" /\ reply.ok
  <2>1. Sends(c, "list") /\ UNCHANGED calls
    BY <1>3 DEF Handle
  <2>2. Listed(c) = Listed(cl)
    BY <1>1, <1>3
  <2>3. CASE cl' = mcp_send(c, "list", None) /\ work' = Sent(c, "list", None) /\ UNCHANGED ready
    <3>1. /\ cl' \in Client /\ SameStage(c, cl') /\ QueuesOK(cl')
          /\ Listed(cl') = Listed(c) \cup ({None} \ {None})
          /\ cl'.next_id = c.next_id + 1 /\ Request(c, "list", None) \in Entry
          /\ c.transport = "stdio" =>
                \A i \in 1 .. Len(cl'.pending) :
                    \/ cl'.pending[i] = Request(c, "list", None)
                    \/ \E j \in 1 .. Len(c.pending) : cl'.pending[i] = c.pending[j]
      BY <1>0, <1>1, <2>2, <2>3, SendFacts
    <3>2. Listed(cl') = Listed(cl)
      BY <2>2, <3>1
    <3>3. SameStage(cl, cl')
      BY <3>1 DEF SameStage
    <3>4. work' \subseteq work \cup {Request(c, "list", None)}
      BY <2>3 DEF Sent, Request
    <3>5. IdsOK(cl', work', lines')
      <4>1. CASE ~cl'.spawned
        BY <4>1 DEF IdsOK
      <4>2. CASE cl'.spawned
        <5>1. c.transport = "stdio" /\ c.spawned /\ cl'.spawned = c.spawned
          BY <3>3, <4>2 DEF SameStage, StageOK
        <5>2. Request(c, "list", None).id = c.next_id
          BY DEF Request
        <5> QED BY <1>0, <3>1, <3>4, <5>1, <5>2, IdsSent
      <4> QED BY <4>1, <4>2
    <3>6. work' \in SUBSET Entry
      BY <1>0, <3>1, <3>4
    <3>7. CallsOK(cl', calls')
      BY <2>1, <3>2, SameCalls
    <3>8. ready' \in ReadyType /\ ReadyOK(cl', ready')
      BY <2>3, <3>3, SameStageReady
    <3> QED BY <1>0, <2>1, <3>1, <3>3, <3>5, <3>6, <3>7, <3>8, InStage
  <2>4. CASE cl' = [c EXCEPT !.next_id = @ + 1] /\ UNCHANGED <<ready, work>>
    <3>1. /\ cl' \in Client /\ SameStage(c, cl') /\ QueuesOK(cl') /\ Listed(cl') = Listed(c)
          /\ cl'.pending = c.pending /\ cl'.next_id = c.next_id + 1
      BY <2>4, SkipFacts
    <3>2. SameStage(cl, cl')
      BY <3>1 DEF SameStage
    <3>3. IdsOK(cl', work', lines')
      <4> DEFINE x == Request(c, "list", None)
      <4>1. x \in Entry /\ x.id = c.next_id
        BY DEF Request, Entry, Client
      <4>2. cl'.spawned = c.spawned
        BY <3>1 DEF SameStage
      <4> HIDE DEF x
      <4>3. \A i \in 1 .. Len(cl'.pending) :
               \/ cl'.pending[i] = x
               \/ \E j \in 1 .. Len(c.pending) : cl'.pending[i] = c.pending[j]
        BY <3>1
      <4>4. work' \subseteq work \cup {x}
        BY <2>4
      <4> QED BY <1>0, <3>1, <4>1, <4>2, <4>3, <4>4, IdsSent
    <3>4. CallsOK(cl', calls')
      BY <2>1, <2>2, <3>1, SameCalls
    <3>5. ready' \in ReadyType /\ ReadyOK(cl', ready')
      BY <2>4, <3>2, SameStageReady
    <3> QED BY <1>0, <2>1, <2>4, <3>1, <3>2, <3>3, <3>4, <3>5, InStage
  <2> QED BY <2>1, <2>3, <2>4 DEF Sends
<1>4. CASE e.kind = "list" /\ reply.ok
  <2>1. cl' = [c EXCEPT !.tools = TRUE] /\ ready' = on_mcp_ready(c) /\ UNCHANGED <<calls, work>>
    BY <1>4 DEF Handle, mcp_register_tools
  <2>2. /\ cl' \in Client /\ SameStage(c, cl') /\ cl'.pending = c.pending /\ cl'.https = c.https
        /\ cl'.next_id = c.next_id
    BY <2>1 DEF Client, SameStage
  <2>3. SameStage(cl, cl')
    BY <2>2 DEF SameStage
  <2>4. QueuesOK(cl')
    BY <1>0, <2>2 DEF QueuesOK, SameStage
  <2>5. Listed(cl') = Listed(cl)
    BY <1>1, <1>4, <2>2 DEF Listed
  <2>6. IdsOK(cl', work', lines')
    BY <2>1, <2>2 DEF IdsOK, SameStage
  <2>7. CallsOK(cl', calls')
    BY <2>1, <2>5, SameCalls
  <2>8. ready' \in ReadyType /\ ReadyOK(cl', ready')
    <3>1. cl'.st = "live" /\ cl'.owns_user = cl.owns_user
      BY <2>3 DEF SameStage
    <3> QED BY <1>0, <2>1, <3>1, ReadyReported
  <2> QED BY <1>0, <2>1, <2>2, <2>3, <2>4, <2>6, <2>7, <2>8, InStage
<1>5. CASE e.kind = "call"
  <2>1. cl' = c /\ calls' = Report({e.call}, reply.to) /\ UNCHANGED <<ready, work>>
    BY <1>5 DEF Handle
  <2>2. e.call \in Calls /\ e.call \in Listed(cl) /\ reply.to = e.call
    BY <1>5 DEF Entry
  <2>3. calls' \in [Calls -> Call] /\ CallsOK(cl', calls')
    BY <2>1, <2>2, Reported
  <2> QED BY <1>0, <1>2, <2>1, <2>3, InStage
<1>6. CASE e.kind \in {"init", "list"} /\ ~reply.ok
  <2>1. cl' = c /\ ready' = on_mcp_ready(c) /\ UNCHANGED <<calls, work>>
    BY <1>6 DEF Handle
  <2>2. Listed(c) = Listed(cl)
    BY <1>1, <1>6
  <2>3. CallsOK(cl', calls')
    BY <2>1, <2>2, SameCalls
  <2>4. ready' \in ReadyType /\ ReadyOK(cl', ready')
    BY <1>0, <2>1, ReadyReported
  <2> QED BY <1>0, <2>1, <2>3, <2>4, InStage
<1> QED BY <1>3, <1>4, <1>5, <1>6 DEF Entry

LEMMA SpawnedFacts ==
    ASSUME IInv, cl.spawned
    PROVE  /\ cl.st = "live" /\ cl.transport = "stdio" /\ ~cl.dead /\ ~cl.discarded /\ ~cl.closing
           /\ cl.uv = {} /\ ~child.reaped /\ cl.https = <<>>
<1>1. cl.st \in {"none", "live", "freed"} /\ cl.discarded \in BOOLEAN
  BY DEF IInv, TypeOK, Client
<1>2. cl.st # "none" /\ cl.st # "freed"
  BY DEF IInv, StageOK
<1> QED BY <1>1, <1>2 DEF IInv, StageOK, ChildOK, HandlesOK, QueuesOK

LEMMA LineInv ==
    ASSUME IInv, mcp_process_line
    PROVE  IInv'
<1> USE DEF IInv
<1>0. /\ cl.spawned /\ lines # <<>> /\ lines' = Tail(lines) /\ UNCHANGED child
      /\ lines \in Seq(Reply) /\ cl \in Client /\ cl.pending \in Seq(Entry)
  BY DEF mcp_process_line, TypeOK, Client
<1>1. /\ lines' \in Seq(Reply)
      /\ \A i \in 1 .. Len(lines') : \E j \in 1 .. Len(lines) : lines'[i] = lines[j]
      /\ Len(lines) >= 1 /\ Head(lines) = lines[1]
  <2>1. Len(lines) \in Nat /\ Len(lines) # 0
    BY <1>0, EmptySeq
  <2>2. lines' \in Seq(Reply) /\ Len(lines') = Len(lines) - 1
    BY <1>0, HeadTailProperties
  <2>3. \A i \in 1 .. Len(lines) - 1 : lines'[i] = lines[i + 1]
    BY <1>0, <2>2, HeadTailProperties
  <2>4. \A i \in 1 .. Len(lines') : i + 1 \in 1 .. Len(lines)
    BY <2>1, <2>2
  <2> QED BY <1>0, <2>1, <2>2, <2>3, <2>4
<1>2. \A i \in 1 .. Len(cl.pending) : \E j \in 1 .. Len(cl.pending) : cl.pending[i] = cl.pending[j]
  OBVIOUS
<1>3. IdsOK(cl, work, lines')
  BY <1>1, <1>2, IdsTaken
<1> DEFINE i == mcp_pending_take(cl.pending, Head(lines).id)
<1>4. CASE i = 0
  <2>1. UNCHANGED <<cl, calls, ready, work>>
    BY <1>4 DEF mcp_process_line
  <2>2. TypeOK'
    BY <1>0, <1>1, <2>1 DEF TypeOK
  <2>3. cl.st # "none"
    BY <1>0, SpawnedFacts
  <2> QED BY <1>0, <1>3, <2>1, <2>2, <2>3 DEF FreshOK
<1>5. CASE i # 0
  <2> DEFINE e == cl.pending[i]
             c == [cl EXCEPT !.pending = RemoveAt(@, i)]
  <2>1. i \in 1 .. Len(cl.pending) /\ e.id = Head(lines).id
    BY <1>0, <1>5, TakenPlace
  <2>2. Handle(c, e, Head(lines))
    BY <1>5 DEF mcp_process_line
  <2> HIDE DEF i
  <2>3. /\ RemoveAt(cl.pending, i) \in Seq(Entry) /\ ListOK(RemoveAt(cl.pending, i))
        /\ CallsOf(RemoveAt(cl.pending, i)) = CallsOf(cl.pending) \ {e.call}
        /\ \A j \in 1 .. Len(RemoveAt(cl.pending, i)) :
              \E m \in 1 .. Len(cl.pending) : RemoveAt(cl.pending, i)[j] = cl.pending[m]
    BY <1>0, <2>1, TakeFacts DEF QueuesOK
  <2>4. /\ c \in Client /\ SameStage(cl, c) /\ c.next_id = cl.next_id /\ c.https = cl.https
        /\ c.pending = RemoveAt(cl.pending, i) /\ c.tools = cl.tools
    BY <1>0, <2>3 DEF Client, SameStage
  <2>5. e \in Entry /\ (e.kind = "call" <=> e.call # None)
    BY <1>0, <2>1, ListFacts DEF QueuesOK, ListOK
  <2>6. e.call # None => e.call \in CallsOf(cl.pending)
    BY <1>0, <2>1, CallsMember
  <2>7. Head(lines).to = e.call
    <3>1. 1 \in 1 .. Len(lines)
      BY <1>0, <1>1
    <3>2. lines[1].id = e.id
      BY <1>1, <2>1
    <3> QED BY <1>0, <1>1, <2>1, <3>1, <3>2 DEF IdsOK
  <2> HIDE DEF c, e
  <2>8. /\ cl.st = "live" /\ ~cl.dead /\ ~cl.discarded /\ cl.transport = "stdio" /\ cl.https = <<>>
    BY <1>0, SpawnedFacts
  <2>9. QueuesOK(c)
    BY <2>3, <2>4, <2>8 DEF QueuesOK, SameStage
  <2>10. Listed(c) = Listed(cl) \ {e.call} /\ (e.call # None => e.call \in Listed(cl))
    BY <2>3, <2>4, <2>6, <2>8, EmptyList DEF Listed
  <2>11. IdsOK(c, work, lines')
    <3>1. c.spawned = cl.spawned /\ \A j \in 1 .. Len(lines') : \E m \in 1 .. Len(lines') : lines'[j] = lines'[m]
      BY <2>4 DEF SameStage
    <3>2. /\ \A j \in 1 .. Len(c.pending) : \E m \in 1 .. Len(cl.pending) : c.pending[j] = cl.pending[m]
          /\ c.next_id = cl.next_id /\ work \subseteq work
      BY <2>3, <2>4
    <3> QED BY <1>3, <3>1, <3>2, IdsTaken
  <2> QED BY <1>0, <1>1, <2>2, <2>4, <2>5, <2>7, <2>8, <2>9, <2>10, <2>11, HandleInv
<1> QED BY <1>4, <1>5

LEMMA HttpDoneInv ==
    ASSUME IInv, NEW i \in DOMAIN cl.https, NEW ok \in BOOLEAN, mcp_http_done(i, ok)
    PROVE  IInv'
<1> USE DEF IInv
<1>0. /\ cl.st = "live" /\ UNCHANGED <<child, lines>> /\ lines \in Seq(Reply)
      /\ cl \in Client /\ cl.https \in Seq(Entry) /\ cl.transport \in {"stdio", "http"}
  BY DEF mcp_http_done, TypeOK, Client
<1> DEFINE e == cl.https[i]
           c == [cl EXCEPT !.https = RemoveAt(@, i)]
<1>1. i \in 1 .. Len(cl.https) /\ cl.https # <<>>
  BY <1>0, ListFacts, EmptyList
<1>2. Handle(c, e, [ok |-> ok, to |-> e.call])
  BY DEF mcp_http_done
<1>3. /\ RemoveAt(cl.https, i) \in Seq(Entry) /\ ListOK(RemoveAt(cl.https, i))
      /\ CallsOf(RemoveAt(cl.https, i)) = CallsOf(cl.https) \ {e.call}
  BY <1>0, <1>1, TakeFacts DEF QueuesOK
<1>4. /\ c \in Client /\ SameStage(cl, c) /\ c.next_id = cl.next_id /\ c.pending = cl.pending
      /\ c.https = RemoveAt(cl.https, i) /\ c.tools = cl.tools
  BY <1>0, <1>3 DEF Client, SameStage
<1>5. e \in Entry /\ (e.kind = "call" <=> e.call # None)
  BY <1>0, <1>1, ListFacts DEF QueuesOK, ListOK
<1>6. e.call # None => e.call \in CallsOf(cl.https)
  BY <1>0, <1>1, CallsMember
<1> HIDE DEF c, e
<1>7. ~cl.dead /\ ~cl.discarded /\ cl.transport = "http" /\ cl.pending = <<>> /\ ~cl.spawned
  BY <1>0, <1>1 DEF QueuesOK, StageOK
<1>8. QueuesOK(c)
  BY <1>3, <1>4, <1>7 DEF QueuesOK, SameStage
<1>9. Listed(c) = Listed(cl) \ {e.call} /\ (e.call # None => e.call \in Listed(cl))
  BY <1>3, <1>4, <1>6, <1>7, EmptyList DEF Listed
<1>10. IdsOK(c, work, lines')
  BY <1>4, <1>7 DEF IdsOK, SameStage
<1>11. [ok |-> ok, to |-> e.call].to = e.call
  OBVIOUS
<1> QED BY <1>0, <1>2, <1>4, <1>5, <1>7, <1>8, <1>9, <1>10, <1>11, HandleInv

LEMMA InvokeInv ==
    ASSUME IInv, NEW k \in Calls, mcp_tool_invoke(k)
    PROVE  IInv'
<1> USE DEF IInv
<1>0. /\ cl.tools /\ calls[k].st = "idle" /\ UNCHANGED <<ready, child, lines>>
      /\ cl \in Client /\ calls \in [Calls -> Call] /\ calls[k] \in Call
      /\ work \in SUBSET Entry /\ lines \in Seq(Reply)
  BY DEF mcp_tool_invoke, TypeOK
<1>1. ~cl.dead /\ ~cl.discarded /\ cl.st = "live"
  BY <1>0 DEF QueuesOK, StageOK, Client
<1>2. k \notin Listed(cl) /\ k # None
  BY <1>0, McpAssumption DEF CallsOK
<1>3. CASE /\ calls' = [calls EXCEPT ![k].st = "open"]
           /\ cl' = mcp_send(cl, "call", k) /\ work' = Sent(cl, "call", k)
  <2>1. /\ cl' \in Client /\ SameStage(cl, cl') /\ QueuesOK(cl')
        /\ Listed(cl') = Listed(cl) \cup ({k} \ {None})
        /\ cl'.next_id = cl.next_id + 1 /\ Request(cl, "call", k) \in Entry
        /\ cl.transport = "stdio" =>
              \A i \in 1 .. Len(cl'.pending) :
                  \/ cl'.pending[i] = Request(cl, "call", k)
                  \/ \E j \in 1 .. Len(cl.pending) : cl'.pending[i] = cl.pending[j]
    BY <1>0, <1>1, <1>2, <1>3, SendFacts
  <2>2. Listed(cl') = Listed(cl) \cup {k}
    BY <1>2, <2>1
  <2>3. calls' \in [Calls -> Call] /\ CallsOK(cl', calls')
    <3>1. calls'[k] = [calls[k] EXCEPT !.st = "open"] /\ \A j \in Calls \ {k} : calls'[j] = calls[j]
      BY <1>0, <1>3
    <3>2. calls' \in [Calls -> Call]
      BY <1>0, <1>3 DEF Call
    <3>3. calls'[k].st = "open" /\ calls'[k].answers = 0 /\ calls'[k].by = calls[k].by
      BY <1>0, <3>1 DEF Call, CallsOK, One
    <3>4. ASSUME NEW j \in Calls
          PROVE  /\ calls'[j].st = "open" <=> j \in Listed(cl')
                 /\ calls'[j].answers = One(calls'[j].st = "done")
                 /\ calls'[j].by \in {None, "client", j}
      <4>1. CASE j = k
        BY <2>2, <3>1, <3>2, <3>3, <4>1 DEF CallsOK, One
      <4>2. CASE j # k
        <5>1. calls'[j] = calls[j] /\ (j \in Listed(cl') <=> j \in Listed(cl))
          BY <2>2, <3>1, <3>2, <3>3, <4>2
        <5> QED BY <5>1 DEF CallsOK
      <4> QED BY <4>1, <4>2
    <3> QED BY <3>2, <3>4 DEF CallsOK
  <2>4. work' \subseteq work \cup {Request(cl, "call", k)}
    BY <1>3 DEF Sent, Request
  <2>5. IdsOK(cl', work', lines')
    <3>1. CASE ~cl'.spawned
      BY <3>1 DEF IdsOK
    <3>2. CASE cl'.spawned
      <4>1. cl.transport = "stdio" /\ cl.spawned /\ cl'.spawned = cl.spawned
        BY <2>1, <3>2 DEF SameStage, StageOK
      <4>2. Request(cl, "call", k).id = cl.next_id /\ IdsOK(cl, work, lines') /\ lines' \in Seq(Reply)
        BY <1>0 DEF Request
      <4> QED BY <1>0, <2>1, <2>4, <4>1, <4>2, IdsSent
    <3> QED BY <3>1, <3>2
  <2>6. work' \in SUBSET Entry
    BY <1>0, <2>1, <2>4
  <2>7. ready' \in ReadyType /\ ReadyOK(cl', ready')
    BY <1>0, <2>1, SameStageReady
  <2> QED BY <1>0, <1>1, <2>1, <2>3, <2>5, <2>6, <2>7, InStage
<1>4. CASE /\ calls' = [calls EXCEPT ![k].st = "failed"]
           /\ cl' = [cl EXCEPT !.next_id = @ + 1] /\ UNCHANGED work
  <2>1. /\ cl' \in Client /\ SameStage(cl, cl') /\ QueuesOK(cl') /\ Listed(cl') = Listed(cl)
        /\ cl'.pending = cl.pending /\ cl'.next_id = cl.next_id + 1
    BY <1>0, <1>4, SkipFacts
  <2>2. calls' \in [Calls -> Call] /\ CallsOK(cl', calls')
    <3>1. calls'[k] = [calls[k] EXCEPT !.st = "failed"] /\ \A j \in Calls \ {k} : calls'[j] = calls[j]
      BY <1>0, <1>4
    <3>2. calls' \in [Calls -> Call]
      BY <1>0, <1>4 DEF Call
    <3>3. calls'[k].st = "failed" /\ calls'[k].answers = 0 /\ calls'[k].by = calls[k].by
      BY <1>0, <3>1 DEF Call, CallsOK, One
    <3>4. ASSUME NEW j \in Calls
          PROVE  /\ calls'[j].st = "open" <=> j \in Listed(cl')
                 /\ calls'[j].answers = One(calls'[j].st = "done")
                 /\ calls'[j].by \in {None, "client", j}
      <4>1. CASE j = k
        BY <1>2, <2>1, <3>1, <3>2, <3>3, <4>1 DEF CallsOK, One
      <4>2. CASE j # k
        <5>1. calls'[j] = calls[j] /\ (j \in Listed(cl') <=> j \in Listed(cl))
          BY <1>2, <2>1, <3>1, <3>2, <3>3, <4>2
        <5> QED BY <5>1 DEF CallsOK
      <4> QED BY <4>1, <4>2
    <3> QED BY <3>2, <3>4 DEF CallsOK
  <2>3. IdsOK(cl', work', lines')
    <3> DEFINE x == Request(cl, "call", k)
    <3>1. x \in Entry /\ x.id = cl.next_id
      BY <1>0 DEF Request, Entry, Client
    <3>2. cl'.spawned = cl.spawned /\ work' \subseteq work \cup {x} /\ lines' = lines
      BY <1>0, <1>4, <2>1 DEF SameStage
    <3> HIDE DEF x
    <3>3. \A i \in 1 .. Len(cl'.pending) :
             \/ cl'.pending[i] = x
             \/ \E j \in 1 .. Len(cl.pending) : cl'.pending[i] = cl.pending[j]
      BY <2>1
    <3> QED BY <1>0, <2>1, <3>1, <3>2, <3>3, IdsSent
  <2>4. ready' \in ReadyType /\ ReadyOK(cl', ready')
    BY <1>0, <2>1, SameStageReady
  <2> QED BY <1>0, <1>1, <1>4, <2>1, <2>2, <2>3, <2>4, InStage
<1> QED BY <1>3, <1>4 DEF mcp_tool_invoke

LEMMA CancelInv ==
    ASSUME IInv, NEW k \in Calls, mcp_cancel(k)
    PROVE  IInv'
<1> USE DEF IInv
<1> DEFINE p == Unlink(cl.pending, k)
           h == Unlink(cl.https, k)
<1>0. /\ calls[k].st = "open" /\ UNCHANGED <<ready, child, work, lines>>
      /\ calls' = Report({k}, "client") /\ cl' = [cl EXCEPT !.pending = p, !.https = h]
      /\ cl \in Client /\ cl.pending \in Seq(Entry) /\ cl.https \in Seq(Entry)
      /\ work \in SUBSET Entry /\ lines \in Seq(Reply)
  BY DEF mcp_cancel, TypeOK, Client
<1>1. k \in Listed(cl) /\ cl.st # "none"
  <2>1. k \in Listed(cl)
    BY <1>0 DEF CallsOK
  <2> QED BY <2>1, EmptyList DEF QueuesOK, Listed
<1>2. /\ p \in Seq(Entry) /\ ListOK(p) /\ CallsOf(p) = CallsOf(cl.pending) \ {k}
      /\ \A j \in 1 .. Len(p) : \E m \in 1 .. Len(cl.pending) : p[j] = cl.pending[m]
  BY <1>0, UnlinkFacts DEF QueuesOK
<1>3. h \in Seq(Entry) /\ ListOK(h) /\ CallsOf(h) = CallsOf(cl.https) \ {k}
  BY <1>0, UnlinkFacts DEF QueuesOK
<1>4. (cl.pending = <<>> => p = <<>>) /\ (cl.https = <<>> => h = <<>>)
  <2>1. ASSUME NEW q, q = <<>> PROVE Unlink(q, k) = <<>>
    <3>1. Len(q) = 0 /\ q \in Seq(Entry)
      BY <2>1, EmptyList
    <3>2. {i \in 1 .. Len(q) : q[i].call = k} = {}
      BY <3>1
    <3> QED BY <2>1, <3>2 DEF Unlink, RemoveFirstMatch, SelectInSeq
  <2> QED BY <2>1
<1> HIDE DEF p, h
<1>5. /\ cl' \in Client /\ SameStage(cl, cl') /\ cl'.pending = p /\ cl'.https = h
      /\ cl'.tools = cl.tools /\ cl'.next_id = cl.next_id
  BY <1>0, <1>2, <1>3 DEF Client, SameStage
<1>6. QueuesOK(cl')
  BY <1>2, <1>3, <1>4, <1>5 DEF QueuesOK, SameStage
<1>7. Listed(cl') = Listed(cl) \ {k}
  BY <1>2, <1>3, <1>5 DEF Listed
<1>8. calls' \in [Calls -> Call] /\ CallsOK(cl', calls')
  BY <1>0, <1>1, <1>7, Reported
<1>9. IdsOK(cl', work', lines')
  <2>1. /\ cl'.spawned = cl.spawned /\ work' \subseteq work
        /\ \A j \in 1 .. Len(lines') : \E m \in 1 .. Len(lines) : lines'[j] = lines[m]
        /\ \A j \in 1 .. Len(cl'.pending) : \E m \in 1 .. Len(cl.pending) : cl'.pending[j] = cl.pending[m]
    BY <1>0, <1>2, <1>5 DEF SameStage
  <2> QED BY <1>5, <2>1, IdsTaken
<1>10. ready' \in ReadyType /\ ReadyOK(cl', ready')
  BY <1>0, <1>5, SameStageReady
<1> QED BY <1>0, <1>1, <1>5, <1>6, <1>8, <1>9, <1>10, InStage

LEMMA RefillInv ==
    ASSUME IInv, Refill
    PROVE  IInv'
<1> USE DEF IInv
<1>0. /\ cl' = [cl EXCEPT !.tokens = @ + 1] /\ UNCHANGED <<calls, ready, child, work, lines>>
      /\ cl \in Client /\ cl.tokens + 1 \in Nat
  BY DEF Refill, TypeOK, Client
<1>1. /\ cl' \in Client /\ SameStage(cl, cl') /\ cl'.tools = cl.tools /\ cl'.next_id = cl.next_id
      /\ cl'.pending = cl.pending /\ cl'.https = cl.https
  BY <1>0 DEF Client, SameStage
<1>2. QueuesOK(cl')
  BY <1>1 DEF QueuesOK, SameStage
<1>3. CallsOK(cl', calls') /\ IdsOK(cl', work', lines')
  BY <1>0, <1>1 DEF CallsOK, Listed, IdsOK, SameStage
<1>4. ReadyOK(cl', ready')
  BY <1>0, <1>1, SameStageReady
<1>5. StageOK(cl') /\ ChildOK(cl', child') /\ HandlesOK(cl', child')
  BY <1>0, <1>1, StageKept
<1>6. TypeOK'
  BY <1>0, <1>1 DEF TypeOK
<1>7. FreshOK'
  BY <1>0, <1>1 DEF FreshOK, SameStage
<1> QED BY <1>2, <1>3, <1>4, <1>5, <1>6, <1>7

ChildType == [st : {"none", "running", "exited"}, out : BOOLEAN, reaped : BOOLEAN,
              killed : BOOLEAN]

\* The server's own steps do not touch the client.
LEMMA ServerInv ==
    ASSUME IInv, ServerClosesOutput \/ ServerExits \/ \E e \in work : ServerReplies(e)
    PROVE  IInv'
<1> USE DEF IInv
<1>0. UNCHANGED <<cl, calls, ready>> /\ child.st = "running" /\ child \in ChildType
  BY DEF ServerClosesOutput, ServerExits, ServerReplies, TypeOK, ChildType
<1>1. ~child.reaped /\ cl.st # "none"
  BY <1>0 DEF ChildOK, FreshOK
<1>2. CASE ServerClosesOutput \/ ServerExits
  <2>1. child' \in ChildType /\ child'.reaped = child.reaped /\ UNCHANGED <<work, lines>>
    BY <1>0, <1>2 DEF ServerClosesOutput, ServerExits, ChildType
  <2>2. TypeOK'
    BY <1>0, <2>1 DEF TypeOK, ChildType
  <2>3. ChildOK(cl', child') /\ HandlesOK(cl', child')
    BY <1>0, <1>1, <2>1 DEF ChildOK, HandlesOK
  <2> QED BY <1>0, <1>1, <2>1, <2>2, <2>3 DEF FreshOK
<1>3. ASSUME NEW e \in work, ServerReplies(e) PROVE IInv'
  <2>1. PICK ok \in BOOLEAN : lines' = Append(lines, [id |-> e.id, ok |-> ok, to |-> e.call])
    BY <1>3 DEF ServerReplies
  <2> DEFINE r == [id |-> e.id, ok |-> ok, to |-> e.call]
  <2>2. work' = work \ {e} /\ UNCHANGED child /\ e \in Entry /\ lines \in Seq(Reply)
    BY <1>3 DEF ServerReplies, TypeOK
  <2>3. r \in Reply /\ r.id = e.id /\ r.to = e.call
    BY <2>2 DEF Reply, Entry
  <2> HIDE DEF r
  <2>4. /\ lines' \in Seq(Reply) /\ Len(lines') = Len(lines) + 1 /\ lines'[Len(lines) + 1] = r
        /\ \A i \in 1 .. Len(lines) : lines'[i] = lines[i]
        /\ \A i \in 1 .. Len(lines) + 1 : i \in 1 .. Len(lines) \/ i = Len(lines) + 1
    <3>1. lines' = Append(lines, r)
      BY <2>1 DEF r
    <3> QED BY <2>2, <2>3, <3>1, PushOne
  <2>5. TypeOK'
    BY <1>0, <2>2, <2>4 DEF TypeOK
  <2>6. IdsOK(cl, work', lines')
    <3> SUFFICES ASSUME cl.spawned PROVE IdsOK(cl, work', lines')
      BY DEF IdsOK
    <3>1. \A i \in 1 .. Len(cl.pending) : cl.pending[i].id < cl.next_id
      BY DEF IdsOK
    <3>2. \A x \in work : /\ x.id < cl.next_id
                          /\ \A i \in 1 .. Len(cl.pending) :
                               cl.pending[i].id = x.id => cl.pending[i].call = x.call
      BY DEF IdsOK
    <3>3. ASSUME NEW j \in 1 .. Len(lines')
          PROVE  /\ lines'[j].id < cl.next_id
                 /\ \A i \in 1 .. Len(cl.pending) :
                      cl.pending[i].id = lines'[j].id => cl.pending[i].call = lines'[j].to
      <4>1. CASE j \in 1 .. Len(lines)
        <5>1. lines'[j] = lines[j]
          BY <2>4, <4>1
        <5> QED BY <4>1, <5>1 DEF IdsOK
      <4>2. CASE j = Len(lines) + 1
        BY <2>3, <2>4, <3>2, <4>2
      <4> QED BY <2>4, <4>1, <4>2
    <3> QED BY <2>2, <3>1, <3>2, <3>3 DEF IdsOK
  <2> QED BY <1>0, <1>1, <2>2, <2>5, <2>6 DEF FreshOK
<1> QED BY <1>2, <1>3

-----------------------------------------------------------------------------
(* From one stage to the next.                                             *)

LEMMA EmptyQueues ==
    ASSUME NEW c, c.pending = <<>>, c.https = <<>>, ~c.tools
    PROVE  QueuesOK(c) /\ Listed(c) = {}
BY EmptyList DEF QueuesOK, Listed

LEMMA NotRunning ==
    ASSUME NEW c, ~c.spawned, NEW w, NEW ls
    PROVE  IdsOK(c, w, ls)
BY DEF IdsOK

\* A client without requests owes no call an answer.
LEMMA NothingListed ==
    ASSUME IInv, cl.pending = <<>>, cl.https = <<>>, NEW c, c.pending = <<>>, c.https = <<>>
    PROVE  CallsOK(c, calls)
<1>1. Listed(c) = Listed(cl)
  BY DEF Listed
<1> QED BY <1>1, SameCalls DEF IInv

LEMMA ReadyFresh ==
    ASSUME IInv, cl.st = "none"
    PROVE  ready = [settled |-> FALSE, waiting |-> 0, frees |-> 0, late |-> FALSE]
<1>1. ready \in ReadyType /\ cl.owns_user \in BOOLEAN
  BY DEF IInv, TypeOK, ReadyType, Client
<1>2. cl.owns_user
  BY <1>1 DEF IInv, StageOK
<1>3. ready.settled = FALSE /\ ready.late = FALSE /\ ready.waiting = 0 /\ ready.frees = 0
  BY <1>1, <1>2 DEF IInv, ReadyOK, ReadyType, One
<1> QED BY <1>1, <1>3 DEF ReadyType

LEMMA ConnectInv ==
    ASSUME IInv, Connect
    PROVE  IInv'
<1> USE DEF IInv
<1> DEFINE c == [cl EXCEPT !.st = "live", !.spawned = cl.transport = "stdio"]
<1>0. /\ cl.st = "none" /\ UNCHANGED <<calls, lines>> /\ cl \in Client
      /\ child' = IF cl.transport = "stdio" THEN Running ELSE child
      /\ calls \in [Calls -> Call] /\ child \in ChildType
      /\ lines = <<>> /\ work = {} /\ child.reaped
  BY DEF Connect, TypeOK, FreshOK, ChildType
<1>1. /\ ~cl.spawned /\ ~cl.closing /\ ~cl.dead /\ ~cl.discarded /\ cl.uv = {}
      /\ cl.pending = <<>> /\ cl.https = <<>> /\ ~cl.tools /\ cl.on_ready /\ cl.owns_user
      /\ cl.transport \in {"stdio", "http"} /\ cl.next_id \in Nat /\ cl.owns_user \in BOOLEAN
  BY <1>0 DEF StageOK, HandlesOK, QueuesOK, Client
<1>2. /\ c \in Client /\ c.st = "live" /\ c.transport = cl.transport /\ (c.spawned <=> cl.transport = "stdio")
      /\ c.closing = cl.closing /\ c.dead = cl.dead /\ c.discarded = cl.discarded /\ c.uv = cl.uv
      /\ c.pending = cl.pending /\ c.https = cl.https /\ c.tools = cl.tools
      /\ c.on_ready = cl.on_ready /\ c.owns_user = cl.owns_user /\ c.next_id = cl.next_id
  BY <1>0 DEF Client
<1> HIDE DEF c
<1>3. QueuesOK(c) /\ Listed(c) = {}
  BY <1>1, <1>2, EmptyQueues
<1>4. StageOK(c)
  BY <1>1, <1>2 DEF StageOK
<1>5. /\ child' \in ChildType /\ (c.spawned <=> ~child'.reaped)
      /\ child'.st = "running" => ~child'.reaped
  <2>1. CASE cl.transport = "stdio"
    BY <1>0, <1>2, <2>1 DEF Running, ChildType
  <2>2. CASE cl.transport # "stdio"
    BY <1>0, <1>2, <2>2 DEF ChildOK
  <2> QED BY <2>1, <2>2
<1>6. ChildOK(c, child') /\ HandlesOK(c, child')
  BY <1>1, <1>2, <1>5 DEF ChildOK, HandlesOK
<1>7. IdsOK(c, work, lines) /\ \A i \in 1 .. Len(c.pending) : FALSE
  <2>1. Len(lines) = 0 /\ Len(c.pending) = 0
    BY <1>0, <1>1, <1>2, EmptyList
  <2> QED BY <1>0, <2>1 DEF IdsOK
<1>8. ASSUME cl' \in Client, SameStage(c, cl'), QueuesOK(cl'), Listed(cl') = {},
             work' \in SUBSET Entry, IdsOK(cl', work', lines),
             ready' \in ReadyType, ReadyOK(cl', ready')
      PROVE  IInv'
  <2>1. StageOK(cl') /\ ChildOK(cl', child') /\ HandlesOK(cl', child')
    BY <1>4, <1>6, <1>8 DEF StageOK, ChildOK, HandlesOK, SameStage
  <2>2. TypeOK'
    BY <1>0, <1>5, <1>8 DEF TypeOK, ChildType, ReadyType
  <2>3. CallsOK(cl', calls')
    <3>1. Listed(cl) = {}
      BY <1>1, EmptyQueues
    <3> QED BY <1>0, <1>8, <3>1, SameCalls
  <2>4. FreshOK'
    BY <1>2, <1>8 DEF FreshOK, SameStage
  <2> QED BY <1>0, <1>8, <2>1, <2>2, <2>3, <2>4
<1>9. ready = [settled |-> FALSE, waiting |-> 0, frees |-> 0, late |-> FALSE]
  BY <1>0, ReadyFresh
<1>10. CASE /\ cl' = mcp_send(c, "init", None) /\ work' = Sent(c, "init", None)
            /\ ready' = [ready EXCEPT !.waiting = 1]
  <2>1. /\ cl' \in Client /\ SameStage(c, cl') /\ QueuesOK(cl')
        /\ Listed(cl') = Listed(c) \cup ({None} \ {None})
        /\ cl'.next_id = c.next_id + 1 /\ Request(c, "init", None) \in Entry
        /\ c.transport = "stdio" =>
              \A i \in 1 .. Len(cl'.pending) :
                  \/ cl'.pending[i] = Request(c, "init", None)
                  \/ \E j \in 1 .. Len(c.pending) : cl'.pending[i] = c.pending[j]
    BY <1>1, <1>2, <1>3, <1>10, SendFacts
  <2>2. Listed(cl') = {}
    BY <1>3, <2>1
  <2>3. work' \subseteq work \cup {Request(c, "init", None)}
    BY <1>10 DEF Sent, Request
  <2>4. IdsOK(cl', work', lines)
    <3>1. CASE ~cl'.spawned
      BY <3>1, NotRunning
    <3>2. CASE cl'.spawned
      <4>1. c.transport = "stdio" /\ cl'.spawned = c.spawned
        BY <1>2, <2>1, <3>2 DEF SameStage
      <4>2. Request(c, "init", None).id = c.next_id /\ work \in SUBSET Entry /\ lines \in Seq(Reply)
        BY DEF Request, TypeOK
      <4> QED BY <1>2, <1>7, <2>1, <2>3, <4>1, <4>2, IdsSent
    <3> QED BY <3>1, <3>2
  <2>5. work' \in SUBSET Entry
    BY <1>0, <2>1, <2>3
  <2>6. ready' = [settled |-> FALSE, waiting |-> 1, frees |-> 0, late |-> FALSE]
    BY <1>9, <1>10
  <2>7. ready' \in ReadyType
    BY <2>6 DEF ReadyType
  <2>8. ReadyOK(cl', ready')
    <3>1. cl'.st = "live" /\ cl'.owns_user
      BY <1>1, <1>2, <2>1 DEF SameStage
    <3> QED BY <2>6, <3>1 DEF ReadyOK, One
  <2> QED BY <1>8, <2>1, <2>2, <2>4, <2>5, <2>7, <2>8
<1>11. CASE /\ cl' = [c EXCEPT !.next_id = @ + 1] /\ UNCHANGED work
            /\ ready' = [ready EXCEPT !.settled = TRUE]
  <2>1. /\ cl' \in Client /\ SameStage(c, cl') /\ QueuesOK(cl') /\ Listed(cl') = Listed(c)
        /\ cl'.pending = c.pending /\ cl'.next_id = c.next_id + 1
    BY <1>2, <1>3, <1>11, SkipFacts
  <2>2. IdsOK(cl', work', lines)
    <3>1. Len(lines) = 0 /\ work' = {}
      BY <1>0, <1>11, EmptyList
    <3> QED BY <1>7, <2>1, <3>1 DEF IdsOK
  <2>3. ready' = [settled |-> TRUE, waiting |-> 0, frees |-> 0, late |-> FALSE]
    BY <1>9, <1>11
  <2>4. ready' \in ReadyType
    BY <2>3 DEF ReadyType
  <2>5. ReadyOK(cl', ready')
    <3>1. cl'.st = "live" /\ cl'.owns_user
      BY <1>1, <1>2, <2>1 DEF SameStage
    <3> QED BY <2>3, <3>1 DEF ReadyOK, One
  <2> QED BY <1>0, <1>3, <1>8, <1>11, <2>1, <2>2, <2>4, <2>5
<1> QED BY <1>10, <1>11 DEF Connect, c

LEMMA ConnectFailsInv ==
    ASSUME IInv, ConnectFails
    PROVE  IInv'
<1> USE DEF IInv
<1>0. /\ cl.st = "none" /\ cl.transport = "stdio" /\ UNCHANGED <<calls, child, work, lines>>
      /\ ready' = [ready EXCEPT !.frees = @ + 1] /\ cl \in Client
      /\ cl' = [[cl EXCEPT !.st = "live", !.on_ready = FALSE, !.owns_user = FALSE, !.discarded = TRUE]
                 EXCEPT !.closing = TRUE, !.intent = "free", !.remaining = 3, !.uv = {"in", "out", "proc"}]
  BY DEF ConnectFails, spawn_failed, TypeOK
<1>1. /\ ~cl.spawned /\ ~cl.dead /\ cl.pending = <<>> /\ cl.https = <<>> /\ ~cl.tools
      /\ child.reaped
  BY <1>0 DEF StageOK, QueuesOK, FreshOK
<1>2. /\ cl' \in Client /\ cl'.st = "live" /\ cl'.transport = "stdio" /\ cl'.spawned = cl.spawned
      /\ cl'.closing = TRUE /\ cl'.dead = cl.dead /\ cl'.discarded = TRUE /\ cl'.uv = {"in", "out", "proc"}
      /\ cl'.remaining = 3 /\ cl'.intent = "free"
      /\ cl'.pending = cl.pending /\ cl'.https = cl.https /\ cl'.tools = cl.tools
      /\ cl'.on_ready = FALSE /\ cl'.owns_user = FALSE
  BY <1>0 DEF Client, Handles
<1>3. StageOK(cl')
  BY <1>1, <1>2 DEF StageOK
<1>4. ChildOK(cl', child')
  BY <1>0, <1>1, <1>2 DEF ChildOK
<1>5. HandlesOK(cl', child')
  BY <1>0, <1>1, <1>2 DEF HandlesOK, One
<1>6. QueuesOK(cl') /\ CallsOK(cl', calls') /\ IdsOK(cl', work', lines')
  BY <1>0, <1>1, <1>2, EmptyQueues, NothingListed, NotRunning
<1>7. ready' = [settled |-> FALSE, waiting |-> 0, frees |-> 1, late |-> FALSE]
  <2>1. ready = [settled |-> FALSE, waiting |-> 0, frees |-> 0, late |-> FALSE]
    BY <1>0, ReadyFresh
  <2>2. ready.frees + 1 = 1
    BY <2>1
  <2>3. ready' = [ready EXCEPT !.frees = 1]
    BY <1>0, <2>2
  <2> QED BY <2>1, <2>3
<1>8. ready' \in ReadyType
  BY <1>7 DEF ReadyType
<1>9. ReadyOK(cl', ready')
  BY <1>2, <1>7 DEF ReadyOK, One
<1>10. TypeOK'
  BY <1>0, <1>2, <1>8 DEF TypeOK, ReadyType
<1>11. FreshOK'
  BY <1>2 DEF FreshOK
<1> QED BY <1>3, <1>4, <1>5, <1>6, <1>9, <1>10, <1>11

\* mcp_go_dead of a client whose server runs.
LEMMA GoneFacts ==
    ASSUME IInv, cl.spawned, NEW d, d = GoDead(cl)
    PROVE  /\ d \in Client /\ d.st = "live" /\ d.transport = "stdio" /\ d.dead = TRUE
           /\ d.spawned = FALSE /\ d.closing = TRUE /\ d.remaining = 3 /\ d.uv = {"in", "out"}
           /\ d.intent \in {"respawn", "idle"} /\ d.discarded = FALSE /\ d.tools = FALSE
           /\ d.pending = <<>> /\ d.https = <<>>
           /\ d.on_ready = cl.on_ready /\ d.owns_user = cl.owns_user
<1> USE DEF IInv
<1>0. /\ cl.st = "live" /\ cl.transport = "stdio" /\ ~cl.dead /\ ~cl.discarded /\ ~cl.closing
      /\ cl.uv = {} /\ cl.https = <<>>
  BY SpawnedFacts
<1>1. cl \in Client /\ cl.tokens \in Nat /\ cl.discarded = FALSE
  BY <1>0 DEF TypeOK, Client
<1>2. <<>> \in Seq(Entry)
  BY EmptyList
<1> DEFINE e == [[cl EXCEPT !.dead = TRUE, !.pending = <<>>] EXCEPT !.tools = FALSE]
           t == IF e.tokens > 0 THEN e.tokens - 1 ELSE e.tokens
           f == [e EXCEPT !.tokens = t]
           intent == IF e.tokens > 0 THEN "respawn" ELSE "idle"
<1>3. /\ e \in Client /\ e.st = "live" /\ e.transport = "stdio" /\ e.dead = TRUE /\ e.spawned = cl.spawned
      /\ e.closing = cl.closing /\ e.uv = {} /\ e.discarded = FALSE /\ e.tools = FALSE
      /\ e.pending = <<>> /\ e.https = <<>> /\ e.on_ready = cl.on_ready /\ e.owns_user = cl.owns_user
      /\ e.tokens = cl.tokens
  BY <1>0, <1>1, <1>2 DEF Client
<1>4. d = mcp_begin_close(f, intent)
  BY <1>0 DEF GoDead, mcp_unregister_all, mcp_restart_allowed
<1> HIDE DEF e
<1>5. t \in Nat
  BY <1>1, <1>3
<1> HIDE DEF t
<1>6. /\ f \in Client /\ f.st = "live" /\ f.transport = "stdio" /\ f.dead = TRUE /\ f.spawned = cl.spawned
      /\ f.closing = cl.closing /\ f.uv = {} /\ f.discarded = FALSE /\ f.tools = FALSE
      /\ f.pending = <<>> /\ f.https = <<>> /\ f.on_ready = cl.on_ready /\ f.owns_user = cl.owns_user
  BY <1>3, <1>5 DEF Client
<1> HIDE DEF f
<1>7. intent \in {"respawn", "idle"}
  OBVIOUS
<1> HIDE DEF intent
<1>8. d = [f EXCEPT !.closing = TRUE, !.spawned = FALSE, !.intent = intent, !.remaining = 3,
                    !.uv = f.uv \cup {"in", "out"}]
  BY <1>0, <1>4, <1>6 DEF mcp_begin_close
<1>9. f.uv \cup {"in", "out"} = {"in", "out"}
  BY <1>6
<1>10. d = [f EXCEPT !.closing = TRUE, !.spawned = FALSE, !.intent = intent, !.remaining = 3,
                     !.uv = {"in", "out"}]
  BY <1>8, <1>9
<1>11. d \in Client
  <2> DEFINE g == [f EXCEPT !.closing = TRUE, !.spawned = FALSE]
             u == {"in", "out"}
  <2>1. g \in Client
    BY <1>6 DEF Client
  <2>2. d = [g EXCEPT !.intent = intent, !.remaining = 3, !.uv = u]
    BY <1>10
  <2>3. u \in SUBSET Handles
    BY DEF Handles
  <2> HIDE DEF g, u
  <2>4. 3 \in Nat /\ intent \in {"idle", "respawn", "free"}
    BY <1>7
  <2> QED BY <2>1, <2>2, <2>3, <2>4 DEF Client
<1>12. /\ d.closing = TRUE /\ d.spawned = FALSE /\ d.intent = intent /\ d.remaining = 3
       /\ d.uv = {"in", "out"} /\ d.st = f.st /\ d.transport = f.transport /\ d.dead = f.dead
       /\ d.discarded = f.discarded /\ d.tools = f.tools /\ d.pending = f.pending
       /\ d.https = f.https /\ d.on_ready = f.on_ready /\ d.owns_user = f.owns_user
  BY <1>6, <1>10 DEF Client
<1> QED BY <1>6, <1>7, <1>11, <1>12

\* What mcp_go_dead tells the owner.
LEMMA GoneTold ==
    ASSUME IInv, cl.spawned, mcp_go_dead, NEW d, d.pending = <<>>, d.https = <<>>,
           d.st = "live", d.owns_user = cl.owns_user
    PROVE  /\ calls' \in [Calls -> Call] /\ CallsOK(d, calls')
           /\ ready' \in ReadyType /\ ReadyOK(d, ready')
<1> USE DEF IInv
<1>0. cl.st = "live" /\ ~cl.dead /\ cl.https = <<>> /\ cl \in Client /\ cl.pending \in Seq(Entry)
  BY SpawnedFacts DEF TypeOK, Client
<1>1. GoDead(cl).pending = <<>>
  BY GoneFacts
<1>2. /\ calls' = Report(CallsOf(cl.pending), "client") /\ ready' = on_mcp_ready(cl)
  <2>1. CallsOf(GoDead(cl).pending) = {}
    BY <1>1, EmptyList
  <2> QED BY <1>0, <2>1 DEF mcp_go_dead
<1>3. /\ Listed(d) = {} /\ Listed(cl) = CallsOf(cl.pending) /\ CallsOf(cl.pending) \in SUBSET Calls
  BY <1>0, EmptyList, ListFacts DEF Listed
<1>4. calls' \in [Calls -> Call] /\ CallsOK(d, calls')
  BY <1>2, <1>3, Reported
<1>5. ready' \in ReadyType /\ ReadyOK(d, ready')
  BY <1>0, <1>2, ReadyReported
<1> QED BY <1>4, <1>5

LEMMA EofInv ==
    ASSUME IInv, mcp_stdio_read_eof
    PROVE  IInv'
<1> USE DEF IInv
<1>0. cl.spawned /\ mcp_go_dead /\ cl' = GoDead(cl) /\ UNCHANGED <<child, work, lines>>
  BY DEF mcp_stdio_read_eof
<1>1. /\ cl' \in Client /\ cl'.st = "live" /\ cl'.transport = "stdio" /\ cl'.dead = TRUE
      /\ cl'.spawned = FALSE /\ cl'.closing = TRUE /\ cl'.remaining = 3 /\ cl'.uv = {"in", "out"}
      /\ cl'.intent \in {"respawn", "idle"} /\ cl'.discarded = FALSE /\ cl'.tools = FALSE
      /\ cl'.pending = <<>> /\ cl'.https = <<>>
      /\ cl'.on_ready = cl.on_ready /\ cl'.owns_user = cl.owns_user
  BY <1>0, GoneFacts
<1>2. /\ ~child.reaped /\ ~cl.discarded
  BY <1>0, SpawnedFacts
<1>3. /\ calls' \in [Calls -> Call] /\ CallsOK(cl', calls')
      /\ ready' \in ReadyType /\ ReadyOK(cl', ready')
  BY <1>0, <1>1, GoneTold
<1>4. StageOK(cl')
  BY <1>1, <1>2 DEF StageOK
<1>5. ChildOK(cl', child')
  BY <1>0, <1>1, <1>2 DEF ChildOK
<1>6. HandlesOK(cl', child')
  BY <1>0, <1>1, <1>2 DEF HandlesOK, One
<1>7. QueuesOK(cl') /\ IdsOK(cl', work', lines')
  BY <1>1, EmptyQueues, NotRunning
<1>8. TypeOK'
  BY <1>0, <1>1, <1>3 DEF TypeOK, ReadyType
<1>9. FreshOK'
  BY <1>1 DEF FreshOK
<1> QED BY <1>3, <1>4, <1>5, <1>6, <1>7, <1>8, <1>9

LEMMA ExitInv ==
    ASSUME IInv, mcp_on_exit
    PROVE  IInv'
<1> USE DEF IInv
<1>0. /\ ~child.reaped /\ child.st = "exited" /\ child' = [child EXCEPT !.reaped = TRUE] /\ child \in ChildType
      /\ mcp_go_dead /\ cl' = [GoDead(cl) EXCEPT !.uv = @ \cup {"proc"}] /\ UNCHANGED <<work, lines>>
  BY DEF mcp_on_exit, TypeOK, ChildType
<1>1. child' \in ChildType /\ child'.reaped = TRUE /\ child'.st = "exited"
  BY <1>0 DEF ChildType
<1>2. CASE cl.spawned
  <2> DEFINE d == GoDead(cl)
  <2>0. /\ d \in Client /\ d.st = "live" /\ d.transport = "stdio" /\ d.dead = TRUE
        /\ d.spawned = FALSE /\ d.closing = TRUE /\ d.remaining = 3 /\ d.uv = {"in", "out"}
        /\ d.intent \in {"respawn", "idle"} /\ d.discarded = FALSE /\ d.tools = FALSE
        /\ d.pending = <<>> /\ d.https = <<>>
        /\ d.on_ready = cl.on_ready /\ d.owns_user = cl.owns_user
    BY <1>2, GoneFacts
  <2>1. cl' = [d EXCEPT !.uv = {"in", "out", "proc"}]
    BY <1>0, <2>0
  <2> HIDE DEF d
  <2>2. /\ cl' \in Client /\ cl'.st = "live" /\ cl'.transport = "stdio" /\ cl'.dead = TRUE
        /\ cl'.spawned = FALSE /\ cl'.closing = TRUE /\ cl'.remaining = 3
        /\ cl'.uv = {"in", "out", "proc"}
        /\ cl'.intent \in {"respawn", "idle"} /\ cl'.discarded = FALSE /\ cl'.tools = FALSE
        /\ cl'.pending = <<>> /\ cl'.https = <<>>
        /\ cl'.on_ready = cl.on_ready /\ cl'.owns_user = cl.owns_user
    BY <2>0, <2>1 DEF Client, Handles
  <2>3. ~cl.discarded
    BY <1>2, SpawnedFacts
  <2>4. /\ calls' \in [Calls -> Call] /\ CallsOK(cl', calls')
        /\ ready' \in ReadyType /\ ReadyOK(cl', ready')
    BY <1>0, <1>2, <2>2, GoneTold
  <2>5. StageOK(cl')
    BY <2>2, <2>3 DEF StageOK
  <2>6. ChildOK(cl', child')
    BY <1>1, <2>2 DEF ChildOK
  <2>7. HandlesOK(cl', child')
    BY <1>1, <2>2 DEF HandlesOK, One
  <2>8. QueuesOK(cl') /\ IdsOK(cl', work', lines')
    BY <2>2, EmptyQueues, NotRunning
  <2>9. TypeOK'
    BY <1>0, <1>1, <2>2, <2>4 DEF TypeOK, ReadyType, ChildType
  <2>10. FreshOK'
    BY <2>2 DEF FreshOK
  <2> QED BY <2>4, <2>5, <2>6, <2>7, <2>8, <2>9, <2>10
<1>3. CASE ~cl.spawned
  <2>0. cl.closing /\ cl.dead /\ cl \in Client /\ cl.uv \subseteq Handles
    BY <1>0, <1>3 DEF ChildOK, TypeOK, Client
  <2>1. cl' = [cl EXCEPT !.uv = @ \cup {"proc"}] /\ UNCHANGED <<calls, ready>>
    BY <1>0, <2>0 DEF GoDead, mcp_go_dead
  <2>2. /\ cl' \in Client /\ cl'.uv = cl.uv \cup {"proc"} /\ cl'.st = cl.st /\ cl'.transport = cl.transport
        /\ cl'.dead = cl.dead /\ cl'.spawned = cl.spawned /\ cl'.closing = cl.closing
        /\ cl'.remaining = cl.remaining /\ cl'.intent = cl.intent /\ cl'.discarded = cl.discarded
        /\ cl'.tools = cl.tools /\ cl'.pending = cl.pending /\ cl'.https = cl.https
        /\ cl'.on_ready = cl.on_ready /\ cl'.owns_user = cl.owns_user
    BY <2>0, <2>1 DEF Client, Handles
  <2>3. StageOK(cl')
    BY <2>2 DEF StageOK
  <2>4. ChildOK(cl', child')
    BY <1>1, <1>3, <2>2 DEF ChildOK
  <2>5. HandlesOK(cl', child')
    BY <1>0, <1>1, <2>0, <2>2 DEF HandlesOK, One
  <2>6. QueuesOK(cl')
    BY <2>2 DEF QueuesOK
  <2>7. CallsOK(cl', calls') /\ ReadyOK(cl', ready') /\ IdsOK(cl', work', lines')
    <3>1. Listed(cl') = Listed(cl)
      BY <2>2 DEF Listed
    <3> QED BY <1>3, <2>1, <2>2, <3>1, SameCalls, ReadyKept, NotRunning
  <2>8. TypeOK'
    BY <1>0, <1>1, <2>1, <2>2 DEF TypeOK, ChildType
  <2>9. FreshOK'
    BY <2>0, <2>2 DEF FreshOK, StageOK
  <2> QED BY <2>3, <2>4, <2>5, <2>6, <2>7, <2>8, <2>9
<1> QED BY <1>2, <1>3

\* A close callback: what is left to close.
LEMMA CloseFacts ==
    ASSUME IInv, NEW h \in Handles, h \in cl.uv,
           NEW c, c = [cl EXCEPT !.uv = @ \ {h}, !.remaining = @ - 1]
    PROVE  /\ cl.closing /\ cl.st = "live" /\ ~cl.spawned
           /\ c \in Client /\ c.uv = cl.uv \ {h} /\ c.remaining = cl.remaining - 1
           /\ c.st = "live" /\ c.transport = "stdio" /\ c.dead = cl.dead /\ c.spawned = cl.spawned
           /\ c.closing = cl.closing /\ c.intent = cl.intent /\ c.discarded = cl.discarded
           /\ c.tools = cl.tools /\ c.pending = <<>> /\ c.https = <<>> /\ ~c.tools
           /\ c.on_ready = cl.on_ready /\ c.owns_user = cl.owns_user
           /\ c.dead \/ c.discarded
           /\ HandlesOK(c, child)
           /\ c.remaining = 0 => c.uv = {} /\ child.reaped
<1> USE DEF IInv
<1>0. cl \in Client /\ cl.uv \in SUBSET Handles /\ cl.remaining \in Nat /\ cl.st \in {"none", "live", "freed"}
  BY DEF TypeOK, Client
<1>1. cl.closing
  BY DEF HandlesOK
<1>2. /\ cl.st = "live" /\ ~cl.spawned /\ cl.transport = "stdio" /\ (cl.dead \/ cl.discarded)
      /\ cl.pending = <<>> /\ cl.https = <<>> /\ ~cl.tools
  BY <1>0, <1>1 DEF StageOK, QueuesOK
<1> DEFINE i == One("in" \in cl.uv)
           o == One("out" \in cl.uv)
           p == One("proc" \in cl.uv \/ ~child.reaped)
           i2 == One("in" \in cl.uv \ {h})
           o2 == One("out" \in cl.uv \ {h})
           p2 == One("proc" \in cl.uv \ {h} \/ ~child.reaped)
<1>3. cl.remaining = i + o + p /\ ("proc" \in cl.uv => child.reaped)
  BY <1>1 DEF HandlesOK
<1>4. /\ i \in Nat /\ o \in Nat /\ p \in Nat /\ i2 \in Nat /\ o2 \in Nat /\ p2 \in Nat
      /\ i2 + o2 + p2 = i + o + p - 1
  <2>1. CASE h = "in"
    BY <2>1 DEF One
  <2>2. CASE h = "out"
    BY <2>2 DEF One
  <2>3. CASE h = "proc"
    BY <1>3, <2>3 DEF One
  <2> QED BY <2>1, <2>2, <2>3 DEF Handles
<1>5. cl.remaining - 1 = i2 + o2 + p2 /\ cl.remaining - 1 \in Nat
  <2> HIDE DEF i, o, p, i2, o2, p2
  <2> QED BY <1>0, <1>3, <1>4
<1>6. /\ c \in Client /\ c.uv = cl.uv \ {h} /\ c.remaining = cl.remaining - 1
      /\ c.st = cl.st /\ c.transport = cl.transport /\ c.dead = cl.dead /\ c.spawned = cl.spawned
      /\ c.closing = cl.closing /\ c.intent = cl.intent /\ c.discarded = cl.discarded
      /\ c.tools = cl.tools /\ c.pending = cl.pending /\ c.https = cl.https
      /\ c.on_ready = cl.on_ready /\ c.owns_user = cl.owns_user
  <2> DEFINE u == cl.uv \ {h}
             r == cl.remaining - 1
  <2>1. u \in SUBSET Handles /\ r \in Nat
    BY <1>0, <1>5
  <2>2. c = [cl EXCEPT !.uv = u, !.remaining = r]
    OBVIOUS
  <2> HIDE DEF u, r
  <2>3. /\ c \in Client /\ c.uv = u /\ c.remaining = r
        /\ c.st = cl.st /\ c.transport = cl.transport /\ c.dead = cl.dead /\ c.spawned = cl.spawned
        /\ c.closing = cl.closing /\ c.intent = cl.intent /\ c.discarded = cl.discarded
        /\ c.tools = cl.tools /\ c.pending = cl.pending /\ c.https = cl.https
        /\ c.on_ready = cl.on_ready /\ c.owns_user = cl.owns_user
    BY <1>0, <2>1, <2>2 DEF Client
  <2> QED BY <2>3 DEF u, r
<1>7. HandlesOK(c, child)
  BY <1>1, <1>3, <1>5, <1>6 DEF HandlesOK
<1>8. c.remaining = 0 => c.uv = {} /\ child.reaped
  <2> SUFFICES ASSUME cl.remaining - 1 = 0 PROVE cl.uv \ {h} = {} /\ child.reaped
    BY <1>6
  <2>1. i2 = 0 /\ o2 = 0 /\ p2 = 0
    <3> HIDE DEF i, o, p, i2, o2, p2
    <3>1. i2 \in Nat /\ o2 \in Nat /\ p2 \in Nat /\ i2 + o2 + p2 = 0
      BY <1>4, <1>5
    <3> QED BY <3>1
  <2>2. "in" \notin cl.uv \ {h} /\ "out" \notin cl.uv \ {h} /\ ~("proc" \in cl.uv \ {h} \/ ~child.reaped)
    BY <2>1 DEF One
  <2> QED BY <1>0, <2>2 DEF Handles
<1> QED BY <1>1, <1>2, <1>6, <1>7, <1>8

LEMMA RespawnInv ==
    ASSUME IInv, NEW d \in Client, mcp_do_respawn(d), UNCHANGED calls, cl.st = "live",
           cl.pending = <<>>, cl.https = <<>>, cl.closing, child.reaped,
           d.st = "live", d.transport = "stdio", d.dead, ~d.spawned, ~d.closing, ~d.discarded,
           d.uv = {}, d.pending = <<>>, d.https = <<>>, ~d.tools,
           d.on_ready = cl.on_ready, d.owns_user = cl.owns_user, ~cl.discarded
    PROVE  IInv'
<1> USE DEF IInv
<1>0. child \in ChildType /\ calls \in [Calls -> Call] /\ d.on_ready /\ d.owns_user
  BY DEF TypeOK, ChildType, StageOK, Client
<1>1. CASE child' = Running /\ lines' = <<>>
  <2> DEFINE c == [d EXCEPT !.next_id = 1, !.spawned = TRUE, !.dead = FALSE]
  <2>1. /\ c \in Client /\ c.st = d.st /\ c.transport = d.transport /\ c.dead = FALSE /\ c.spawned = TRUE
        /\ c.closing = d.closing /\ c.discarded = d.discarded /\ c.uv = d.uv /\ c.next_id = 1
        /\ c.pending = d.pending /\ c.https = d.https /\ c.tools = d.tools
        /\ c.on_ready = d.on_ready /\ c.owns_user = d.owns_user
    BY DEF Client
  <2>2. QueuesOK(c) /\ Listed(c) = {} /\ Listed(cl) = {}
    BY <2>1, EmptyQueues, EmptyList DEF Listed
  <2>3. \/ /\ cl' = mcp_send(c, "init", None)
           /\ work' = {[id |-> 1, kind |-> "init", call |-> None]} /\ UNCHANGED ready
        \/ /\ cl' = [c EXCEPT !.next_id = 2] /\ work' = {} /\ ready' = on_mcp_ready(c)
    <3>1. CASE \/ /\ cl' = mcp_send(c, "init", None)
                  /\ work' = {[id |-> 1, kind |-> "init", call |-> None]} /\ UNCHANGED ready
               \/ /\ cl' = [c EXCEPT !.next_id = 2] /\ work' = {} /\ ready' = on_mcp_ready(c)
      BY <3>1
    <3>2. CASE UNCHANGED child
      BY <1>1, <3>2 DEF Running
    <3> QED BY <3>1, <3>2 DEF mcp_do_respawn
  <2> HIDE DEF c
  <2>4. child' \in ChildType /\ child'.reaped = FALSE /\ lines' \in Seq(Reply) /\ Len(lines') = 0
    BY <1>1, EmptySeq DEF Running, ChildType
  <2>5. ASSUME cl' \in Client, SameStage(c, cl'), QueuesOK(cl'), Listed(cl') = {},
               work' \in SUBSET Entry, IdsOK(cl', work', lines'),
               ready' \in ReadyType, ReadyOK(cl', ready')
        PROVE  IInv'
    <3>1. StageOK(c) /\ ChildOK(c, child') /\ HandlesOK(c, child')
      BY <1>0, <2>1, <2>4 DEF StageOK, ChildOK, HandlesOK
    <3>2. StageOK(cl') /\ ChildOK(cl', child') /\ HandlesOK(cl', child')
      BY <2>5, <3>1 DEF StageOK, ChildOK, HandlesOK, SameStage
    <3>3. TypeOK'
      BY <1>0, <2>4, <2>5 DEF TypeOK, ChildType, ReadyType
    <3>4. CallsOK(cl', calls')
      BY <2>2, <2>5, SameCalls
    <3>5. FreshOK'
      BY <2>1, <2>5 DEF FreshOK, SameStage
    <3> QED BY <2>5, <3>2, <3>3, <3>4, <3>5
  <2>6. CASE /\ cl' = mcp_send(c, "init", None)
             /\ work' = {[id |-> 1, kind |-> "init", call |-> None]} /\ UNCHANGED ready
    <3>1. /\ cl' \in Client /\ SameStage(c, cl') /\ QueuesOK(cl')
          /\ Listed(cl') = Listed(c) \cup ({None} \ {None})
          /\ cl'.next_id = c.next_id + 1 /\ Request(c, "init", None) \in Entry
          /\ c.transport = "stdio" =>
                \A i \in 1 .. Len(cl'.pending) :
                    \/ cl'.pending[i] = Request(c, "init", None)
                    \/ \E j \in 1 .. Len(c.pending) : cl'.pending[i] = c.pending[j]
      BY <2>1, <2>2, <2>6, SendFacts
    <3>2. Listed(cl') = {}
      BY <2>2, <3>1
    <3>3. work' = {} \cup {Request(c, "init", None)}
      BY <2>1, <2>6 DEF Request
    <3>4. IdsOK(c, {}, lines')
      <4>1. Len(c.pending) = 0
        BY <2>1, EmptyList
      <4> QED BY <2>4, <4>1 DEF IdsOK
    <3>5. IdsOK(cl', work', lines')
      <4>1. cl'.spawned = c.spawned
        BY <3>1 DEF SameStage
      <4>2. Request(c, "init", None).id = c.next_id /\ {} \in SUBSET Entry
        BY DEF Request
      <4>3. /\ work' \subseteq {} \cup {Request(c, "init", None)}
            /\ \A i \in 1 .. Len(cl'.pending) :
                    \/ cl'.pending[i] = Request(c, "init", None)
                    \/ \E j \in 1 .. Len(c.pending) : cl'.pending[i] = c.pending[j]
        BY <2>1, <3>1, <3>3
      <4> QED BY <2>1, <2>4, <3>1, <3>4, <4>1, <4>2, <4>3, IdsSent
    <3>6. ready' \in ReadyType /\ ReadyOK(cl', ready')
      <4>1. cl'.st = cl.st /\ cl'.owns_user = cl.owns_user
        BY <2>1, <3>1 DEF SameStage
      <4> QED BY <2>6, <4>1, ReadyKept DEF TypeOK, ReadyType
    <3>7. work' \in SUBSET Entry
      BY <3>1, <3>3
    <3> QED BY <2>5, <3>1, <3>2, <3>5, <3>6, <3>7
  <2>7. CASE cl' = [c EXCEPT !.next_id = 2] /\ work' = {} /\ ready' = on_mcp_ready(c)
    <3>1. /\ cl' \in Client /\ SameStage(c, cl') /\ cl'.pending = c.pending /\ cl'.https = c.https
          /\ cl'.tools = c.tools
      BY <2>1, <2>7 DEF Client, SameStage
    <3>2. QueuesOK(cl') /\ Listed(cl') = {}
      BY <2>1, <3>1, EmptyQueues
    <3>3. IdsOK(cl', work', lines')
      <4>1. Len(cl'.pending) = 0
        BY <2>1, <3>1, EmptyList
      <4> QED BY <2>4, <2>7, <4>1 DEF IdsOK
    <3>4. ready' \in ReadyType /\ ReadyOK(cl', ready')
      <4>1. cl'.st = "live" /\ cl'.owns_user = cl.owns_user /\ c.on_ready = cl.on_ready
        BY <2>1, <3>1 DEF SameStage
      <4> QED BY <2>7, <4>1, ReadyReported
    <3>5. work' \in SUBSET Entry
      BY <2>7
    <3> QED BY <2>5, <3>1, <3>2, <3>3, <3>4, <3>5
  <2> QED BY <2>3, <2>6, <2>7
<1>2. CASE /\ cl' = spawn_failed([d EXCEPT !.next_id = 1], "idle")
           /\ ready' = on_mcp_ready(d) /\ UNCHANGED <<child, work, lines>>
  <2> DEFINE c == [d EXCEPT !.next_id = 1]
  <2>1. /\ c \in Client /\ c.st = d.st /\ c.transport = d.transport /\ c.dead = d.dead
        /\ c.spawned = d.spawned /\ c.discarded = d.discarded
        /\ c.pending = d.pending /\ c.https = d.https /\ c.tools = d.tools
        /\ c.on_ready = d.on_ready /\ c.owns_user = d.owns_user
    BY DEF Client
  <2>2. cl' = [c EXCEPT !.closing = TRUE, !.intent = "idle", !.remaining = 3, !.uv = {"in", "out", "proc"}]
    BY <1>2 DEF spawn_failed
  <2> HIDE DEF c
  <2>3. /\ cl' \in Client /\ cl'.st = "live" /\ cl'.transport = "stdio" /\ cl'.dead = d.dead
        /\ cl'.spawned = d.spawned /\ cl'.closing = TRUE /\ cl'.remaining = 3
        /\ cl'.uv = {"in", "out", "proc"} /\ cl'.intent = "idle" /\ cl'.discarded = d.discarded
        /\ cl'.tools = d.tools /\ cl'.pending = <<>> /\ cl'.https = <<>>
        /\ cl'.on_ready = d.on_ready /\ cl'.owns_user = d.owns_user
    BY <2>1, <2>2 DEF Client, Handles
  <2>4. StageOK(cl')
    BY <1>0, <2>3 DEF StageOK
  <2>5. ChildOK(cl', child')
    BY <1>2, <2>3 DEF ChildOK
  <2>6. HandlesOK(cl', child')
    <3>1. /\ One("in" \in cl'.uv) = 1 /\ One("out" \in cl'.uv) = 1
          /\ One("proc" \in cl'.uv \/ ~child'.reaped) = 1
      BY <1>2, <2>3 DEF One
    <3> QED BY <1>2, <2>3, <3>1 DEF HandlesOK
  <2>7. QueuesOK(cl') /\ CallsOK(cl', calls') /\ IdsOK(cl', work', lines')
    BY <2>3, EmptyQueues, NothingListed, NotRunning
  <2>8. ready' \in ReadyType /\ ReadyOK(cl', ready')
    BY <1>2, <2>3, ReadyReported
  <2>9. TypeOK'
    BY <1>0, <1>2, <2>3, <2>8 DEF TypeOK, ReadyType
  <2>10. FreshOK'
    BY <2>3 DEF FreshOK
  <2> QED BY <2>4, <2>5, <2>6, <2>7, <2>8, <2>9, <2>10
<1> QED BY <1>1, <1>2 DEF mcp_do_respawn

LEMMA HandleClosedInv ==
    ASSUME IInv, NEW h \in Handles, mcp_handle_closed(h)
    PROVE  IInv'
<1> USE DEF IInv
<1> DEFINE c == [cl EXCEPT !.uv = @ \ {h}, !.remaining = @ - 1]
           d == [c EXCEPT !.closing = FALSE]
<1>0. h \in cl.uv /\ UNCHANGED calls /\ calls \in [Calls -> Call] /\ child \in ChildType
  BY DEF mcp_handle_closed, TypeOK, ChildType
<1>1. /\ cl.closing /\ cl.st = "live" /\ ~cl.spawned
      /\ c \in Client /\ c.uv = cl.uv \ {h} /\ c.remaining = cl.remaining - 1
      /\ c.st = "live" /\ c.transport = "stdio" /\ c.dead = cl.dead /\ c.spawned = cl.spawned
      /\ c.closing = cl.closing /\ c.intent = cl.intent /\ c.discarded = cl.discarded
      /\ c.tools = cl.tools /\ c.pending = <<>> /\ c.https = <<>> /\ ~c.tools
      /\ c.on_ready = cl.on_ready /\ c.owns_user = cl.owns_user
      /\ c.dead \/ c.discarded
      /\ HandlesOK(c, child)
      /\ c.remaining = 0 => c.uv = {} /\ child.reaped
  BY <1>0, CloseFacts
<1>2. /\ cl.pending = <<>> /\ cl.https = <<>> /\ (cl.intent = "free" <=> cl.discarded)
      /\ (cl.on_ready <=> ~cl.discarded) /\ (~cl.owns_user => cl.discarded)
      /\ cl.intent \in {"idle", "respawn", "free"} /\ c.remaining \in Nat
      /\ cl.owns_user \in BOOLEAN /\ cl.discarded \in BOOLEAN /\ cl.transport \in {"stdio", "http"}
  BY <1>1 DEF StageOK, QueuesOK, TypeOK, Client
<1>3. /\ d \in Client /\ d.uv = c.uv /\ d.st = "live" /\ d.transport = "stdio" /\ d.dead = cl.dead
      /\ d.spawned = cl.spawned /\ d.closing = FALSE /\ d.intent = cl.intent
      /\ d.discarded = cl.discarded /\ d.tools = cl.tools /\ d.pending = <<>> /\ d.https = <<>>
      /\ d.on_ready = cl.on_ready /\ d.owns_user = cl.owns_user
  <2> HIDE DEF c
  <2> QED BY <1>1 DEF Client
<1>4. CASE c.remaining > 0
  <2>1. cl' = c /\ UNCHANGED <<ready, child, work, lines>>
    BY <1>4 DEF mcp_handle_closed
  <2> HIDE DEF c
  <2>2. StageOK(cl') /\ ChildOK(cl', child')
    BY <1>1, <1>2, <2>1 DEF StageOK, ChildOK
  <2>3. QueuesOK(cl') /\ CallsOK(cl', calls') /\ IdsOK(cl', work', lines')
    BY <1>0, <1>1, <1>2, <2>1, EmptyQueues, NothingListed, NotRunning
  <2>4. ReadyOK(cl', ready')
    BY <1>1, <2>1, ReadyKept
  <2>5. TypeOK' /\ FreshOK'
    BY <1>0, <1>1, <2>1 DEF TypeOK, FreshOK
  <2> QED BY <1>1, <2>1, <2>2, <2>3, <2>4, <2>5
<1>5. CASE c.remaining = 0 /\ c.intent = "respawn"
  <2>1. mcp_do_respawn(d)
    BY <1>5 DEF mcp_handle_closed
  <2>2. ~cl.discarded /\ cl.dead /\ d.uv = {} /\ child.reaped
    BY <1>1, <1>2, <1>3, <1>5
  <2> HIDE DEF d, c
  <2> QED BY <1>0, <1>1, <1>2, <1>3, <2>1, <2>2, RespawnInv
<1>6. CASE c.remaining = 0 /\ c.intent = "idle"
  <2>1. cl' = d /\ UNCHANGED <<ready, child, work, lines>>
    BY <1>6 DEF mcp_handle_closed
  <2>2. d.uv = {} /\ child.reaped /\ ~cl.discarded /\ cl.dead
    BY <1>1, <1>2, <1>3, <1>6
  <2> HIDE DEF d, c
  <2>3. StageOK(cl')
    BY <1>1, <1>2, <1>3, <2>1, <2>2 DEF StageOK
  <2>4. ChildOK(cl', child') /\ HandlesOK(cl', child')
    BY <1>1, <1>3, <2>1, <2>2 DEF ChildOK, HandlesOK
  <2>5. QueuesOK(cl') /\ CallsOK(cl', calls') /\ IdsOK(cl', work', lines')
    BY <1>0, <1>1, <1>2, <1>3, <2>1, EmptyQueues, NothingListed, NotRunning
  <2>6. ReadyOK(cl', ready')
    BY <1>1, <1>3, <2>1, ReadyKept
  <2>7. TypeOK' /\ FreshOK'
    BY <1>0, <1>3, <2>1 DEF TypeOK, FreshOK
  <2> QED BY <2>3, <2>4, <2>5, <2>6, <2>7
<1>7. CASE c.remaining = 0 /\ c.intent = "free"
  <2>1. /\ cl' = [d EXCEPT !.st = "freed"] /\ ready' = UserFreed(cl', ready)
        /\ UNCHANGED <<child, work, lines>>
    BY <1>7 DEF mcp_handle_closed, mcp_client_free_now
  <2>2. d.uv = {} /\ child.reaped /\ cl.discarded
    BY <1>1, <1>2, <1>3, <1>7
  <2> HIDE DEF d, c
  <2>3. /\ cl' \in Client /\ cl'.uv = d.uv /\ cl'.st = "freed" /\ cl'.transport = "stdio"
        /\ cl'.dead = cl.dead /\ cl'.spawned = cl.spawned /\ cl'.closing = FALSE
        /\ cl'.discarded = cl.discarded /\ cl'.tools = cl.tools
        /\ cl'.pending = <<>> /\ cl'.https = <<>>
        /\ cl'.on_ready = cl.on_ready /\ cl'.owns_user = cl.owns_user
    BY <1>3, <2>1 DEF Client
  <2>4. StageOK(cl')
    BY <1>1, <1>2, <2>2, <2>3 DEF StageOK
  <2>5. ChildOK(cl', child') /\ HandlesOK(cl', child')
    BY <1>1, <2>1, <2>2, <2>3 DEF ChildOK, HandlesOK
  <2>6. QueuesOK(cl') /\ CallsOK(cl', calls') /\ IdsOK(cl', work', lines')
    BY <1>0, <1>1, <1>2, <2>3, EmptyQueues, NothingListed, NotRunning
  <2>7. ready' \in ReadyType /\ ReadyOK(cl', ready')
    BY <1>1, <1>2, <2>1, <2>3, ReadyFreed
  <2>8. TypeOK' /\ FreshOK'
    BY <1>0, <2>1, <2>3, <2>7 DEF TypeOK, FreshOK, ReadyType
  <2> QED BY <2>4, <2>5, <2>6, <2>7, <2>8
<1>8. c.remaining > 0 \/ c.remaining = 0
  <2> HIDE DEF c
  <2> QED BY <1>2
<1> QED BY <1>1, <1>2, <1>4, <1>5, <1>6, <1>7, <1>8

LEMMA FreeInv ==
    ASSUME IInv, clm_mcp_client_free
    PROVE  IInv'
<1> USE DEF IInv
<1> DEFINE c == [[cl EXCEPT !.discarded = TRUE, !.on_ready = FALSE, !.pending = <<>>, !.https = <<>>]
                  EXCEPT !.tools = FALSE]
<1>0. /\ cl.st = "live" /\ ~cl.discarded /\ UNCHANGED <<work, lines>> /\ cl \in Client
      /\ calls' = Report(Listed(cl), "client") /\ child' = [child EXCEPT !.killed = ~cl.dead /\ cl.spawned]
      /\ cl' = (IF c.transport = "http" THEN mcp_client_free_now(c)
                ELSE mcp_begin_close([c EXCEPT !.dead = @ \/ c.spawned], "free"))
      /\ ready' = UserFreed(cl', ready) /\ child \in ChildType /\ Listed(cl) \in SUBSET Calls
  BY ListedFacts DEF clm_mcp_client_free, Listed, Kill, mcp_unregister_all, mcp_cancel_all_http, TypeOK,
                     ChildType
<1>1. /\ c \in Client /\ c.st = "live" /\ c.transport = cl.transport /\ c.dead = cl.dead
      /\ c.spawned = cl.spawned /\ c.closing = cl.closing /\ c.remaining = cl.remaining
      /\ c.intent = cl.intent /\ c.uv = cl.uv /\ c.discarded = TRUE /\ c.tools = FALSE
      /\ c.pending = <<>> /\ c.https = <<>> /\ c.on_ready = FALSE /\ c.owns_user = cl.owns_user
  BY <1>0, EmptyList DEF Client
<1>2. /\ cl.transport \in {"stdio", "http"} /\ cl.dead \in BOOLEAN /\ cl.spawned \in BOOLEAN
      /\ cl.owns_user \in BOOLEAN /\ cl.closing \in BOOLEAN
  BY <1>0 DEF Client
<1>3. child' \in ChildType /\ child'.reaped = child.reaped /\ child'.st = child.st
  <2>1. (~cl.dead /\ cl.spawned) \in BOOLEAN
    OBVIOUS
  <2> DEFINE b == ~cl.dead /\ cl.spawned
  <2>2. child' = [child EXCEPT !.killed = b] /\ b \in BOOLEAN
    BY <1>0, <2>1
  <2> HIDE DEF b
  <2> QED BY <1>0, <2>2 DEF ChildType
<1> HIDE DEF c
<1>4. ASSUME cl' \in Client, cl'.pending = <<>>, cl'.https = <<>>, cl'.tools = FALSE, cl'.spawned = FALSE,
             cl'.st \in {"live", "freed"}, cl'.owns_user = cl.owns_user,
             StageOK(cl'), ChildOK(cl', child'), HandlesOK(cl', child')
      PROVE  IInv'
  <2>1. QueuesOK(cl') /\ Listed(cl') = {} /\ IdsOK(cl', work', lines')
    BY <1>4, EmptyQueues, NotRunning
  <2>2. calls' \in [Calls -> Call] /\ CallsOK(cl', calls')
    BY <1>0, <2>1, Reported
  <2>3. ready' \in ReadyType /\ ReadyOK(cl', ready')
    <3>1. CASE cl'.st = "freed"
      BY <1>0, <1>2, <1>4, <3>1, ReadyFreed
    <3>2. CASE cl'.st = "live"
      <4>1. ready' = ready
        BY <1>0, <3>2 DEF UserFreed
      <4> QED BY <1>0, <1>4, <3>2, <4>1, ReadyKept DEF TypeOK, ReadyType
    <3> QED BY <1>4, <3>1, <3>2
  <2>4. TypeOK'
    BY <1>0, <1>3, <1>4, <2>2, <2>3 DEF TypeOK, ReadyType, ChildType
  <2>5. FreshOK'
    BY <1>4 DEF FreshOK
  <2> QED BY <1>4, <2>1, <2>2, <2>3, <2>4, <2>5
<1>5. CASE cl.transport = "http"
  <2>1. cl' = [c EXCEPT !.st = "freed"]
    BY <1>0, <1>1, <1>5 DEF mcp_client_free_now
  <2>2. /\ cl' \in Client /\ cl'.st = "freed" /\ cl'.transport = cl.transport /\ cl'.dead = cl.dead
        /\ cl'.spawned = cl.spawned /\ cl'.closing = cl.closing /\ cl'.uv = cl.uv
        /\ cl'.discarded = TRUE /\ cl'.tools = FALSE /\ cl'.pending = <<>> /\ cl'.https = <<>>
        /\ cl'.on_ready = FALSE /\ cl'.owns_user = cl.owns_user
    BY <1>1, <2>1 DEF Client
  <2>3. ~cl.spawned /\ ~cl.closing /\ ~cl.dead /\ cl.uv = {} /\ child.reaped
    BY <1>0, <1>5 DEF StageOK, HandlesOK, ChildOK, ChildType
  <2>4. StageOK(cl')
    BY <1>5, <2>2, <2>3 DEF StageOK
  <2>5. ChildOK(cl', child') /\ HandlesOK(cl', child')
    BY <1>3, <2>2, <2>3 DEF ChildOK, HandlesOK
  <2>6. cl'.spawned = FALSE
    BY <1>2, <2>2, <2>3
  <2> QED BY <1>4, <2>2, <2>4, <2>5, <2>6
<1>6. CASE cl.transport = "stdio"
  <2> DEFINE b == c.dead \/ c.spawned
             e == [c EXCEPT !.dead = b]
  <2>0. b \in BOOLEAN
    OBVIOUS
  <2> HIDE DEF b
  <2>1. /\ e \in Client /\ e.st = "live" /\ e.transport = "stdio" /\ e.dead = b
        /\ e.spawned = cl.spawned /\ e.closing = cl.closing /\ e.remaining = cl.remaining
        /\ e.intent = cl.intent /\ e.uv = cl.uv /\ e.discarded = TRUE /\ e.tools = FALSE
        /\ e.pending = <<>> /\ e.https = <<>> /\ e.on_ready = FALSE /\ e.owns_user = cl.owns_user
    BY <1>1, <1>6, <2>0 DEF Client
  <2>2. cl' = mcp_begin_close(e, "free")
    BY <1>0, <1>1, <1>6 DEF b
  <2>3. b <=> cl.dead \/ cl.spawned
    BY <1>1 DEF b
  <2> HIDE DEF e
  <2>4. CASE cl.closing
    <3>1. cl' = [e EXCEPT !.intent = "free"]
      BY <2>1, <2>2, <2>4 DEF mcp_begin_close
    <3>2. /\ cl' \in Client /\ cl'.st = "live" /\ cl'.transport = "stdio" /\ cl'.dead = b
          /\ cl'.spawned = cl.spawned /\ cl'.closing = cl.closing /\ cl'.uv = cl.uv
          /\ cl'.remaining = cl.remaining /\ cl'.intent = "free"
          /\ cl'.discarded = TRUE /\ cl'.tools = FALSE /\ cl'.pending = <<>> /\ cl'.https = <<>>
          /\ cl'.on_ready = FALSE /\ cl'.owns_user = cl.owns_user
      BY <2>1, <3>1 DEF Client
    <3>3. ~cl.spawned
      BY <2>4 DEF StageOK
    <3>4. StageOK(cl')
      BY <3>2, <3>3 DEF StageOK
    <3>5. ChildOK(cl', child')
      BY <1>3, <2>3, <3>2 DEF ChildOK
    <3>6. HandlesOK(cl', child')
      BY <1>3, <3>2 DEF HandlesOK
    <3>7. cl'.spawned = FALSE
      BY <1>2, <3>2, <3>3
    <3> QED BY <1>4, <3>2, <3>4, <3>5, <3>6, <3>7
  <2>5. CASE ~cl.closing /\ ~cl.spawned
    <3>1. cl' = [e EXCEPT !.st = "freed"]
      BY <2>1, <2>2, <2>5 DEF mcp_begin_close, mcp_client_free_now
    <3>2. /\ cl' \in Client /\ cl'.st = "freed" /\ cl'.transport = "stdio" /\ cl'.dead = b
          /\ cl'.spawned = cl.spawned /\ cl'.closing = cl.closing /\ cl'.uv = cl.uv
          /\ cl'.discarded = TRUE /\ cl'.tools = FALSE /\ cl'.pending = <<>> /\ cl'.https = <<>>
          /\ cl'.on_ready = FALSE /\ cl'.owns_user = cl.owns_user
      BY <2>1, <3>1 DEF Client
    <3>3. cl.uv = {} /\ child.reaped
      BY <1>0, <2>5 DEF HandlesOK, ChildOK, ChildType
    <3>4. StageOK(cl')
      BY <2>5, <3>2 DEF StageOK
    <3>5. ChildOK(cl', child') /\ HandlesOK(cl', child')
      BY <1>3, <2>5, <3>2, <3>3 DEF ChildOK, HandlesOK
    <3>6. cl'.spawned = FALSE
      BY <1>2, <2>5, <3>2
    <3> QED BY <1>4, <3>2, <3>4, <3>5, <3>6
  <2>6. CASE cl.spawned
    <3>0. ~cl.closing /\ cl.uv = {} /\ ~child.reaped
      BY <2>6, SpawnedFacts
    <3>1. cl' = [e EXCEPT !.closing = TRUE, !.spawned = FALSE, !.intent = "free", !.remaining = 3,
                          !.uv = {"in", "out"}]
      <4>1. e.uv \cup {"in", "out"} = {"in", "out"}
        BY <2>1, <3>0
      <4>2. cl' = [e EXCEPT !.closing = TRUE, !.spawned = FALSE, !.intent = "free", !.remaining = 3,
                            !.uv = e.uv \cup {"in", "out"}]
        BY <2>1, <2>2, <2>6, <3>0 DEF mcp_begin_close
      <4> QED BY <4>1, <4>2
    <3>2. cl' \in Client
      <4> DEFINE g == [e EXCEPT !.closing = TRUE, !.spawned = FALSE]
                 u == {"in", "out"}
      <4>1. g \in Client
        BY <2>1 DEF Client
      <4>2. cl' = [g EXCEPT !.intent = "free", !.remaining = 3, !.uv = u]
        BY <3>1
      <4>3. u \in SUBSET Handles
        BY DEF Handles
      <4> HIDE DEF g, u
      <4> QED BY <4>1, <4>2, <4>3 DEF Client
    <3>3. /\ cl'.st = "live" /\ cl'.transport = "stdio" /\ cl'.dead = b
          /\ cl'.spawned = FALSE /\ cl'.closing = TRUE /\ cl'.uv = {"in", "out"}
          /\ cl'.remaining = 3 /\ cl'.intent = "free"
          /\ cl'.discarded = TRUE /\ cl'.tools = FALSE /\ cl'.pending = <<>> /\ cl'.https = <<>>
          /\ cl'.on_ready = FALSE /\ cl'.owns_user = cl.owns_user
      BY <2>1, <3>1 DEF Client
    <3>4. StageOK(cl')
      BY <3>3 DEF StageOK
    <3>5. ChildOK(cl', child')
      BY <1>3, <2>3, <2>6, <3>0, <3>3 DEF ChildOK
    <3>6. HandlesOK(cl', child')
      <4>1. /\ One("in" \in cl'.uv) = 1 /\ One("out" \in cl'.uv) = 1
            /\ One("proc" \in cl'.uv \/ ~child'.reaped) = 1
        BY <1>3, <3>0, <3>3 DEF One
      <4> QED BY <3>3, <4>1 DEF HandlesOK
    <3> QED BY <1>4, <3>2, <3>3, <3>4, <3>5, <3>6
  <2> QED BY <1>2, <2>4, <2>5, <2>6
<1> QED BY <1>2, <1>5, <1>6

-----------------------------------------------------------------------------
(* The theorems.                                                           *)

LEMMA InitInv == Init => IInv
<1> SUFFICES ASSUME Init PROVE IInv
  OBVIOUS
<1>1. PICK t \in {"stdio", "http"} :
          cl = [st |-> "none", transport |-> t, dead |-> FALSE, spawned |-> FALSE,
                closing |-> FALSE, remaining |-> 0, intent |-> "idle",
                uv |-> {}, discarded |-> FALSE, tokens |-> Burst, next_id |-> 1,
                pending |-> <<>>, https |-> <<>>, tools |-> FALSE,
                on_ready |-> TRUE, owns_user |-> TRUE]
  BY DEF Init
<1>2. /\ cl.st = "none" /\ cl.transport = t /\ cl.dead = FALSE /\ cl.spawned = FALSE /\ cl.closing = FALSE
      /\ cl.uv = {} /\ cl.discarded = FALSE /\ cl.pending = <<>> /\ cl.https = <<>> /\ cl.tools = FALSE
      /\ cl.on_ready = TRUE /\ cl.owns_user = TRUE
  BY <1>1
<1>3. cl \in Client
  BY <1>1, McpAssumption, EmptyList DEF Client
<1>4. TypeOK
  <2>1. calls \in [Calls -> Call]
    BY DEF Init, Call
  <2>2. ready \in [settled : BOOLEAN, waiting : Int, frees : Nat, late : BOOLEAN]
    BY DEF Init
  <2>3. /\ child \in [st : {"none", "running", "exited"}, out : BOOLEAN, reaped : BOOLEAN, killed : BOOLEAN]
        /\ work \in SUBSET Entry /\ lines \in Seq(Reply)
    BY EmptySeq DEF Init
  <2> QED BY <1>3, <2>1, <2>2, <2>3 DEF TypeOK
<1>5. StageOK(cl)
  BY <1>2 DEF StageOK
<1>6. ChildOK(cl, child) /\ HandlesOK(cl, child)
  BY <1>2 DEF Init, ChildOK, HandlesOK
<1>7. QueuesOK(cl) /\ Listed(cl) = {}
  BY <1>2, EmptyQueues
<1>8. ReadyOK(cl, ready)
  BY <1>2 DEF Init, ReadyOK, One
<1>9. CallsOK(cl, calls)
  BY <1>7 DEF Init, CallsOK, One
<1>10. IdsOK(cl, work, lines) /\ FreshOK
  BY <1>2, NotRunning DEF Init, FreshOK
<1> QED BY <1>4, <1>5, <1>6, <1>7, <1>8, <1>9, <1>10 DEF IInv

LEMMA NextInv == IInv /\ [Next]_vars => IInv'
<1> SUFFICES ASSUME IInv, [Next]_vars PROVE IInv'
  OBVIOUS
<1>1. CASE UNCHANGED vars
  BY <1>1 DEF vars, IInv, TypeOK, FreshOK
<1>2. CASE Connect \/ ConnectFails \/ mcp_stdio_read_eof \/ mcp_on_exit \/ mcp_process_line
           \/ clm_mcp_client_free
  BY <1>2, ConnectInv, ConnectFailsInv, EofInv, ExitInv, LineInv, FreeInv
<1>3. CASE Refill \/ ServerClosesOutput \/ ServerExits \/ \E e \in work : ServerReplies(e)
  BY <1>3, RefillInv, ServerInv
<1>4. ASSUME NEW h \in {"in", "out", "proc"}, mcp_handle_closed(h) PROVE IInv'
  BY <1>4, HandleClosedInv DEF Handles
<1>5. ASSUME NEW i \in DOMAIN cl.https, NEW ok \in BOOLEAN, mcp_http_done(i, ok) PROVE IInv'
  BY <1>5, HttpDoneInv
<1>6. ASSUME NEW k \in Calls, mcp_tool_invoke(k) \/ mcp_cancel(k) PROVE IInv'
  BY <1>6, InvokeInv, CancelInv
<1> QED BY <1>1, <1>2, <1>3, <1>4, <1>5, <1>6 DEF Next

\* A call is never answered with the reply to another one, although ids start
\* again at 1 with each server and late replies to cancelled calls come in.
THEOREM RepliesMatch == Spec => []ReplyMatches
<1>1. IInv => ReplyMatches
  BY DEF IInv, CallsOK, ReplyMatches
<1> QED BY <1>1, InitInv, NextInv, PTL DEF Spec

\* A client that fails to start, dies, is replaced or is closed leaves no call
\* without an answer to come, no handle or process that calls into freed
\* memory, and no owner waiting for a connection that already failed.
THEOREM NothingEverDangles == Spec => []NothingDangles
<1>1. IInv => NothingDangles
  <2> SUFFICES ASSUME IInv PROVE NothingDangles
    OBVIOUS
  <2> USE DEF IInv
  <2>1. CallsTracked
    BY DEF CallsTracked, CallsOK, Listed, QueuesOK
  <2>2. NothingAfterFree
    <3> SUFFICES ASSUME cl.st = "freed" PROVE cl.uv = {} /\ child.reaped /\ cl.https = <<>>
      BY DEF NothingAfterFree
    <3>1. ~cl.spawned /\ ~cl.closing /\ cl.discarded /\ child.reaped \in BOOLEAN
      BY DEF StageOK, TypeOK
    <3> QED BY <3>1 DEF HandlesOK, ChildOK, QueuesOK
  <2>3. ReadyOnce
    <3>1. ready.frees \in Nat /\ ready.frees <= 1 /\ (cl.st = "freed" => ready.frees = 1)
      BY DEF ReadyOK, One
    <3>2. ready.waiting = IF cl.st = "live" /\ cl.owns_user /\ ~ready.settled THEN 1 ELSE 0
      BY DEF ReadyOK, One
    <3> QED BY <3>1, <3>2 DEF ReadyOnce, ReadyOK
  <2> QED BY <2>1, <2>2, <2>3 DEF NothingDangles
<1> QED BY <1>1, InitInv, NextInv, PTL DEF Spec

-----------------------------------------------------------------------------
(* The client implements Completions.                                      *)

\* What an invocation is to its owner.
Life(c) == CASE c.st = "open" -> "open" [] c.st = "done" -> "settled" [] OTHER -> "idle"

LEMMA PromiseVars ==
    /\ Promise!Init <=> /\ [k \in Calls |-> Life(calls[k])] = [k \in Calls |-> "idle"]
                        /\ [k \in Calls |-> calls[k].answers] = [k \in Calls |-> 0]
    /\ UNCHANGED calls => UNCHANGED Promise!vars
BY DEF Promise!Init, Promise!vars, Life

\* The one callback of each call of K.
LEMMA ReportSettles ==
    ASSUME IInv, NEW K, K \in SUBSET Calls, K \subseteq Listed(cl), NEW by, calls' = Report(K, by)
    PROVE  Promise!Next
<1>1. ASSUME NEW k \in Calls, k \in K
      PROVE  calls[k].st = "open" /\ calls'[k].st = "done" /\ calls'[k].answers = calls[k].answers + 1
  <2>1. calls'[k] = [st |-> "done", answers |-> calls[k].answers + 1, by |-> by]
    BY <1>1 DEF Report
  <2>2. calls[k].st = "open"
    BY <1>1 DEF IInv, CallsOK
  <2> QED BY <2>1, <2>2
<1>2. \A k \in Calls : k \notin K => calls'[k] = calls[k]
  BY DEF Report
<1>3. \A k \in K : Life(calls[k]) = "open"
  BY <1>1 DEF Life
<1>4. [k \in Calls |-> Life(calls'[k])] = [k \in Calls |-> IF k \in K THEN "settled" ELSE Life(calls[k])]
  <2>1. ASSUME NEW k \in Calls
        PROVE  Life(calls'[k]) = IF k \in K THEN "settled" ELSE Life(calls[k])
    <3>1. CASE k \in K
      <4>1. calls'[k].st = "done"
        BY <1>1, <3>1
      <4> QED BY <3>1, <4>1 DEF Life
    <3>2. CASE k \notin K
      BY <1>2, <3>2
    <3> QED BY <3>1, <3>2
  <2> QED BY <2>1
<1>5. [k \in Calls |-> calls'[k].answers]
        = [k \in Calls |-> IF k \in K THEN calls[k].answers + 1 ELSE calls[k].answers]
  BY <1>1, <1>2
<1>6. Promise!Settle(K)
  BY <1>3, <1>4, <1>5 DEF Promise!Settle, Life
<1> QED BY <1>6 DEF Promise!Next

LEMMA HandleRefines ==
    ASSUME IInv, NEW c, NEW e \in Entry, NEW reply, Handle(c, e, reply),
           e.kind = "call" => e.call \in Listed(cl)
    PROVE  Promise!Next \/ UNCHANGED Promise!vars
<1>1. UNCHANGED calls \/ (e.kind = "call" /\ calls' = Report({e.call}, reply.to))
  BY DEF Handle
<1>2. CASE UNCHANGED calls
  BY <1>2, PromiseVars
<1>3. CASE e.kind = "call" /\ calls' = Report({e.call}, reply.to)
  <2>1. {e.call} \in SUBSET Calls /\ {e.call} \subseteq Listed(cl)
    BY <1>3, ListedFacts DEF IInv, TypeOK
  <2> QED BY <1>3, <2>1, ReportSettles
<1> QED BY <1>1, <1>2, <1>3

LEMMA InvokeRefines ==
    ASSUME IInv, NEW k \in Calls, mcp_tool_invoke(k)
    PROVE  Promise!Next \/ UNCHANGED Promise!vars
<1>1. calls \in [Calls -> Call] /\ calls[k].st = "idle"
  BY DEF IInv, TypeOK, mcp_tool_invoke
<1>2. ASSUME NEW st, calls' = [calls EXCEPT ![k].st = st]
      PROVE  /\ calls'[k].st = st /\ \A j \in Calls : j # k => calls'[j] = calls[j]
             /\ [j \in Calls |-> calls'[j].answers] = [j \in Calls |-> calls[j].answers]
  BY <1>1, <1>2 DEF Call
<1>3. CASE calls' = [calls EXCEPT ![k].st = "open"]
  <2>1. Life(calls[k]) = "idle" /\ Life(calls'[k]) = "open"
    BY <1>1, <1>2, <1>3 DEF Life
  <2>2. [j \in Calls |-> Life(calls'[j])] = [[j \in Calls |-> Life(calls[j])] EXCEPT ![k] = "open"]
    <3>1. \A j \in Calls : Life(calls'[j]) = IF j = k THEN "open" ELSE Life(calls[j])
      BY <1>2, <1>3, <2>1
    <3> QED BY <3>1
  <2>3. \A j \in Calls : Life(calls[j]) # "dropped"
    BY DEF Life
  <2>4. Promise!Accept(k)
    BY <1>2, <1>3, <2>1, <2>2, <2>3 DEF Promise!Accept, Life
  <2> QED BY <2>4 DEF Promise!Next
<1>4. CASE calls' = [calls EXCEPT ![k].st = "failed"]
  <2>1. Life(calls[k]) = "idle" /\ Life(calls'[k]) = "idle"
    BY <1>1, <1>2, <1>4 DEF Life
  <2>2. [j \in Calls |-> Life(calls'[j])] = [j \in Calls |-> Life(calls[j])]
    BY <1>2, <1>4, <2>1
  <2> QED BY <1>2, <1>4, <2>2 DEF Promise!vars, Life
<1> QED BY <1>3, <1>4 DEF mcp_tool_invoke

LEMMA NextRefines ==
    ASSUME IInv, [Next]_vars
    PROVE  Promise!Next \/ UNCHANGED Promise!vars
<1>0. /\ cl \in Client /\ cl.pending \in Seq(Entry) /\ cl.https \in Seq(Entry)
      /\ Listed(cl) \in SUBSET Calls /\ QueuesOK(cl)
  <2>1. cl \in Client /\ QueuesOK(cl)
    BY DEF IInv, TypeOK
  <2> QED BY <2>1, ListedFacts DEF Client
<1>1. CASE UNCHANGED calls
  BY <1>1, PromiseVars
<1>2. CASE mcp_go_dead
  <2> DEFINE K == CallsOf(cl.pending) \ CallsOf(GoDead(cl).pending)
  <2>1. UNCHANGED calls \/ calls' = Report(K, "client")
    BY <1>2 DEF mcp_go_dead
  <2>2. K \in SUBSET Calls /\ K \subseteq Listed(cl)
    BY <1>0, ListFacts DEF Listed
  <2> HIDE DEF K
  <2> QED BY <1>1, <2>1, <2>2, ReportSettles
<1>3. CASE mcp_process_line
  <2> DEFINE i == mcp_pending_take(cl.pending, Head(lines).id)
             e == cl.pending[i]
  <2>1. UNCHANGED calls \/ (i # 0 /\ Handle([cl EXCEPT !.pending = RemoveAt(@, i)], e, Head(lines)))
    BY <1>3 DEF mcp_process_line
  <2>2. CASE i # 0 /\ Handle([cl EXCEPT !.pending = RemoveAt(@, i)], e, Head(lines))
    <3>1. i \in 1 .. Len(cl.pending)
      BY <1>0, <2>2, TakenPlace
    <3>2. e \in Entry /\ (e.kind = "call" => e.call \in CallsOf(cl.pending))
      BY <1>0, <3>1, ListFacts, CallsMember DEF QueuesOK, ListOK
    <3> HIDE DEF i, e
    <3> QED BY <2>2, <3>2, HandleRefines DEF Listed
  <2> QED BY <1>1, <2>1, <2>2
<1>4. ASSUME NEW i \in DOMAIN cl.https, NEW ok \in BOOLEAN, mcp_http_done(i, ok)
      PROVE  Promise!Next \/ UNCHANGED Promise!vars
  <2> DEFINE e == cl.https[i]
  <2>1. Handle([cl EXCEPT !.https = RemoveAt(@, i)], e, [ok |-> ok, to |-> e.call])
    BY <1>4 DEF mcp_http_done
  <2>2. i \in 1 .. Len(cl.https)
    BY <1>0, ListFacts
  <2>3. e \in Entry /\ (e.kind = "call" => e.call \in CallsOf(cl.https))
    BY <1>0, <2>2, ListFacts, CallsMember DEF QueuesOK, ListOK
  <2> HIDE DEF e
  <2> QED BY <2>1, <2>3, HandleRefines DEF Listed
<1>5. ASSUME NEW k \in Calls, mcp_cancel(k)
      PROVE  Promise!Next
  <2>1. calls[k].st = "open" /\ calls' = Report({k}, "client")
    BY <1>5 DEF mcp_cancel
  <2>2. {k} \in SUBSET Calls /\ {k} \subseteq Listed(cl)
    BY <2>1 DEF IInv, CallsOK
  <2> QED BY <2>1, <2>2, ReportSettles
<1>6. CASE clm_mcp_client_free
  <2>1. calls' = Report(Listed(cl), "client")
    BY <1>6 DEF clm_mcp_client_free, Listed
  <2> QED BY <1>0, <2>1, ReportSettles
<1>7. CASE UNCHANGED vars
  BY <1>1, <1>7 DEF vars
<1>8. CASE Connect \/ ConnectFails \/ Refill \/ ServerClosesOutput \/ ServerExits
           \/ \E e \in work : ServerReplies(e)
  BY <1>1, <1>8 DEF Connect, ConnectFails, Refill, ServerClosesOutput, ServerExits, ServerReplies
<1>9. ASSUME NEW h \in {"in", "out", "proc"}, mcp_handle_closed(h)
      PROVE  UNCHANGED calls
  BY <1>9 DEF mcp_handle_closed
<1>10. CASE mcp_stdio_read_eof \/ mcp_on_exit
  BY <1>2, <1>10 DEF mcp_stdio_read_eof, mcp_on_exit
<1>11. ASSUME NEW k \in Calls, mcp_tool_invoke(k)
       PROVE  Promise!Next \/ UNCHANGED Promise!vars
  BY <1>11, InvokeRefines
<1> QED BY <1>1, <1>3, <1>4, <1>5, <1>6, <1>7, <1>8, <1>9, <1>10, <1>11 DEF Next

\* Every invocation that reached the connection is completed by exactly one
\* result, whichever of its reply, its cancel, the server's death and the
\* client's release comes first, for any number of calls and restarts.
THEOREM CallsCompletedOnce == Spec => OneResult
<1>1. Init => Promise!Init
  <2> SUFFICES ASSUME Init PROVE Promise!Init
    OBVIOUS
  <2>1. \A k \in Calls : calls[k].st = "idle" /\ calls[k].answers = 0
    BY DEF Init
  <2>2. \A k \in Calls : Life(calls[k]) = "idle"
    BY <2>1 DEF Life
  <2> QED BY <2>1, <2>2, PromiseVars
<1>2. IInv /\ [Next]_vars => [Promise!Next]_(Promise!vars)
  BY NextRefines
<1> QED BY <1>1, <1>2, InitInv, NextInv, PTL DEF Spec, OneResult, Promise!Spec
=============================================================================
