----------------------------- MODULE Peer_proofs -----------------------------
(***************************************************************************)
(* What a sender is told of its message is true: proved of Peer for every  *)
(* set of processes, ids and messages.                                     *)
(***************************************************************************)
EXTENDS Peer, SequenceTheorems, TLAPS

Answers == {"none", "yes", "no", "eof", "freed"}

Message == [told : {"none", "failed", "refused", "delivered"},
            via : Answers \cup {"nomatch", "connect"}, got : Nat, answer : Answers]

Unsent == [told |-> "none", via |-> "none", got |-> 0, answer |-> "none"]

\* The tool call a process is in, as far as its message goes.
Resting == {"idle", "bind", "listen"}
Looking == {"probe", "reap_sock", "reap_meta", "connect"}

Process == [st : {"off", "bound", "up"}, id : Ids \cup {None},
            pc : Resting \cup Looking \cup {"ack"}, todo : SUBSET Ids, at : Ids \cup {None},
            want : SUBSET Ids, hits : SUBSET Ids, m : Msgs \cup {None}]

TypeOK ==
    /\ pr \in [Procs -> Process]
    /\ backlog \in [Procs -> Seq(Msgs \cup {Probe})]
    /\ conns \in [Procs -> SUBSET Msgs]
    /\ msg \in [Msgs -> Message]
    /\ used \in [binds : Nat, rare : Nat, sent : SUBSET Msgs]

\* m waits in p's queue at place k, or, at place 0, on an accepted connection.
At(m, p, k) ==
    \/ k = 0 /\ m \in conns[p]
    \/ k \in DOMAIN backlog[p] /\ backlog[p][k] = m

Nowhere(m) == \A p \in Procs, k \in Nat : ~At(m, p, k)

\* A message is written at most once.
Once(m) ==
    \A p, q \in Procs, k, l \in Nat : At(m, p, k) /\ At(m, q, l) => p = q /\ k = l

\* A message has one sender at a time, which has not been told anything, and
\* is nowhere before send_line.
SenderOK(m) ==
    /\ m \notin used.sent => msg[m] = Unsent /\ Nowhere(m) /\ \A p \in Procs : pr[p].m # m
    /\ \A p, q \in Procs : pr[p].m = m /\ pr[q].m = m => p = q
    /\ \A p \in Procs : pr[p].m = m =>
        /\ msg[m].told = "none" /\ msg[m].via = "none"
        /\ pr[p].pc \in Looking => msg[m] = Unsent /\ Nowhere(m)

\* A line that waits was not answered; the answer says whether it reached the
\* agent, and what the sender was told follows from the answer.
AnswerOK(m) ==
    /\ msg[m].answer = "none" => msg[m].got = 0
    /\ msg[m].answer # "none" => Nowhere(m)
    /\ msg[m].answer = "yes" => msg[m].got = 1
    /\ msg[m].answer # "yes" => msg[m].got = 0
    /\ msg[m].told = "refused" => msg[m].answer = "no"
    /\ msg[m].told = "failed" => msg[m].answer = "none" /\ Nowhere(m)
    /\ msg[m].via = "yes" => msg[m].answer = "yes"

\* The place of a process in its tool call.
PlaceOK ==
    \A p \in Procs :
        /\ pr[p].pc \in Resting => pr[p].m = None
        /\ pr[p].pc \in {"connect", "ack"} => pr[p].m # None

MsgOK(m) == Once(m) /\ SenderOK(m) /\ AnswerOK(m)

IInv == TypeOK /\ PlaceOK /\ \A m \in Msgs : MsgOK(m)

-----------------------------------------------------------------------------
(* Where a message is.                                                     *)

LEMMA PlaceFacts ==
    ASSUME TypeOK, NEW p \in Procs
    PROVE  /\ backlog[p] \in Seq(Msgs \cup {Probe}) /\ Len(backlog[p]) \in Nat
           /\ DOMAIN backlog[p] = 1 .. Len(backlog[p])
           /\ conns[p] \in SUBSET Msgs
BY LenProperties DEF TypeOK

LEMMA QueuedPlace ==
    ASSUME TypeOK, NEW p \in Procs, NEW m \in Msgs
    PROVE  /\ m \in Queued(p) <=> \E k \in Nat \ {0} : At(m, p, k)
           /\ m \in conns[p] <=> At(m, p, 0)
BY PlaceFacts DEF Queued, At

LEMMA PlaceBounds ==
    ASSUME TypeOK, NEW p \in Procs, NEW m \in Msgs, NEW k \in Nat, At(m, p, k)
    PROVE  k \in 0 .. Len(backlog[p])
BY PlaceFacts DEF At

\* on_connection, peer_alive and send_line touch one queue only.
LEMMA AppendPlaces ==
    ASSUME TypeOK, NEW q \in Procs, NEW x \in Msgs \cup {Probe},
           backlog' = [backlog EXCEPT ![q] = Append(@, x)], conns' = conns
    PROVE  \A m \in Msgs, p \in Procs, k \in Nat :
                At(m, p, k)' <=> At(m, p, k) \/ (m = x /\ p = q /\ k = Len(backlog[q]) + 1)
<1> TAKE m \in Msgs, p \in Procs, k \in Nat
<1>1. CASE p # q
  <2>1. backlog'[p] = backlog[p]
    BY <1>1 DEF TypeOK
  <2> QED BY <1>1, <2>1 DEF At
<1>2. CASE p = q
  <2>1. backlog'[q] = Append(backlog[q], x)
    BY DEF TypeOK
  <2>2. /\ Len(backlog'[q]) = Len(backlog[q]) + 1
        /\ \A i \in 1 .. Len(backlog[q]) : backlog'[q][i] = backlog[q][i]
        /\ backlog'[q][Len(backlog[q]) + 1] = x
        /\ DOMAIN backlog'[q] = 1 .. Len(backlog[q]) + 1
    BY <2>1, PlaceFacts, AppendProperties
  <2>3. Len(backlog[q]) \in Nat /\ DOMAIN backlog[q] = 1 .. Len(backlog[q])
    BY PlaceFacts
  <2> DEFINE n == Len(backlog[q])
  <2>4. k \in 1 .. n + 1 <=> k \in 1 .. n \/ k = n + 1
    BY <2>3
  <2> QED BY <1>2, <2>2, <2>3, <2>4 DEF At
<1> QED BY <1>1, <1>2

LEMMA TailPlaces ==
    ASSUME TypeOK, NEW q \in Procs, backlog[q] # << >>,
           backlog' = [backlog EXCEPT ![q] = Tail(@)],
           conns' = IF Head(backlog[q]) = Probe THEN conns
                    ELSE [conns EXCEPT ![q] = @ \cup {Head(backlog[q])}]
    PROVE  \A m \in Msgs, p \in Procs, k \in Nat :
                At(m, p, k)' <=> \/ k = 0 /\ At(m, p, 0)
                                 \/ k # 0 /\ p # q /\ At(m, p, k)
                                 \/ k # 0 /\ p = q /\ At(m, q, k + 1)
                                 \/ k = 0 /\ p = q /\ At(m, q, 1)
<1> TAKE m \in Msgs, p \in Procs, k \in Nat
<1>1. CASE p # q
  <2>1. backlog'[p] = backlog[p] /\ conns'[p] = conns[p]
    BY <1>1 DEF TypeOK
  <2> QED BY <1>1, <2>1, PlaceFacts DEF At
<1>2. CASE p = q
  <2>0. /\ backlog[q] \in Seq(Msgs \cup {Probe}) /\ Len(backlog[q]) \in Nat
        /\ DOMAIN backlog[q] = 1 .. Len(backlog[q]) /\ Len(backlog[q]) # 0
    BY PlaceFacts, EmptySeq
  <2>1. backlog'[q] = Tail(backlog[q])
    BY DEF TypeOK
  <2>2. /\ DOMAIN backlog'[q] = 1 .. Len(backlog[q]) - 1
        /\ \A i \in 1 .. Len(backlog[q]) - 1 : backlog'[q][i] = backlog[q][i + 1]
        /\ Head(backlog[q]) = backlog[q][1]
    <3>1. Len(backlog'[q]) = Len(backlog[q]) - 1 /\ backlog'[q] \in Seq(Msgs \cup {Probe})
      BY <2>0, <2>1, HeadTailProperties
    <3>2. \A i \in 1 .. Len(backlog[q]) - 1 : backlog'[q][i] = backlog[q][i + 1]
      BY <2>0, <2>1, <3>1, HeadTailProperties
    <3>3. DOMAIN backlog'[q] = 1 .. Len(backlog[q]) - 1
      BY <3>1, LenProperties
    <3>4. Head(backlog[q]) = backlog[q][1]
      BY <2>0
    <3> QED BY <3>2, <3>3, <3>4
  <2>3. m \in conns'[q] <=> m \in conns[q] \/ m = backlog[q][1]
    BY <2>2, PeerAssumption DEF TypeOK
  <2>4. k # 0 => (k \in DOMAIN backlog'[q] <=> k + 1 \in DOMAIN backlog[q])
    BY <2>0, <2>2
  <2>5. k # 0 /\ k \in DOMAIN backlog'[q] => backlog'[q][k] = backlog[q][k + 1]
    BY <2>0, <2>2
  <2>6. 1 \in DOMAIN backlog[q] /\ 0 \notin DOMAIN backlog[q] /\ 0 \notin DOMAIN backlog'[q]
    BY <2>0, <2>2
  <2> QED BY <1>2, <2>3, <2>4, <2>5, <2>6 DEF At
<1> QED BY <1>1, <1>2

\* The queue of q is dropped, with the accepted connections or without.
LEMMA DropPlaces ==
    ASSUME TypeOK, NEW q \in Procs, backlog' = [backlog EXCEPT ![q] = << >>],
           conns' = conns \/ conns' = [conns EXCEPT ![q] = {}]
    PROVE  \A m \in Msgs, p \in Procs, k \in Nat :
                At(m, p, k)' => At(m, p, k) /\ (p = q => k = 0 /\ conns' = conns)
<1> SUFFICES ASSUME NEW m \in Msgs, NEW p \in Procs, NEW k \in Nat, At(m, p, k)'
             PROVE  At(m, p, k) /\ (p = q => k = 0 /\ conns' = conns)
  OBVIOUS
<1>1. CASE p # q
  <2>1. backlog'[p] = backlog[p] /\ conns'[p] = conns[p]
    BY <1>1 DEF TypeOK
  <2> QED BY <1>1, <2>1 DEF At
<1>2. CASE p = q
  <2>1. backlog'[q] = << >> /\ DOMAIN backlog'[q] = {}
    BY DEF TypeOK
  <2>2. k = 0 /\ m \in conns'[q]
    BY <1>2, <2>1 DEF At
  <2>3. conns' = conns
    BY <2>2 DEF TypeOK
  <2> QED BY <1>2, <2>2, <2>3 DEF At
<1> QED BY <1>1, <1>2

-----------------------------------------------------------------------------
(* Messages that a step leaves alone.                                      *)

\* No process takes m up, and none that wrote it goes back to looking.
Senders(m) ==
    \A p \in Procs : pr'[p].m = m =>
        pr[p].m = m /\ (pr'[p].pc \in Looking => pr[p].pc \in Looking)

LEMMA Untouched ==
    ASSUME NEW m \in Msgs, MsgOK(m), msg'[m] = msg[m], Senders(m),
           m \in used'.sent <=> m \in used.sent, Once(m)', Nowhere(m) => Nowhere(m)'
    PROVE  MsgOK(m)'
<1>1. SenderOK(m)'
  BY DEF MsgOK, SenderOK, Senders
<1>2. AnswerOK(m)'
  BY DEF MsgOK, AnswerOK
<1> QED BY <1>1, <1>2 DEF MsgOK

LEMMA SamePlaces ==
    ASSUME NEW m \in Msgs, Once(m), UNCHANGED <<backlog, conns>>
    PROVE  Once(m)' /\ (Nowhere(m) <=> Nowhere(m)')
BY DEF Once, Nowhere, At

LEMMA FewerPlaces ==
    ASSUME NEW m \in Msgs, Once(m), \A p \in Procs, k \in Nat : At(m, p, k)' => At(m, p, k)
    PROVE  Once(m)' /\ (Nowhere(m) => Nowhere(m)')
BY DEF Once, Nowhere

\* A step of tool calls and names only.
LEMMA QuietStep ==
    ASSUME IInv, TypeOK', PlaceOK', UNCHANGED <<backlog, conns, msg>>, used'.sent = used.sent,
           \A m \in Msgs : Senders(m)
    PROVE  IInv'
<1> SUFFICES ASSUME NEW m \in Msgs PROVE MsgOK(m)'
  BY DEF IInv
<1>1. Once(m)' /\ (Nowhere(m) <=> Nowhere(m)')
  BY SamePlaces DEF IInv, MsgOK
<1> QED BY <1>1, Untouched DEF IInv

\* A connection is added to q's queue that carries no message.
LEMMA ProbeStep ==
    ASSUME IInv, TypeOK', PlaceOK', NEW q \in Procs,
           backlog' = [backlog EXCEPT ![q] = Append(@, Probe)],
           UNCHANGED <<conns, msg>>, used'.sent = used.sent, \A m \in Msgs : Senders(m)
    PROVE  IInv'
<1> SUFFICES ASSUME NEW m \in Msgs PROVE MsgOK(m)'
  BY DEF IInv
<1>1. \A p \in Procs, k \in Nat : At(m, p, k)' => At(m, p, k)
  BY AppendPlaces, PeerAssumption DEF IInv
<1>2. Once(m)' /\ (Nowhere(m) => Nowhere(m)')
  BY <1>1, FewerPlaces DEF IInv, MsgOK
<1> QED BY <1>2, Untouched DEF IInv

\* The messages D that q holds are dropped, and their senders see the end.
LEMMA DropStep ==
    ASSUME IInv, TypeOK', PlaceOK', NEW q \in Procs, NEW D,
           backlog' = [backlog EXCEPT ![q] = << >>],
           \/ conns' = conns /\ D = Queued(q)
           \/ conns' = [conns EXCEPT ![q] = {}] /\ D = Queued(q) \cup conns[q],
           msg' = Dropped(D), used'.sent = used.sent, \A m \in Msgs : Senders(m)
    PROVE  IInv'
<1> SUFFICES ASSUME NEW m \in Msgs PROVE MsgOK(m)'
  BY DEF IInv
<1> USE DEF IInv
<1>1. \A p \in Procs, k \in Nat :
          At(m, p, k)' => At(m, p, k) /\ (p = q => k = 0 /\ conns' = conns)
  BY DropPlaces
<1>2. Once(m)' /\ (Nowhere(m) => Nowhere(m)')
  BY <1>1, FewerPlaces DEF MsgOK
<1>3. CASE m \in D
  <2>1. PICK j \in Nat : At(m, q, j) /\ (j = 0 => conns' # conns)
    <3>1. CASE m \in Queued(q)
      BY <3>1, QueuedPlace
    <3>2. CASE m \notin Queued(q)
      <4>1. conns' = [conns EXCEPT ![q] = {}] /\ m \in conns[q]
        BY <1>3, <3>2
      <4>2. At(m, q, 0) /\ conns' # conns
        BY <4>1, QueuedPlace DEF TypeOK
      <4> QED BY <4>2
    <3> QED BY <3>1, <3>2
  <2>2. Nowhere(m)'
    <3> SUFFICES ASSUME NEW p \in Procs, NEW k \in Nat, At(m, p, k)' PROVE FALSE
      BY DEF Nowhere
    <3>1. p = q /\ k = j
      BY <1>1, <2>1 DEF MsgOK, Once
    <3> QED BY <1>1, <2>1, <3>1
  <2>3. ~Nowhere(m) /\ msg[m].answer = "none"
    BY <2>1 DEF Nowhere, MsgOK, AnswerOK
  <2>4. msg'[m] = [msg[m] EXCEPT !.answer = "eof"]
    BY <1>3, <2>3 DEF Dropped
  <2>5. /\ msg'[m].answer = "eof" /\ msg'[m].got = msg[m].got /\ msg[m].got = 0
        /\ msg'[m].told = msg[m].told /\ msg'[m].via = msg[m].via
    BY <2>3, <2>4 DEF TypeOK, Message, MsgOK, AnswerOK
  <2>6. AnswerOK(m)'
    BY <2>2, <2>3, <2>5 DEF AnswerOK, MsgOK
  <2>7. SenderOK(m)'
    BY <2>2, <2>3, <2>5 DEF SenderOK, MsgOK, Senders
  <2> QED BY <1>2, <2>6, <2>7 DEF MsgOK
<1>4. CASE m \notin D
  <2>1. msg'[m] = msg[m]
    BY <1>4 DEF Dropped
  <2> QED BY <1>2, <2>1, Untouched
<1> QED BY <1>3, <1>4

-----------------------------------------------------------------------------
(* The actions.                                                            *)

\* The call that a process is in goes on from a to r, with its message or none.
GoesOn(a, r) ==
    /\ r \in Process
    /\ r.m \in {None, a.m}
    /\ r.pc \in Looking /\ r.m # None => a.pc \in Looking
    /\ r.pc \in Resting => r.m = None
    /\ r.pc \in {"connect", "ack"} => r.m # None

MovesOn(p) == \E r : GoesOn(pr[p], r) /\ pr' = [pr EXCEPT ![p] = r]

LEMMA ProcessStep ==
    ASSUME TypeOK, PlaceOK, NEW p \in Procs, MovesOn(p)
    PROVE  pr' \in [Procs -> Process] /\ PlaceOK' /\ \A m \in Msgs : Senders(m)
<1>1. PICK r : GoesOn(pr[p], r) /\ pr' = [pr EXCEPT ![p] = r]
  BY DEF MovesOn
<1>2. pr' \in [Procs -> Process] /\ pr'[p] = r /\ \A q \in Procs \ {p} : pr'[q] = pr[q]
  BY <1>1 DEF TypeOK, GoesOn
<1>3. PlaceOK'
  BY <1>1, <1>2 DEF GoesOn, PlaceOK
<1>4. \A m \in Msgs : Senders(m)
  BY <1>1, <1>2, PeerAssumption DEF GoesOn, Senders
<1> QED BY <1>2, <1>3, <1>4

\* The counters that bound a run go up; no message is sent by that.
LEMMA CountersStep ==
    ASSUME TypeOK, \/ UNCHANGED used
                   \/ used' = [used EXCEPT !.binds = @ + 1]
                   \/ used' = [used EXCEPT !.rare = @ + 1]
                   \/ used' = [used EXCEPT !.rare = @ + 2]
    PROVE  used' \in [binds : Nat, rare : Nat, sent : SUBSET Msgs] /\ used'.sent = used.sent
<1>1. used \in [binds : Nat, rare : Nat, sent : SUBSET Msgs]
  BY DEF TypeOK
<1>2. used.binds + 1 \in Nat /\ used.rare + 1 \in Nat /\ used.rare + 2 \in Nat
  BY <1>1
<1>3. CASE UNCHANGED used
  BY <1>1, <1>3
<1>4. CASE used' = [used EXCEPT !.binds = @ + 1]
  BY <1>1, <1>2, <1>4
<1>5. CASE used' = [used EXCEPT !.rare = @ + 1]
  BY <1>1, <1>2, <1>5
<1>6. CASE used' = [used EXCEPT !.rare = @ + 2]
  BY <1>1, <1>2, <1>6
<1> QED BY <1>3, <1>4, <1>5, <1>6

LEMMA StartInv ==
    ASSUME IInv, NEW p \in Procs, NEW i \in Ids, clm_peer_start(p, i)
    PROVE  IInv'
<1> USE DEF IInv
<1>1. MovesOn(p)
  <2> DEFINE r == [pr[p] EXCEPT !.pc = "bind", !.id = i]
  <2>0. pr[p] \in Process /\ (pr[p].pc \in Resting => pr[p].m = None)
    BY DEF TypeOK, PlaceOK
  <2>1. GoesOn(pr[p], r)
    BY <2>0 DEF clm_peer_start, GoesOn, Process, Looking, Resting
  <2>2. pr' = [pr EXCEPT ![p] = r]
    BY DEF clm_peer_start, TypeOK, Process
  <2> QED BY <2>1, <2>2 DEF MovesOn
<1>2. TypeOK'
  BY <1>1, ProcessStep, CountersStep DEF clm_peer_start, TypeOK
<1> QED BY <1>1, <1>2, ProcessStep, CountersStep, QuietStep DEF clm_peer_start, TypeOK

LEMMA BindInv ==
    ASSUME IInv, NEW p \in Procs, Bind(p)
    PROVE  IInv'
<1> USE DEF IInv
<1>1. MovesOn(p)
  <2>1. CASE sock[pr[p].id] = "none"
    <3> DEFINE r == [pr[p] EXCEPT !.pc = "listen", !.st = "bound"]
    <3>0. pr[p] \in Process /\ (pr[p].pc \in Resting => pr[p].m = None)
      BY DEF TypeOK, PlaceOK
    <3>1. GoesOn(pr[p], r)
      BY <2>1, <3>0 DEF Bind, GoesOn, Process, Looking, Resting
    <3>2. pr' = [pr EXCEPT ![p] = r]
      BY <2>1 DEF Bind, TypeOK, Process
    <3> QED BY <3>1, <3>2 DEF MovesOn
  <2>2. CASE sock[pr[p].id] # "none"
    <3> DEFINE r == Idle
    <3>0. pr[p] \in Process /\ (pr[p].pc \in Resting => pr[p].m = None)
      BY DEF TypeOK, PlaceOK
    <3>1. GoesOn(pr[p], r)
      BY <2>2, <3>0 DEF Bind, GoesOn, Process, Looking, Resting, Idle
    <3>2. pr' = [pr EXCEPT ![p] = r]
      BY <2>2 DEF Bind, TypeOK, Process
    <3> QED BY <3>1, <3>2 DEF MovesOn
  <2> QED BY <2>1, <2>2
<1>2. TypeOK'
  BY <1>1, ProcessStep, CountersStep DEF Bind, TypeOK
<1> QED BY <1>1, <1>2, ProcessStep, CountersStep, QuietStep DEF Bind, TypeOK

LEMMA ListenInv ==
    ASSUME IInv, NEW p \in Procs, Listen(p)
    PROVE  IInv'
<1> USE DEF IInv
<1>1. MovesOn(p)
  <2> DEFINE r == [pr[p] EXCEPT !.pc = "idle", !.st = "up"]
  <2>0. pr[p] \in Process /\ (pr[p].pc \in Resting => pr[p].m = None)
    BY DEF TypeOK, PlaceOK
  <2>1. GoesOn(pr[p], r)
    BY <2>0 DEF Listen, GoesOn, Process, Looking, Resting
  <2>2. pr' = [pr EXCEPT ![p] = r]
    BY DEF Listen, TypeOK, Process
  <2> QED BY <2>1, <2>2 DEF MovesOn
<1>2. TypeOK'
  BY <1>1, ProcessStep, CountersStep DEF Listen, TypeOK
<1> QED BY <1>1, <1>2, ProcessStep, CountersStep, QuietStep DEF Listen, TypeOK

LEMMA ListInv ==
    ASSUME IInv, NEW p \in Procs, List(p)
    PROVE  IInv'
<1> USE DEF IInv
<1>1. MovesOn(p)
  <2> DEFINE r == [pr[p] EXCEPT !.pc = "probe", !.todo = Names(p)]
  <2>0. pr[p] \in Process /\ (pr[p].pc \in Resting => pr[p].m = None)
    BY DEF TypeOK, PlaceOK
  <2>1. GoesOn(pr[p], r)
    BY <2>0 DEF List, Names, GoesOn, Process, Looking, Resting
  <2>2. pr' = [pr EXCEPT ![p] = r]
    BY DEF List, Names, TypeOK, Process
  <2> QED BY <2>1, <2>2 DEF MovesOn
<1>2. TypeOK'
  BY <1>1, ProcessStep, CountersStep DEF List, TypeOK
<1> QED BY <1>1, <1>2, ProcessStep, CountersStep, QuietStep DEF List, TypeOK

LEMMA UnlinkInv ==
    ASSUME IInv, NEW p \in Procs, UnlinkSock(p) \/ UnlinkMeta(p)
    PROVE  IInv'
<1> USE DEF IInv
<1>1. MovesOn(p)
  <2>1. CASE UnlinkSock(p)
    <3> DEFINE r == [pr[p] EXCEPT !.pc = "reap_meta"]
    <3>0. pr[p] \in Process /\ (pr[p].pc \in Resting => pr[p].m = None)
      BY DEF TypeOK, PlaceOK
    <3>1. GoesOn(pr[p], r)
      BY <2>1, <3>0 DEF UnlinkSock, GoesOn, Process, Looking, Resting
    <3>2. pr' = [pr EXCEPT ![p] = r]
      BY <2>1 DEF UnlinkSock, TypeOK, Process
    <3> QED BY <3>1, <3>2 DEF MovesOn
  <2>2. CASE UnlinkMeta(p)
    <3> DEFINE r == [pr[p] EXCEPT !.pc = "probe", !.at = None]
    <3>0. pr[p] \in Process /\ (pr[p].pc \in Resting => pr[p].m = None)
      BY DEF TypeOK, PlaceOK
    <3>1. GoesOn(pr[p], r)
      BY <2>2, <3>0 DEF UnlinkMeta, GoesOn, Process, Looking, Resting
    <3>2. pr' = [pr EXCEPT ![p] = r]
      BY <2>2 DEF UnlinkMeta, TypeOK, Process
    <3> QED BY <3>1, <3>2 DEF MovesOn
  <2> QED BY <2>1, <2>2
<1>2. TypeOK'
  BY <1>1, ProcessStep, CountersStep DEF UnlinkSock, UnlinkMeta, TypeOK
<1> QED BY <1>1, <1>2, ProcessStep, CountersStep, QuietStep DEF UnlinkSock, UnlinkMeta, TypeOK

LEMMA ProbeInv ==
    ASSUME IInv, NEW p \in Procs, NEW i \in Ids, peer_alive(p, i)
    PROVE  IInv'
<1> USE DEF IInv
<1>1. MovesOn(p)
  <2>1. CASE Live(i)
    <3> DEFINE r == [pr[p] EXCEPT !.todo = @ \ {i}, !.hits = @ \cup ({i} \cap pr[p].want)]
    <3>0. pr[p] \in Process /\ (pr[p].pc \in Resting => pr[p].m = None)
      BY DEF TypeOK, PlaceOK
    <3>1. GoesOn(pr[p], r)
      BY <2>1, <3>0 DEF peer_alive, GoesOn, Process, Looking, Resting
    <3>2. pr' = [pr EXCEPT ![p] = r]
      BY <2>1 DEF peer_alive, TypeOK, Process
    <3> QED BY <3>1, <3>2 DEF MovesOn
  <2>2. CASE ~Live(i)
    <3> DEFINE r == [pr[p] EXCEPT !.todo = @ \ {i}, !.at = i, !.pc = "reap_sock"]
    <3>0. pr[p] \in Process /\ (pr[p].pc \in Resting => pr[p].m = None)
      BY DEF TypeOK, PlaceOK
    <3>1. GoesOn(pr[p], r)
      BY <2>2, <3>0 DEF peer_alive, GoesOn, Process, Looking, Resting
    <3>2. pr' = [pr EXCEPT ![p] = r]
      BY <2>2 DEF peer_alive, TypeOK, Process
    <3> QED BY <3>1, <3>2 DEF MovesOn
  <2> QED BY <2>1, <2>2
<1>2. CASE Live(i)
  <2> DEFINE q == sock[i]
  <2>1. q \in Procs /\ backlog' = [backlog EXCEPT ![q] = Append(@, Probe)]
    BY <1>2 DEF peer_alive, Live
  <2>2. TypeOK'
    BY <1>1, <2>1, ProcessStep DEF peer_alive, TypeOK
  <2> QED BY <1>1, <2>1, <2>2, ProcessStep, ProbeStep DEF peer_alive
<1>3. CASE ~Live(i)
  <2>1. TypeOK'
    BY <1>1, <1>3, ProcessStep DEF peer_alive, TypeOK
  <2> QED BY <1>1, <1>3, <2>1, ProcessStep, CountersStep, QuietStep DEF peer_alive
<1> QED BY <1>2, <1>3

LEMMA DroppedType ==
    ASSUME TypeOK, NEW D
    PROVE  Dropped(D) \in [Msgs -> Message]
BY DEF Dropped, TypeOK, Message, Answers

LEMMA FreeInv ==
    ASSUME IInv, NEW p \in Procs,
           clm_peer_free(p) \/ (\E i \in Ids : peer_rebind(p, i)) \/ Crash(p)
    PROVE  IInv'
<1> USE DEF IInv
<1>1. MovesOn(p)
  <2>1. CASE clm_peer_free(p) \/ Crash(p)
    <3> DEFINE r == Idle
    <3>0. pr[p] \in Process /\ (pr[p].pc \in Resting => pr[p].m = None)
      BY DEF TypeOK, PlaceOK
    <3>1. GoesOn(pr[p], r)
      BY <2>1, <3>0 DEF clm_peer_free, Crash, GoesOn, Process, Looking, Resting, Idle
    <3>2. pr' = [pr EXCEPT ![p] = r]
      BY <2>1 DEF clm_peer_free, Crash, TypeOK, Process
    <3> QED BY <3>1, <3>2 DEF MovesOn
  <2>2. ASSUME NEW i \in Ids, peer_rebind(p, i) PROVE MovesOn(p)
    <3> DEFINE r == [Idle EXCEPT !.pc = "bind", !.id = i]
    <3>1. GoesOn(pr[p], r)
      BY DEF GoesOn, Process, Looking, Resting, Idle
    <3>2. pr' = [pr EXCEPT ![p] = r]
      BY <2>2 DEF peer_rebind
    <3> QED BY <3>1, <3>2 DEF MovesOn
  <2> QED BY <2>1, <2>2
<1>2. /\ backlog' = [backlog EXCEPT ![p] = << >>]
      /\ used' \in [binds : Nat, rare : Nat, sent : SUBSET Msgs] /\ used'.sent = used.sent
  BY CountersStep DEF clm_peer_free, peer_rebind, Crash, Release
<1>3. \/ conns' = conns /\ msg' = Dropped(Queued(p))
      \/ conns' = [conns EXCEPT ![p] = {}] /\ msg' = Dropped(Queued(p) \cup conns[p])
  BY DEF clm_peer_free, peer_rebind, Crash, Release
<1>4. TypeOK'
  <2>1. msg' \in [Msgs -> Message]
    BY <1>3, DroppedType
  <2> QED BY <1>1, <1>2, <1>3, <2>1, ProcessStep DEF TypeOK
<1>5. CASE conns' = conns /\ msg' = Dropped(Queued(p))
  BY <1>1, <1>2, <1>4, <1>5, ProcessStep, DropStep
<1>6. CASE conns' = [conns EXCEPT ![p] = {}] /\ msg' = Dropped(Queued(p) \cup conns[p])
  BY <1>1, <1>2, <1>4, <1>6, ProcessStep, DropStep
<1> QED BY <1>3, <1>5, <1>6

LEMMA SetModelInv ==
    ASSUME IInv, NEW p \in Procs, clm_peer_set_model(p)
    PROVE  IInv'
<1> USE DEF IInv
<1>1. UNCHANGED <<pr, backlog, conns, msg, used>>
  BY DEF clm_peer_set_model
<1>2. TypeOK' /\ PlaceOK' /\ \A m \in Msgs : Senders(m)
  BY <1>1 DEF TypeOK, PlaceOK, Senders
<1> QED BY <1>1, <1>2, QuietStep

\* The call of p takes m up.
LEMMA SendInv ==
    ASSUME IInv, NEW p \in Procs, NEW x \in Msgs, NEW W \in SUBSET Ids, send_message(p, x, W)
    PROVE  IInv'
<1> USE DEF IInv
<1> DEFINE r == [pr[p] EXCEPT !.pc = "probe", !.todo = Names(p), !.want = W, !.m = x]
<1>0. pr[p] \in Process
  BY DEF TypeOK
<1>1. r \in Process /\ r.pc = "probe" /\ r.m = x
  BY <1>0 DEF Process, Names, Looking
<1>2. pr' = [pr EXCEPT ![p] = r]
  BY DEF send_message, TypeOK, Process
<1>3. pr' \in [Procs -> Process] /\ pr'[p] = r /\ \A q \in Procs \ {p} : pr'[q] = pr[q]
  BY <1>1, <1>2 DEF TypeOK
<1>4. /\ used' \in [binds : Nat, rare : Nat, sent : SUBSET Msgs]
      /\ used'.sent = used.sent \cup {x} /\ x \notin used.sent
  BY DEF send_message, TypeOK
<1>5. UNCHANGED <<backlog, conns, msg>>
  BY DEF send_message
<1>6. TypeOK'
  BY <1>3, <1>4, <1>5 DEF TypeOK
<1>7. PlaceOK'
  BY <1>1, <1>3 DEF PlaceOK, Resting
<1> HIDE DEF r
<1>8. ASSUME NEW m \in Msgs PROVE MsgOK(m)'
  <2>1. Once(m)' /\ (Nowhere(m) <=> Nowhere(m)')
    BY <1>5, SamePlaces DEF MsgOK
  <2>2. CASE m = x
    <3>1. msg[m] = Unsent /\ Nowhere(m) /\ \A q \in Procs : pr[q].m # m
      BY <1>4, <2>2 DEF MsgOK, SenderOK
    <3>2. msg'[m] = Unsent /\ Nowhere(m)' /\ \A q \in Procs : pr'[q].m = m => q = p
      BY <1>3, <1>5, <2>1, <3>1
    <3>3. SenderOK(m)'
      BY <1>4, <2>2, <3>2 DEF SenderOK, Unsent
    <3>4. AnswerOK(m)'
      BY <3>2 DEF AnswerOK, Unsent
    <3> QED BY <2>1, <3>3, <3>4 DEF MsgOK
  <2>3. CASE m # x
    <3>1. Senders(m)
      BY <1>1, <1>3, <2>3 DEF Senders
    <3> QED BY <1>4, <1>5, <2>1, <2>3, <3>1, Untouched
  <2> QED BY <2>2, <2>3
<1> QED BY <1>6, <1>7, <1>8

\* Rest(p), as a move of the call that p is in.
LEMMA RestMoves ==
    ASSUME TypeOK, NEW p \in Procs, pr' = Rest(p)
    PROVE  MovesOn(p) /\ pr'[p].m = None
<1> DEFINE r == [pr[p] EXCEPT !.pc = "idle", !.todo = {}, !.want = {}, !.hits = {}, !.m = None]
<1>0. pr[p] \in Process
  BY DEF TypeOK
<1>1. GoesOn(pr[p], r) /\ r.m = None
  BY <1>0 DEF GoesOn, Process, Resting, Looking
<1>2. pr' = [pr EXCEPT ![p] = r]
  BY DEF Rest, TypeOK, Process
<1>3. pr'[p] = r
  BY <1>2 DEF TypeOK
<1> QED BY <1>1, <1>2, <1>3 DEF MovesOn

\* The sender of x is told how it went, and its call ends.
LEMMA ToldStep ==
    ASSUME IInv, NEW p \in Procs, NEW x \in Msgs, pr[p].m = x, pr' = Rest(p),
           UNCHANGED <<backlog, conns, used>>,
           NEW what \in {"failed", "refused", "delivered"},
           NEW via \in Answers \cup {"nomatch", "connect"}, msg' = Tell(x, what, via),
           what = "failed" => pr[p].pc \in Looking,
           what = "refused" => msg[x].answer = "no",
           via = "yes" => msg[x].answer = "yes"
    PROVE  IInv'
<1> USE DEF IInv
<1>1. MovesOn(p) /\ pr'[p].m = None
  BY RestMoves
<1>2. pr' \in [Procs -> Process] /\ PlaceOK' /\ \A m \in Msgs : Senders(m)
  BY <1>1, ProcessStep
<1>3. msg[x] \in Message
  BY DEF TypeOK
<1>4. /\ msg'[x].told = what /\ msg'[x].via = via /\ msg'[x].got = msg[x].got
      /\ msg'[x].answer = msg[x].answer
      /\ \A m \in Msgs \ {x} : msg'[m] = msg[m]
  BY <1>3 DEF Tell, TypeOK, Message
<1>5. msg' \in [Msgs -> Message]
  BY <1>3 DEF Tell, TypeOK, Message
<1>6. TypeOK'
  BY <1>2, <1>5 DEF TypeOK
<1>7. ASSUME NEW m \in Msgs PROVE MsgOK(m)'
  <2>1. Once(m)' /\ (Nowhere(m) <=> Nowhere(m)')
    BY SamePlaces DEF MsgOK
  <2>2. CASE m # x
    BY <1>2, <1>4, <2>1, <2>2, Untouched
  <2>3. CASE m = x
    <3>1. \A q \in Procs : pr'[q].m # m
      <4> SUFFICES ASSUME NEW q \in Procs, pr'[q].m = m PROVE FALSE
        OBVIOUS
      <4>1. pr[q].m = m
        BY <1>2 DEF Senders
      <4>2. q = p
        BY <2>3, <4>1 DEF MsgOK, SenderOK
      <4> QED BY <1>1, <4>2, PeerAssumption
    <3>2. m \in used.sent
      BY <2>3 DEF MsgOK, SenderOK
    <3>3. SenderOK(m)'
      BY <3>1, <3>2 DEF SenderOK
    <3>4. what = "failed" => msg[m] = Unsent /\ Nowhere(m)
      BY <2>3 DEF MsgOK, SenderOK
    <3>5. AnswerOK(m)'
      BY <1>4, <2>1, <2>3, <3>4 DEF AnswerOK, MsgOK, Unsent
    <3> QED BY <2>1, <3>3, <3>5 DEF MsgOK
  <2> QED BY <2>2, <2>3
<1> QED BY <1>2, <1>6, <1>7

LEMMA ResolveInv ==
    ASSUME IInv, NEW p \in Procs, resolve_target(p)
    PROVE  IInv'
<1> USE DEF IInv
<1>0. /\ pr[p] \in Process /\ pr[p].pc = "probe"
      /\ UNCHANGED <<backlog, conns, used>>
  BY DEF resolve_target, TypeOK
<1>1. CASE pr' = Rest(p) /\ UNCHANGED msg
  <2>1. MovesOn(p)
    BY <1>1, RestMoves
  <2>2. TypeOK'
    BY <1>0, <1>1, <2>1, ProcessStep DEF TypeOK
  <2> QED BY <1>0, <1>1, <2>1, <2>2, ProcessStep, QuietStep
<1>2. CASE pr[p].m # None /\ pr' = [pr EXCEPT ![p].pc = "connect"] /\ UNCHANGED msg
  <2> DEFINE r == [pr[p] EXCEPT !.pc = "connect"]
  <2>1. GoesOn(pr[p], r)
    BY <1>0, <1>2 DEF GoesOn, Process, Looking, Resting
  <2>2. MovesOn(p)
    BY <1>2, <2>1 DEF MovesOn
  <2>3. TypeOK'
    BY <1>0, <1>2, <2>2, ProcessStep DEF TypeOK
  <2> QED BY <1>0, <1>2, <2>2, <2>3, ProcessStep, QuietStep
<1>3. CASE pr[p].m # None /\ pr' = Rest(p) /\ msg' = Tell(pr[p].m, "failed", "nomatch")
  <2>1. pr[p].m \in Msgs
    BY <1>0, <1>3 DEF Process
  <2> QED BY <1>0, <1>3, <2>1, ToldStep DEF Looking
<1> QED BY <1>1, <1>2, <1>3 DEF resolve_target

LEMMA SendLineInv ==
    ASSUME IInv, NEW p \in Procs, send_line(p)
    PROVE  IInv'
<1> USE DEF IInv
<1>0. /\ pr[p] \in Process /\ pr[p].pc = "connect" /\ pr[p].m # None
      /\ UNCHANGED <<conns, used>>
  BY DEF send_line, TypeOK, PlaceOK
<1> DEFINE x == pr[p].m
           to == CHOOSE i \in pr[p].hits : TRUE
           q == sock[to]
<1>1. x \in Msgs
  BY <1>0 DEF Process
<1>2. CASE Live(to) /\ Len(backlog[q]) < Backlog
  <2>0. /\ q \in Procs /\ backlog' = [backlog EXCEPT ![q] = Append(@, x)]
        /\ pr' = [pr EXCEPT ![p].pc = "ack"] /\ UNCHANGED msg
    BY <1>2 DEF send_line, Live
  <2> DEFINE r == [pr[p] EXCEPT !.pc = "ack"]
  <2>1. GoesOn(pr[p], r) /\ pr' = [pr EXCEPT ![p] = r]
    BY <1>0, <2>0 DEF GoesOn, Process, Looking, Resting
  <2>2. MovesOn(p) /\ pr'[p].pc = "ack"
    BY <2>1, <2>0 DEF MovesOn, TypeOK, Process
  <2>3. pr' \in [Procs -> Process] /\ PlaceOK' /\ \A m \in Msgs : Senders(m)
    BY <2>2, ProcessStep
  <2>4. TypeOK'
    BY <1>0, <1>1, <2>0, <2>3 DEF TypeOK
  <2> HIDE DEF q, x
  <2>5. \A m \in Msgs, s \in Procs, k \in Nat :
            At(m, s, k)' <=> At(m, s, k) \/ (m = x /\ s = q /\ k = Len(backlog[q]) + 1)
    BY <1>0, <1>1, <2>0, AppendPlaces
  <2>6. ASSUME NEW m \in Msgs PROVE MsgOK(m)'
    <3>1. CASE m # x
      <4>1. Once(m)' /\ (Nowhere(m) => Nowhere(m)')
        BY <2>5, <3>1, FewerPlaces DEF MsgOK
      <4> QED BY <1>0, <2>0, <2>3, <4>1, Untouched
    <3>2. CASE m = x
      <4>1. msg[m] = Unsent /\ Nowhere(m) /\ m \in used.sent
        BY <1>0, <3>2 DEF MsgOK, SenderOK, Looking, x
      <4>2. Once(m)'
        BY <2>5, <4>1 DEF Once, Nowhere
      <4>3. \A s \in Procs : pr'[s].m = m => s = p
        BY <2>3, <3>2 DEF Senders, MsgOK, SenderOK, x
      <4>4. SenderOK(m)'
        BY <1>0, <2>0, <2>2, <4>1, <4>3 DEF SenderOK, Unsent, Looking
      <4>5. AnswerOK(m)'
        BY <2>0, <4>1 DEF AnswerOK, Unsent
      <4> QED BY <4>2, <4>4, <4>5 DEF MsgOK
    <3> QED BY <3>1, <3>2
  <2> QED BY <2>3, <2>4, <2>6
<1>3. CASE ~(Live(to) /\ Len(backlog[q]) < Backlog)
  <2>1. pr' = Rest(p) /\ msg' = Tell(x, "failed", "connect") /\ UNCHANGED backlog
    BY <1>3 DEF send_line
  <2> HIDE DEF x
  <2>2. pr[p].m = x
    BY DEF x
  <2> QED BY <1>0, <1>1, <2>1, <2>2, ToldStep DEF Looking
<1> QED BY <1>2, <1>3

LEMMA ReadAckInv ==
    ASSUME IInv, NEW p \in Procs, read_ack(p)
    PROVE  IInv'
<1> USE DEF IInv
<1>0. /\ pr[p] \in Process /\ pr[p].pc = "ack" /\ pr[p].m # None
      /\ UNCHANGED <<backlog, conns, used>> /\ pr' = Rest(p)
  BY DEF read_ack, TypeOK, PlaceOK
<1>1. PICK x \in Msgs : x = pr[p].m
  BY <1>0 DEF Process
<1>2. PICK a \in {"none", msg[x].answer} : msg' = Tell(x, Verdict(a), a)
  BY <1>1 DEF read_ack
<1>3. a \in Answers
  BY <1>2 DEF TypeOK, Message, Answers
<1>4. /\ Verdict(a) \in {"refused", "delivered"}
      /\ Verdict(a) = "refused" => msg[x].answer = "no"
      /\ a = "yes" => msg[x].answer = "yes"
  BY <1>2, <1>3 DEF Verdict
<1> QED BY <1>0, <1>1, <1>2, <1>3, <1>4, ToldStep

LEMMA AcceptInv ==
    ASSUME IInv, NEW q \in Procs, on_connection(q)
    PROVE  IInv'
<1> USE DEF IInv
<1>0. /\ backlog[q] # << >> /\ UNCHANGED <<pr, msg, used>>
      /\ backlog' = [backlog EXCEPT ![q] = Tail(@)]
      /\ conns' = IF Head(backlog[q]) = Probe THEN conns
                  ELSE [conns EXCEPT ![q] = @ \cup {Head(backlog[q])}]
  BY DEF on_connection
<1>1. TypeOK'
  <2>1. backlog[q] \in Seq(Msgs \cup {Probe})
    BY DEF TypeOK
  <2>2. Head(backlog[q]) \in Msgs \cup {Probe} /\ Tail(backlog[q]) \in Seq(Msgs \cup {Probe})
    BY <1>0, <2>1, HeadTailProperties
  <2> QED BY <1>0, <2>2 DEF TypeOK
<1>2. PlaceOK' /\ \A m \in Msgs : Senders(m)
  BY <1>0 DEF PlaceOK, Senders
<1>3. \A m \in Msgs, p \in Procs, k \in Nat :
          At(m, p, k)' <=> \/ k = 0 /\ At(m, p, 0)
                           \/ k # 0 /\ p # q /\ At(m, p, k)
                           \/ k # 0 /\ p = q /\ At(m, q, k + 1)
                           \/ k = 0 /\ p = q /\ At(m, q, 1)
  BY <1>0, TailPlaces
<1>4. ASSUME NEW m \in Msgs PROVE MsgOK(m)'
  <2> DEFINE Was(p, k) == IF p = q /\ (k # 0 \/ ~At(m, q, 0)) THEN k + 1 ELSE k
  <2>1. \A p \in Procs, k \in Nat : At(m, p, k)' => At(m, p, Was(p, k)) /\ Was(p, k) \in Nat
    BY <1>3
  <2>2. Once(m)
    BY DEF MsgOK
  <2>3. Once(m)'
    <3> SUFFICES ASSUME NEW a \in Procs, NEW b \in Procs, NEW k \in Nat, NEW l \in Nat,
                        At(m, a, k)', At(m, b, l)'
                 PROVE  a = b /\ k = l
      BY DEF Once
    <3>1. a = b /\ Was(a, k) = Was(b, l)
      BY <2>1, <2>2 DEF Once
    <3>2. CASE a # q
      BY <3>1, <3>2
    <3>3. CASE a = q /\ At(m, q, 0)
      <4>1. Was(a, k) = 0 /\ Was(b, l) = 0
        BY <2>1, <2>2, <3>1, <3>3 DEF Once
      <4> QED BY <3>1, <3>3, <4>1
    <3>4. CASE a = q /\ ~At(m, q, 0)
      BY <3>1, <3>4
    <3> QED BY <3>2, <3>3, <3>4
  <2>4. Nowhere(m) => Nowhere(m)'
    BY <2>1 DEF Nowhere
  <2> QED BY <1>0, <1>2, <2>3, <2>4, Untouched
<1> QED BY <1>1, <1>2, <1>4

LEMMA ReadInv ==
    ASSUME IInv, NEW q \in Procs, NEW x \in Msgs, conn_read(q, x)
    PROVE  IInv'
<1> USE DEF IInv
<1>0. /\ x \in conns[q] /\ UNCHANGED <<pr, backlog, used>>
      /\ conns' = [conns EXCEPT ![q] = @ \ {x}]
      /\ msg' = [msg EXCEPT ![x] = IF x \in orphans THEN [msg[x] EXCEPT !.answer = "freed"]
                                   ELSE conn_handle(x)]
  BY DEF conn_read
<1>1. msg[x] \in Message
  BY DEF TypeOK
<1>2. At(x, q, 0)
  BY <1>0 DEF At
<1>3. msg[x].answer = "none" /\ msg[x].got = 0
  BY <1>2 DEF MsgOK, AnswerOK, Nowhere
<1>4. /\ msg'[x] \in Message
      /\ msg'[x].answer \in {"freed", "no", "yes"}
      /\ msg'[x].got = IF msg'[x].answer = "yes" THEN 1 ELSE 0
      /\ msg'[x].told = msg[x].told /\ msg'[x].via = msg[x].via
      /\ \A m \in Msgs \ {x} : msg'[m] = msg[m]
  <2>1. CASE x \in orphans
    BY <1>0, <1>1, <1>3, <2>1 DEF TypeOK, Message, Answers
  <2>2. CASE x \notin orphans /\ x \in Big
    BY <1>0, <1>1, <1>3, <2>2 DEF TypeOK, Message, Answers, conn_handle
  <2>3. CASE x \notin orphans /\ x \notin Big
    <3> DEFINE got == [msg[x] EXCEPT !.got = @ + 1]
    <3>1. got \in Message /\ got.got = 1 /\ got.told = msg[x].told /\ got.via = msg[x].via
      BY <1>1, <1>3 DEF Message
    <3>2. msg' = [msg EXCEPT ![x] = [got EXCEPT !.answer = "yes"]]
      BY <1>0, <2>3 DEF conn_handle, deliver
    <3> HIDE DEF got
    <3> QED BY <3>1, <3>2 DEF TypeOK, Message, Answers
  <2> QED BY <2>1, <2>2, <2>3
<1>5. TypeOK'
  <2>1. \A m \in Msgs : msg'[m] \in Message
    BY <1>4 DEF TypeOK
  <2>2. msg' \in [Msgs -> Message]
    <3> HIDE DEF IInv
    <3>1. msg \in [Msgs -> Message]
      BY DEF IInv, TypeOK
    <3>2. DOMAIN msg' = Msgs /\ msg' = [m \in Msgs |-> msg'[m]]
      BY <1>0, <3>1
    <3> QED BY <2>1, <3>2
  <2> QED BY <1>0, <2>2 DEF TypeOK
<1>6. PlaceOK' /\ \A m \in Msgs : Senders(m)
  BY <1>0 DEF PlaceOK, Senders
<1>7. \A m \in Msgs, p \in Procs, k \in Nat : At(m, p, k)' => At(m, p, k) /\ ~(m = x /\ p = q /\ k = 0)
  <2> SUFFICES ASSUME NEW m \in Msgs, NEW p \in Procs, NEW k \in Nat, At(m, p, k)'
               PROVE  At(m, p, k) /\ ~(m = x /\ p = q /\ k = 0)
    OBVIOUS
  <2>1. conns'[p] = IF p = q THEN conns[p] \ {x} ELSE conns[p]
    BY <1>0 DEF TypeOK
  <2>2. 0 \notin DOMAIN backlog[p]
    BY PlaceFacts
  <2> QED BY <1>0, <2>1, <2>2 DEF At
<1>8. ASSUME NEW m \in Msgs PROVE MsgOK(m)'
  <2>1. Once(m)' /\ (Nowhere(m) => Nowhere(m)')
    BY <1>7, FewerPlaces DEF MsgOK
  <2>2. CASE m # x
    BY <1>0, <1>4, <1>6, <2>1, <2>2, Untouched
  <2>3. CASE m = x
    <3>1. Nowhere(m)'
      BY <1>2, <1>7, <2>3 DEF Nowhere, MsgOK, Once
    <3>2. ~Nowhere(m)
      BY <1>2, <2>3 DEF Nowhere
    <3>3. SenderOK(m)'
      BY <1>0, <1>4, <2>3, <3>1, <3>2 DEF SenderOK, MsgOK
    <3>4. AnswerOK(m)'
      BY <1>3, <1>4, <2>3, <3>1, <3>2 DEF AnswerOK, MsgOK
    <3> QED BY <2>1, <3>3, <3>4 DEF MsgOK
  <2> QED BY <2>2, <2>3
<1> QED BY <1>5, <1>6, <1>8

-----------------------------------------------------------------------------
(* The theorem.                                                            *)

LEMMA InitInv == Init => IInv
<1> SUFFICES ASSUME Init PROVE IInv
  OBVIOUS
<1>1. TypeOK
  BY DEF Init, TypeOK, Process, Idle, Message, Answers, Resting, Looking
<1>2. PlaceOK
  BY DEF Init, PlaceOK, Idle
<1>3. \A m \in Msgs : Nowhere(m)
  BY DEF Init, Nowhere, At
<1>4. \A p \in Procs : pr[p].m = None
  BY DEF Init, Idle
<1>5. ASSUME NEW m \in Msgs PROVE MsgOK(m)
  <2>1. msg[m] = Unsent
    BY DEF Init, Unsent
  <2>2. SenderOK(m)
    BY <1>3, <1>4, <2>1, PeerAssumption DEF SenderOK
  <2>3. AnswerOK(m)
    BY <1>3, <2>1 DEF AnswerOK, Unsent
  <2> QED BY <1>3, <2>2, <2>3 DEF MsgOK, Once, Nowhere
<1> QED BY <1>1, <1>2, <1>5 DEF IInv

LEMMA NextInv == IInv /\ [Next]_vars => IInv'
<1> SUFFICES ASSUME IInv, [Next]_vars PROVE IInv'
  OBVIOUS
<1>1. CASE UNCHANGED vars
  <2>1. UNCHANGED <<pr, backlog, conns, msg, used>>
    BY <1>1 DEF vars
  <2>2. TypeOK' /\ PlaceOK' /\ \A m \in Msgs : Senders(m)
    BY <2>1 DEF IInv, TypeOK, PlaceOK, Senders
  <2> QED BY <2>1, <2>2, QuietStep
<1>2. ASSUME NEW p \in Procs, NEW i \in Ids, clm_peer_start(p, i) PROVE IInv'
  BY <1>2, StartInv
<1>3. ASSUME NEW p \in Procs, clm_peer_free(p) \/ Crash(p) \/ \E i \in Ids : peer_rebind(p, i)
      PROVE  IInv'
  BY <1>3, FreeInv
<1>4. ASSUME NEW p \in Procs, NEW m \in Msgs, NEW W \in {{i} : i \in Ids} \cup {Ids},
             tool_agent_send(p, m, W) \/ run_send(p, m, W)
      PROVE  IInv'
  <2>1. W \in SUBSET Ids
    OBVIOUS
  <2> QED BY <1>4, <2>1, SendInv DEF tool_agent_send, run_send
<1>5. ASSUME NEW p \in Procs, clm_peer_set_model(p) PROVE IInv'
  BY <1>5, SetModelInv
<1>6. ASSUME NEW p \in Procs, tool_agents_list(p) \/ run_peers(p) PROVE IInv'
  BY <1>6, ListInv DEF tool_agents_list, run_peers
<1>7. ASSUME NEW p \in Procs, Work(p) PROVE IInv'
  BY <1>7, BindInv, ListenInv, ProbeInv, UnlinkInv, ResolveInv, SendLineInv, ReadAckInv DEF Work
<1>8. ASSUME NEW p \in Procs, Serve(p) PROVE IInv'
  BY <1>8, AcceptInv, ReadInv DEF Serve
<1> QED BY <1>1, <1>2, <1>3, <1>4, <1>5, <1>6, <1>7, <1>8 DEF Next

\* What agent_send reports is true of the recipient, whatever dies, restarts,
\* takes a name over or times out: a message reported as failed or refused
\* reached no agent and waits nowhere, one whose acceptance was read reached
\* one, and none is delivered twice.
THEOREM ResultAlwaysTrue == Spec => []ResultTrue
<1>1. IInv => ResultTrue
  <2> SUFFICES ASSUME IInv, NEW m \in Msgs
               PROVE  /\ msg[m].got <= 1
                      /\ msg[m].told \in {"refused", "failed"} =>
                            msg[m].got = 0 /\ \A p \in Procs : m \notin Queued(p) \cup conns[p]
                      /\ msg[m].via = "yes" => msg[m].got = 1
    BY DEF ResultTrue
  <2>1. AnswerOK(m)
    BY DEF IInv, MsgOK
  <2>2. Nowhere(m) => \A p \in Procs : m \notin Queued(p) \cup conns[p]
    BY QueuedPlace DEF IInv, Nowhere
  <2>3. msg[m].got \in {0, 1}
    BY <2>1 DEF AnswerOK
  <2> QED BY <2>1, <2>2, <2>3 DEF AnswerOK
<1> QED BY <1>1, InitInv, NextInv, PTL DEF Spec
=============================================================================
