-------------------------------- MODULE Peer --------------------------------
(***************************************************************************)
(* Messages between running clm processes (libclmuv/peer.c): each instance *)
(* binds <dir>/<session id>.sock with a .json beside it; others find it by *)
(* reading the directory and trying each socket, and write one line to it. *)
(* The processes interleave at system calls; one process is one thread, so *)
(* it serves its socket only while it runs no tool of its own.             *)
(***************************************************************************)
EXTENDS Naturals, Sequences, SequencesExt, FiniteSets

CONSTANTS
    Procs,         \* clm processes; one that has no socket is `clm send/peers'
    Ids,           \* session ids
    Msgs,          \* messages
    Big,           \* those whose JSON line exceeds the receive buffer
    Wedged,        \* processes that may stop serving their socket for ever
    Backlog,       \* connections a socket queues: the 8 of uv_listen
    MaxBinds,      \* bound on the sockets bound
    MaxRare,       \* bound on the bare listings, and on the crashes, which count twice
    None

\* A connection that peer_alive opened and closed: it carries no line.
Probe == "probe"

ASSUME PeerAssumption ==
    /\ Big \subseteq Msgs
    /\ Wedged \subseteq Procs
    /\ Backlog \in Nat \ {0}
    /\ None \notin Procs \cup Ids \cup Msgs
    /\ Probe \notin Msgs

VARIABLES
    sock,      \* <id>.sock: absent, left over, or the socket of a process
    meta,      \* <id>.json: the process it describes, or None
    pr,        \* the processes
    backlog,   \* connections not yet accepted: a message, or a bare probe
    conns,     \* accepted connections, per process
    orphans,   \* accepted connections whose clm_peer is freed
    msg,       \* the messages
    used       \* what the bounds count

vars == <<sock, meta, pr, backlog, conns, orphans, msg, used>>

Idle == [st |-> "off", id |-> None, pc |-> "idle", todo |-> {}, at |-> None, want |-> {},
         hits |-> {}, m |-> None]

Init ==
    /\ sock = [i \in Ids |-> "none"]
    /\ meta = [i \in Ids |-> None]
    /\ pr = [p \in Procs |-> Idle]
    /\ backlog = [p \in Procs |-> << >>]
    /\ conns = [p \in Procs |-> {}]
    /\ orphans = {}
    /\ msg = [m \in Msgs |-> [told |-> "none", via |-> "none", got |-> 0, answer |-> "none"]]
    /\ used = [binds |-> 0, rare |-> 0, sent |-> {}]

-----------------------------------------------------------------------------
(* Starting and stopping an instance.                                      *)

\* clm_peer_start: the leftover socket of this id goes first.
clm_peer_start(p, i) ==
    /\ pr[p].st = "off" /\ pr[p].pc = "idle" /\ used.binds < MaxBinds
    /\ sock' = [sock EXCEPT ![i] = "none"]
    /\ pr' = [pr EXCEPT ![p].pc = "bind", ![p].id = i]
    /\ used' = [used EXCEPT !.binds = @ + 1]
    /\ UNCHANGED <<meta, backlog, conns, orphans, msg>>

\* uv_pipe_bind: fails if another process has bound the name since.
Bind(p) ==
    /\ pr[p].pc = "bind"
    /\ IF sock[pr[p].id] = "none"
       THEN /\ sock' = [sock EXCEPT ![pr[p].id] = p]
            /\ pr' = [pr EXCEPT ![p].pc = "listen", ![p].st = "bound"]
       ELSE /\ pr' = [pr EXCEPT ![p] = Idle]
            /\ UNCHANGED sock
    /\ UNCHANGED <<meta, backlog, conns, orphans, msg, used>>

\* <id>.json names the process and its model.
write_meta(p) == meta' = [meta EXCEPT ![pr[p].id] = p]

\* uv_listen, then write_meta.
Listen(p) ==
    /\ pr[p].pc = "listen"
    /\ pr' = [pr EXCEPT ![p].pc = "idle", ![p].st = "up"]
    /\ write_meta(p)
    /\ UNCHANGED <<sock, backlog, conns, orphans, msg, used>>

\* clm_peer_set_model writes the description again, wherever the socket is.
clm_peer_set_model(p) ==
    /\ pr[p].st = "up" /\ pr[p].pc = "idle"
    /\ write_meta(p)
    /\ UNCHANGED <<sock, pr, backlog, conns, orphans, msg, used>>

\* The connections of p that nobody will read: their senders see the end.
Dropped(S) == [m \in Msgs |-> IF m \in S /\ msg[m].answer = "none"
                              THEN [msg[m] EXCEPT !.answer = "eof"] ELSE msg[m]]

Queued(p) == {m \in Msgs : \E k \in 1 .. Len(backlog[p]) : backlog[p][k] = m}

\* clm_peer_free: both names go, whoever they belong to now; the queue is
\* dropped; an accepted connection stays, with a pointer to what is freed.
Release(p) ==
    /\ pr[p].st = "up" /\ pr[p].pc = "idle"
    /\ meta' = [meta EXCEPT ![pr[p].id] = None]
    /\ msg' = Dropped(Queued(p))
    /\ backlog' = [backlog EXCEPT ![p] = << >>]
    /\ orphans' = orphans \cup conns[p]
    /\ UNCHANGED conns

clm_peer_free(p) ==
    /\ Release(p)
    /\ sock' = [sock EXCEPT ![pr[p].id] = "none"]
    /\ pr' = [pr EXCEPT ![p] = Idle]
    /\ UNCHANGED used

\* peer_rebind, on a new session: freed, and started under the new id.
peer_rebind(p, i) ==
    /\ Release(p) /\ i # pr[p].id /\ used.binds < MaxBinds
    /\ sock' = [sock EXCEPT ![pr[p].id] = "none", ![i] = "none"]
    /\ pr' = [pr EXCEPT ![p] = [Idle EXCEPT !.pc = "bind", !.id = i]]
    /\ used' = [used EXCEPT !.binds = @ + 1]

\* The process dies: its names stay behind.
Crash(p) ==
    /\ pr[p] # Idle /\ used.rare + 1 < MaxRare
    /\ sock' = [i \in Ids |-> IF sock[i] = p THEN "dead" ELSE sock[i]]
    /\ msg' = Dropped(Queued(p) \cup conns[p])
    /\ backlog' = [backlog EXCEPT ![p] = << >>]
    /\ conns' = [conns EXCEPT ![p] = {}]
    /\ orphans' = orphans \ conns[p]
    /\ pr' = [pr EXCEPT ![p] = Idle]
    /\ used' = [used EXCEPT !.rare = @ + 2]
    /\ UNCHANGED meta

-----------------------------------------------------------------------------
(* Receiving.                                                              *)

Serves(p) == pr[p].st = "up" /\ pr[p].pc = "idle"

on_connection(p) ==
    /\ Serves(p) /\ backlog[p] # << >>
    /\ backlog' = [backlog EXCEPT ![p] = Tail(@)]
    /\ conns' = IF Head(backlog[p]) = Probe THEN conns
                ELSE [conns EXCEPT ![p] = @ \cup {Head(backlog[p])}]
    /\ UNCHANGED <<sock, meta, pr, orphans, msg, used>>

\* The text reaches the agent as a notification.
deliver(m) == [msg[m] EXCEPT !.got = @ + 1]

\* One line: delivered and accepted, or malformed and refused. A line that
\* fills the buffer is cut off, so it does not parse.
conn_handle(m) ==
    IF m \in Big
    THEN [msg[m] EXCEPT !.answer = "no"]
    ELSE [deliver(m) EXCEPT !.answer = "yes"]

\* The line is read to its end, handled and answered; the connection closes.
\* If the clm_peer is gone, what is delivered, and to what, is undefined.
conn_read(p, m) ==
    /\ pr[p].pc = "idle" /\ m \in conns[p]
    /\ msg' = [msg EXCEPT ![m] = IF m \in orphans THEN [@ EXCEPT !.answer = "freed"] ELSE conn_handle(m)]
    /\ conns' = [conns EXCEPT ![p] = @ \ {m}]
    /\ orphans' = orphans \ {m}
    /\ UNCHANGED <<sock, meta, pr, backlog, used>>

-----------------------------------------------------------------------------
(* Finding peers and sending.                                              *)

\* list_peers goes over the names there are, but its own.
Names(p) == {i \in Ids : sock[i] # "none" /\ i # pr[p].id}

List(p) ==
    /\ pr[p].pc = "idle" /\ used.rare < MaxRare
    /\ pr' = [pr EXCEPT ![p].pc = "probe", ![p].todo = Names(p)]
    /\ used' = [used EXCEPT !.rare = @ + 1]
    /\ UNCHANGED <<sock, meta, backlog, conns, orphans, msg>>

tool_agents_list(p) == pr[p].st = "up" /\ List(p)

run_peers(p) == pr[p].st = "off" /\ List(p)

\* A message to the ids W that the text of `to' matches: resolve_target
\* lists first.
send_message(p, m, W) ==
    /\ pr[p].pc = "idle"
    /\ m \notin used.sent
    /\ pr' = [pr EXCEPT ![p].pc = "probe", ![p].todo = Names(p), ![p].want = W, ![p].m = m]
    /\ used' = [used EXCEPT !.sent = @ \cup {m}]
    /\ UNCHANGED <<sock, meta, backlog, conns, orphans, msg>>

tool_agent_send(p, m, W) == pr[p].st = "up" /\ send_message(p, m, W)

\* Also the agent_send of a oneshot, which binds no socket.
run_send(p, m, W) == pr[p].st = "off" /\ send_message(p, m, W)

Live(i) == sock[i] \in Procs /\ pr[sock[i]].st = "up"

\* peer_alive: a blocking connect. It succeeds once the queue has room, and
\* leaves a closed connection there; refused, it makes the name a leftover.
peer_alive(p, i) ==
    /\ pr[p].pc = "probe" /\ i \in pr[p].todo
    /\ IF Live(i)
       THEN /\ Len(backlog[sock[i]]) < Backlog
            /\ backlog' = [backlog EXCEPT ![sock[i]] = Append(@, Probe)]
            /\ pr' = [pr EXCEPT ![p].todo = @ \ {i}, ![p].hits = @ \cup ({i} \cap pr[p].want)]
       ELSE /\ pr' = [pr EXCEPT ![p].todo = @ \ {i}, ![p].at = i, ![p].pc = "reap_sock"]
            /\ UNCHANGED backlog
    /\ UNCHANGED <<sock, meta, conns, orphans, msg, used>>

\* The two unlinks of peer_alive, by name, whatever the names are by now.
UnlinkSock(p) ==
    /\ pr[p].pc = "reap_sock"
    /\ sock' = [sock EXCEPT ![pr[p].at] = "none"]
    /\ pr' = [pr EXCEPT ![p].pc = "reap_meta"]
    /\ UNCHANGED <<meta, backlog, conns, orphans, msg, used>>

UnlinkMeta(p) ==
    /\ pr[p].pc = "reap_meta"
    /\ meta' = [meta EXCEPT ![pr[p].at] = None]
    /\ pr' = [pr EXCEPT ![p].pc = "probe", ![p].at = None]
    /\ UNCHANGED <<sock, backlog, conns, orphans, msg, used>>

\* Back in the loop: the tool call has its result.
Rest(p) == [pr EXCEPT ![p].pc = "idle", ![p].todo = {}, ![p].want = {}, ![p].hits = {}, ![p].m = None]

Tell(m, what, via) == [msg EXCEPT ![m].told = what, ![m].via = via]

\* The walk is over: a listing ends; a send goes on if exactly one matches.
resolve_target(p) ==
    /\ pr[p].pc = "probe" /\ pr[p].todo = {}
    /\ IF pr[p].m = None
       THEN pr' = Rest(p) /\ UNCHANGED msg
       ELSE IF Cardinality(pr[p].hits) = 1
       THEN pr' = [pr EXCEPT ![p].pc = "connect"] /\ UNCHANGED msg
       ELSE pr' = Rest(p) /\ msg' = Tell(pr[p].m, "failed", "nomatch")
    /\ UNCHANGED <<sock, meta, backlog, conns, orphans, used>>

\* send_line: a non-blocking connect, the whole line, and the half-close. A
\* full queue, a leftover or a missing name is an error now.
send_line(p) ==
    /\ pr[p].pc = "connect"
    /\ LET to == CHOOSE i \in pr[p].hits : TRUE
           q == sock[to]
       IN  IF Live(to) /\ Len(backlog[q]) < Backlog
           THEN /\ backlog' = [backlog EXCEPT ![q] = Append(@, pr[p].m)]
                /\ pr' = [pr EXCEPT ![p].pc = "ack"]
                /\ UNCHANGED msg
           ELSE /\ pr' = Rest(p)
                /\ msg' = Tell(pr[p].m, "failed", "connect")
                /\ UNCHANGED backlog
    /\ UNCHANGED <<sock, meta, conns, orphans, used>>

\* Mutation: no answer in time is a failure.
Verdict_strict(a) == IF a = "yes" THEN "delivered" ELSE IF a = "no" THEN "refused" ELSE "failed"

\* What read_ack makes of the answer: none, or a closed connection, counts as
\* acceptance.
Verdict(a) == IF a = "no" THEN "refused" ELSE "delivered"

\* Mutation: no timeout.
read_ack_waits(p) ==
    /\ pr[p].pc = "ack" /\ msg[pr[p].m].answer # "none"
    /\ msg' = Tell(pr[p].m, Verdict(msg[pr[p].m].answer), msg[pr[p].m].answer)
    /\ pr' = Rest(p)
    /\ UNCHANGED <<sock, meta, backlog, conns, orphans, used>>

\* read_ack, with an answer or the end there, or after its timeout.
read_ack(p) ==
    /\ pr[p].pc = "ack"
    /\ \E a \in {"none", msg[pr[p].m].answer} : msg' = Tell(pr[p].m, Verdict(a), a)
    /\ pr' = Rest(p)
    /\ UNCHANGED <<sock, meta, backlog, conns, orphans, used>>

-----------------------------------------------------------------------------
\* A step of the tool call that p is in.
Work(p) ==
    \/ Bind(p) \/ Listen(p)
    \/ \E i \in Ids : peer_alive(p, i)
    \/ UnlinkSock(p) \/ UnlinkMeta(p) \/ resolve_target(p) \/ send_line(p) \/ read_ack(p)

Serve(p) == on_connection(p) \/ \E m \in Msgs : conn_read(p, m)

Next ==
    \E p \in Procs :
        \/ \E i \in Ids : clm_peer_start(p, i) \/ peer_rebind(p, i)
        \/ \E m \in Msgs, W \in {{i} : i \in Ids} \cup {Ids} : tool_agent_send(p, m, W) \/ run_send(p, m, W)
        \/ clm_peer_free(p) \/ clm_peer_set_model(p) \/ Crash(p)
        \/ tool_agents_list(p) \/ run_peers(p)
        \/ Work(p) \/ Serve(p)

Spec == Init /\ [][Next]_vars

\* A tool call goes on while it can, and an idle loop that is not wedged
\* serves its socket.
FairSpec ==
    /\ Spec
    /\ \A p \in Procs : WF_vars(Work(p))
    /\ \A p \in Procs \ Wedged : WF_vars(Serve(p))

-----------------------------------------------------------------------------
(* Properties.                                                             *)

\* The result the sender reads is true of the recipient: a message reported
\* as failed or refused never reached an agent and never will, one whose
\* acceptance was read did reach one, and none does twice, whatever dies,
\* restarts or times out meanwhile (send_message, conn_handle, read_ack).
ResultTrue ==
    \A m \in Msgs :
        /\ msg[m].got <= 1
        /\ msg[m].told \in {"refused", "failed"} =>
            msg[m].got = 0 /\ \A p \in Procs : m \notin Queued(p) \cup conns[p]
        /\ msg[m].via = "yes" => msg[m].got = 1

\* p is in the connect of peer_alive, on the full queue of one of S.
Blocked(p, S) ==
    /\ pr[p].pc = "probe"
    /\ \E i \in pr[p].todo : Live(i) /\ sock[i] \in S /\ Len(backlog[sock[i]]) = Backlog

\* p waits in that connect for a wedged process, or for one that waits so
\* itself: agents that probe each other, in a circle, with their queues full.
Parked(p) == \E S \in SUBSET Procs : p \in S /\ \A q \in S : Blocked(q, S \cup Wedged)

\* An agent_send, an agents_list and a start end, also when two agents send
\* to each other, when the other side dies and when it is wedged ("a wedged
\* peer must not park the loop", send_line): a tool call stays in the loop
\* only in the connect of peer_alive, which has no timeout.
ToolEnds == \A p \in Procs : pr[p].pc # "idle" ~> pr[p].pc = "idle" \/ Parked(p)
=============================================================================
