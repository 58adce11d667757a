----------------------------- MODULE McpClient -----------------------------
(***************************************************************************)
(* One MCP client (libclmuv/mcp_client.c) as mcp_setup.c starts it: the    *)
(* handshake, the tools it registers, the calls in flight, the death and   *)
(* restart of its server, and its release.  A stdio server is a child      *)
(* process that may answer in any order, close its output, or die between  *)
(* any two steps; an HTTP server answers or fails each request by itself   *)
(* (HttpMux shows that it does so once).                                   *)
(***************************************************************************)
EXTENDS Naturals, Sequences, FiniteSets, SequencesExt

CONSTANTS
    Calls,         \* invocations of the client's tools
    Burst,         \* MCP_RESTART_BURST
    MaxTicks       \* restart tokens refilled (bound)

VARIABLES
    cl,            \* struct clm_mcp_client
    calls,         \* the invocations, as the agent sees them
    ready,         \* struct mcp_ready_ctx, and mcp_pending
    child,         \* the server process
    work,          \* requests the server has not answered
    lines,         \* replies in the pipe from the server
    ticks

vars == <<cl, calls, ready, child, work, lines, ticks>>

None == "none"

ASSUME McpAssumption == None \notin Calls /\ Burst \in Nat

Init ==
    /\ \E t \in {"stdio", "http"} :
          cl = [st |-> "none", transport |-> t, dead |-> FALSE, spawned |-> FALSE,
                closing |-> FALSE, remaining |-> 0, intent |-> "idle",
                uv |-> {}, discarded |-> FALSE, tokens |-> Burst, next_id |-> 1,
                pending |-> <<>>, https |-> <<>>, tools |-> FALSE,
                on_ready |-> TRUE, owns_user |-> TRUE]
    /\ calls = [k \in Calls |-> [st |-> "idle", answers |-> 0, by |-> None]]
    /\ ready = [settled |-> FALSE, waiting |-> 0, frees |-> 0, late |-> FALSE]
    /\ child = [st |-> "none", out |-> FALSE, reaped |-> TRUE, killed |-> FALSE]
    /\ work = {}
    /\ lines = <<>>
    /\ ticks = 0

-----------------------------------------------------------------------------
(* What the client tells its owner.                                         *)

\* clm_tool_complete or clm_tool_fail for each call of K, "by" a reply or by
\* the client itself.
Report(K, by) ==
    [k \in Calls |-> IF k \in K THEN [st |-> "done", answers |-> calls[k].answers + 1,
                                      by |-> by]
                     ELSE calls[k]]

\* on_mcp_ready, when the client still has the callback.
on_mcp_ready(c) ==
    IF ~c.on_ready THEN ready
    ELSE [ready EXCEPT !.settled = TRUE, !.late = @ \/ ready.frees > 0,
                       !.waiting = IF ready.settled THEN @ ELSE @ - 1]

\* free_mcp_ready_ctx.
free_mcp_ready_ctx(rd) ==
    [rd EXCEPT !.frees = @ + 1, !.waiting = IF rd.settled THEN @ ELSE @ - 1]

\* mcp_client_free_now.
mcp_client_free_now(c) == [c EXCEPT !.st = "freed"]
UserFreed(c, rd) == IF c.st = "freed" /\ c.owns_user THEN free_mcp_ready_ctx(rd) ELSE rd

CallsOf(q) == {q[i].call : i \in DOMAIN q} \ {None}

-----------------------------------------------------------------------------
(* Sending.                                                                 *)

\* mcp_stdio_send: refused when the server is dead; a write may fail too.
mcp_stdio_send(c) == c.spawned /\ ~c.dead

\* mcp_http_send: a context of its own for each request.
mcp_http_send(c, e) == [c EXCEPT !.https = <<e>> \o @]

\* mcp_send after next_id++: the newest request is first.
mcp_send(c, kind, k) ==
    LET e == [id |-> c.next_id, kind |-> kind, call |-> k]
        d == [c EXCEPT !.next_id = @ + 1]
    IN  IF c.transport = "http" THEN mcp_http_send(d, e)
        ELSE [d EXCEPT !.pending = <<e>> \o @]

\* The request that mcp_send adds, for the server to answer.
Sent(c, kind, k) ==
    IF c.transport = "http" THEN work
    ELSE work \cup {[id |-> c.next_id, kind |-> kind, call |-> k]}

\* mcp_start_handshake, or mcp_send_tools_list, from client c: it is sent, or
\* it fails, which only the handshake reports.
Sends(c, kind) ==
    \/ /\ c.transport = "http" \/ mcp_stdio_send(c)
       /\ cl' = mcp_send(c, kind, None)
       /\ work' = Sent(c, kind, None)
       /\ UNCHANGED ready
    \/ /\ cl' = [c EXCEPT !.next_id = @ + 1]
       /\ ready' = IF kind = "init" THEN on_mcp_ready(c) ELSE ready
       /\ UNCHANGED work

-----------------------------------------------------------------------------
(* Starting.                                                                *)

\* mcp_spawn's process.
Running == [st |-> "running", out |-> TRUE, reaped |-> FALSE, killed |-> FALSE]

\* mcp_spawn's failure: the three handles are closed, with no exit to wait for.
spawn_failed(c, intent) ==
    [c EXCEPT !.closing = TRUE, !.intent = intent, !.remaining = 3,
              !.uv = {"in", "out", "proc"}]

\* connect_one and clm_mcp_connect.
Connect ==
    /\ cl.st = "none"
    /\ child' = IF cl.transport = "stdio" THEN Running ELSE child
    /\ LET c == [cl EXCEPT !.st = "live", !.spawned = cl.transport = "stdio"]
       IN  \/ /\ cl' = mcp_send(c, "init", None) /\ work' = Sent(c, "init", None)
              /\ ready' = [ready EXCEPT !.waiting = 1]
           \/ /\ cl' = [c EXCEPT !.next_id = @ + 1] /\ UNCHANGED work
              /\ ready' = [ready EXCEPT !.settled = TRUE]
    /\ UNCHANGED <<calls, lines, ticks>>

\* The process cannot be started: connect_one frees its own context, and the
\* client frees itself when its handles are closed.
ConnectFails ==
    /\ cl.st = "none" /\ cl.transport = "stdio"
    /\ cl' = spawn_failed([cl EXCEPT !.st = "live", !.on_ready = FALSE, !.owns_user = FALSE,
                                     !.discarded = TRUE], "free")
    /\ ready' = [ready EXCEPT !.frees = @ + 1]
    /\ UNCHANGED <<calls, child, work, lines, ticks>>

\* mcp_do_respawn: a fresh process, ids from 1, an empty line buffer.
mcp_do_respawn(c) ==
    \/ /\ child' = Running
       /\ lines' = <<>>
       /\ LET d == [c EXCEPT !.next_id = 1, !.spawned = TRUE, !.dead = FALSE]
          IN  \/ /\ cl' = mcp_send(d, "init", None)
                 /\ work' = {[id |-> 1, kind |-> "init", call |-> None]}
                 /\ UNCHANGED ready
              \/ /\ cl' = [d EXCEPT !.next_id = 2]
                 /\ work' = {}
                 /\ ready' = on_mcp_ready(d)
    \/ /\ cl' = spawn_failed([c EXCEPT !.next_id = 1], "idle")
       /\ ready' = on_mcp_ready(c)
       /\ UNCHANGED <<child, work, lines>>

-----------------------------------------------------------------------------
(* Closing.                                                                 *)

\* mcp_begin_close: a close in progress only ever turns into a release; the
\* process handle is left to mcp_on_exit.
mcp_begin_close(c, intent) ==
    IF c.closing \/ ~c.spawned
    THEN IF intent # "free" THEN c
         ELSE IF c.closing THEN [c EXCEPT !.intent = "free"] ELSE mcp_client_free_now(c)
    ELSE [c EXCEPT !.closing = TRUE, !.spawned = FALSE, !.intent = intent,
                   !.remaining = 3, !.uv = @ \cup {"in", "out"}]

\* mcp_handle_closed, for one of the three handles.
mcp_handle_closed(h) ==
    /\ h \in cl.uv
    /\ LET c == [cl EXCEPT !.uv = @ \ {h}, !.remaining = @ - 1]
           d == [c EXCEPT !.closing = FALSE]
       IN  CASE c.remaining > 0 -> cl' = c /\ UNCHANGED <<ready, child, work, lines>>
             [] c.remaining = 0 /\ c.intent = "respawn" -> mcp_do_respawn(d)
             [] c.remaining = 0 /\ c.intent = "idle" ->
                    cl' = d /\ UNCHANGED <<ready, child, work, lines>>
             [] OTHER -> /\ cl' = mcp_client_free_now(d)
                         /\ ready' = UserFreed(cl', ready)
                         /\ UNCHANGED <<child, work, lines>>
    /\ UNCHANGED <<calls, ticks>>

\* mcp_restart_allowed: a token is left.
mcp_restart_allowed(c) == c.tokens > 0

\* mcp_unregister_all.
mcp_unregister_all(c) == [c EXCEPT !.tools = FALSE]

\* mcp_go_dead of the client: what was pending is dropped, the tools are
\* unregistered, and mcp_restart_allowed spends a token.
GoDead(c) ==
    IF c.dead THEN c
    ELSE LET d == mcp_unregister_all([c EXCEPT !.dead = TRUE, !.pending = <<>>])
             restart == mcp_restart_allowed(d)
         IN  mcp_begin_close([d EXCEPT !.tokens = IF restart THEN @ - 1 ELSE @],
                             IF restart THEN "respawn" ELSE "idle")

\* mcp_fail_all_pending and on_ready, as mcp_go_dead runs them.
mcp_go_dead ==
    /\ calls' = IF cl.dead THEN calls
                ELSE Report(CallsOf(cl.pending) \ CallsOf(GoDead(cl).pending), "client")
    /\ ready' = IF cl.dead THEN ready ELSE on_mcp_ready(cl)

\* mcp_stdio_read at the end of the server's output.
mcp_stdio_read_eof ==
    /\ cl.spawned /\ ~child.out /\ lines = <<>>
    /\ mcp_go_dead
    /\ cl' = GoDead(cl)
    /\ UNCHANGED <<child, work, lines, ticks>>

\* mcp_on_exit: the only place that closes a process that ran.
mcp_on_exit ==
    /\ child.st = "exited" /\ ~child.reaped
    /\ child' = [child EXCEPT !.reaped = TRUE]
    /\ mcp_go_dead
    /\ cl' = [GoDead(cl) EXCEPT !.uv = @ \cup {"proc"}]
    /\ UNCHANGED <<work, lines, ticks>>

-----------------------------------------------------------------------------
(* Replies.                                                                 *)

\* mcp_register_tools.
mcp_register_tools(c) == [c EXCEPT !.tools = TRUE]

\* mcp_handle_result and mcp_http_success: c has the entry e off its list.
Handle(c, e, reply) ==
    CASE e.kind = "init" /\ reply.ok ->
            Sends(c, "list") /\ UNCHANGED calls
      [] e.kind = "list" /\ reply.ok ->
            /\ cl' = mcp_register_tools(c)
            /\ ready' = on_mcp_ready(c)
            /\ UNCHANGED <<calls, work>>
      [] e.kind = "call" ->                 \* mcp_complete, or clm_tool_fail
            /\ cl' = c
            /\ calls' = Report({e.call}, reply.to)
            /\ UNCHANGED <<ready, work>>
      [] OTHER ->
            /\ cl' = c
            /\ ready' = on_mcp_ready(c)
            /\ UNCHANGED <<calls, work>>

\* Mutation: replies are taken in the order of the requests.
mcp_pending_take_oldest(q, id) == Len(q)

\* mcp_pending_take: the entry with the reply's id, or 0.
mcp_pending_take(q, id) == SelectInSeq(q, LAMBDA e : e.id = id)

\* mcp_process_line: a reply to nothing that is pending is ignored.
mcp_process_line ==
    /\ cl.spawned /\ lines # <<>>
    /\ lines' = Tail(lines)
    /\ LET i == mcp_pending_take(cl.pending, Head(lines).id)
       IN  IF i = 0 THEN UNCHANGED <<cl, calls, ready, work>>
           ELSE Handle([cl EXCEPT !.pending = RemoveAt(@, i)], cl.pending[i], Head(lines))
    /\ UNCHANGED <<child, ticks>>

\* mcp_http_ctx_done after the request's one callback.
mcp_http_done(i, ok) ==
    /\ cl.st = "live" /\ i \in DOMAIN cl.https
    /\ LET e == cl.https[i]
       IN  Handle([cl EXCEPT !.https = RemoveAt(@, i)], e, [ok |-> ok, to |-> e.call])
    /\ UNCHANGED <<child, lines, ticks>>

-----------------------------------------------------------------------------
(* Calls.                                                                   *)

\* mcp_tool_invoke.
mcp_tool_invoke(k) ==
    /\ cl.tools /\ calls[k].st = "idle"
    /\ \/ /\ cl.transport = "http" \/ mcp_stdio_send(cl)
          /\ calls' = [calls EXCEPT ![k].st = "open"]
          /\ cl' = mcp_send(cl, "call", k)
          /\ work' = Sent(cl, "call", k)
       \/ /\ calls' = [calls EXCEPT ![k].st = "failed"]
          /\ cl' = [cl EXCEPT !.next_id = @ + 1]
          /\ UNCHANGED work
    /\ UNCHANGED <<ready, child, lines, ticks>>

\* Mutation: the cancelled call stays in the list of pending requests.
Unlink_forgets(q, k) == q

\* mcp_stdio_cancel's unlink; mcp_http_cancel ends the request, whose error
\* callback does the same.
Unlink(q, k) == RemoveFirstMatch(q, LAMBDA e : e.call = k)

\* Mutation: a timeout that fires after the result is reported too.
mcp_cancel_late(k) ==
    /\ calls[k].st \in {"open", "done"} /\ calls[k].answers < 2
    /\ cl' = [cl EXCEPT !.pending = Unlink(@, k), !.https = Unlink(@, k)]
    /\ calls' = Report({k}, "client")
    /\ UNCHANGED <<ready, child, work, lines, ticks>>

\* A call's timeout, or the user's cancel.
mcp_cancel(k) ==
    /\ calls[k].st = "open"
    /\ cl' = [cl EXCEPT !.pending = Unlink(@, k), !.https = Unlink(@, k)]
    /\ calls' = Report({k}, "client")
    /\ UNCHANGED <<ready, child, work, lines, ticks>>

-----------------------------------------------------------------------------
(* Release.                                                                 *)

\* Mutation: the server is not killed.
Kill_nothing(c) == child

\* uv_process_kill of a server that is alive.
Kill(c) == [child EXCEPT !.killed = ~c.dead /\ c.spawned]

\* mcp_cancel_all_http: each request ends in its error callback, which only
\* drops the context of a discarded client.
mcp_cancel_all_http(q) == <<>>

\* clm_mcp_client_free: mcp_fail_all_pending and mcp_fail_all_http_calls report
\* before the transport is closed.
clm_mcp_client_free ==
    /\ cl.st = "live" /\ ~cl.discarded
    /\ calls' = Report(CallsOf(cl.pending) \cup CallsOf(cl.https), "client")
    /\ child' = Kill(cl)
    /\ LET c == mcp_unregister_all([cl EXCEPT !.discarded = TRUE, !.on_ready = FALSE,
                                              !.pending = <<>>, !.https = mcp_cancel_all_http(@)])
       IN  cl' = IF c.transport = "http" THEN mcp_client_free_now(c)
                 ELSE mcp_begin_close([c EXCEPT !.dead = @ \/ c.spawned], "free")
    /\ ready' = UserFreed(cl', ready)
    /\ UNCHANGED <<work, lines, ticks>>

-----------------------------------------------------------------------------
(* The server and the clock (external).                                     *)

ServerReplies(e) ==
    /\ child.st = "running" /\ child.out /\ e \in work
    /\ work' = work \ {e}
    /\ \E ok \in BOOLEAN : lines' = Append(lines, [id |-> e.id, ok |-> ok, to |-> e.call])
    /\ UNCHANGED <<cl, calls, ready, child, ticks>>

ServerClosesOutput ==
    /\ child.st = "running" /\ child.out
    /\ child' = [child EXCEPT !.out = FALSE]
    /\ UNCHANGED <<cl, calls, ready, work, lines, ticks>>

ServerExits ==
    /\ child.st = "running"
    /\ child' = [child EXCEPT !.st = "exited", !.out = FALSE]
    /\ UNCHANGED <<cl, calls, ready, work, lines, ticks>>

\* Thirty seconds pass: one token, up to the burst.
Refill ==
    /\ ticks < MaxTicks /\ cl.tokens < Burst
    /\ cl' = [cl EXCEPT !.tokens = @ + 1]
    /\ ticks' = ticks + 1
    /\ UNCHANGED <<calls, ready, child, work, lines>>

-----------------------------------------------------------------------------
Next ==
    \/ Connect \/ ConnectFails \/ mcp_stdio_read_eof \/ mcp_on_exit \/ mcp_process_line
    \/ clm_mcp_client_free \/ ServerClosesOutput \/ ServerExits \/ Refill
    \/ \E h \in {"in", "out", "proc"} : mcp_handle_closed(h)
    \/ \E i \in DOMAIN cl.https, ok \in BOOLEAN : mcp_http_done(i, ok)
    \/ \E k \in Calls : mcp_tool_invoke(k) \/ mcp_cancel(k)
    \/ \E e \in work : ServerReplies(e)

Spec == Init /\ [][Next]_vars

\* The loop delivers what it has, and a process that was killed exits.
Fairness ==
    /\ WF_vars(mcp_on_exit) /\ WF_vars(child.killed /\ ServerExits)
    /\ \A h \in {"in", "out", "proc"} : WF_vars(mcp_handle_closed(h))

FairSpec == Spec /\ Fairness

-----------------------------------------------------------------------------
(* Properties.                                                              *)

\* A call is answered with the server's reply to that call, although ids start
\* again with each server and replies may come after their call was given up.
ReplyMatches == \A k \in Calls : calls[k].by \in {None, "client", k}

\* Every call in flight is on the client's list, and a client that is dead or
\* discarded has neither calls nor tools: none waits for an answer that cannot
\* come, and none points to a client that is gone.
CallsTracked ==
    /\ \A k \in Calls : calls[k].st = "open" <=> k \in CallsOf(cl.pending) \cup CallsOf(cl.https)
    /\ cl.dead \/ cl.discarded => cl.pending = <<>> /\ cl.https = <<>> /\ ~cl.tools

\* A client is freed when nothing can call into it any more: its handles are
\* closed and its process was reaped.
NothingAfterFree == cl.st = "freed" => cl.uv = {} /\ child.reaped /\ cl.https = <<>>

\* The owner's context is freed once and not used after that, and the count
\* that clm_cli_wait_mcp_ready waits on covers exactly a connection that has
\* not reported yet.
ReadyOnce ==
    /\ ready.frees <= 1 /\ ~ready.late
    /\ ready.waiting = IF cl.st = "live" /\ cl.owns_user /\ ~ready.settled THEN 1 ELSE 0
    /\ cl.st = "freed" => ready.frees = 1

\* A client that fails to start, dies, is replaced or is closed leaves nothing
\* behind: no call without an answer to come, no handle or process that calls
\* into freed memory, no owner waiting for a connection that already failed.
NothingDangles == CallsTracked /\ NothingAfterFree /\ ReadyOnce

Promise == INSTANCE Completions WITH
    Ids <- Calls, answers <- [k \in Calls |-> calls[k].answers],
    st <- [k \in Calls |-> CASE calls[k].st = "open" -> "open"
                             [] calls[k].st = "done" -> "settled"
                             [] OTHER -> "idle"]

\* An invocation that reached the server's connection is completed exactly
\* once, by a reply, its cancel, the server's death or the client's release.
OneResult == Promise!Spec

\* A client that is released while its server talks, or when its server is
\* gone, is freed in the end.  (A server that closed its output and goes on
\* running is neither killed nor waited out: clm_mcp_client_free takes it for
\* dead.)
FreeEnds ==
    cl.discarded /\ (child.out \/ child.st # "running") ~> cl.st = "freed"
=============================================================================
