------------------------------ MODULE Frontend ------------------------------
(***************************************************************************)
(* The terminal frontend (src/tui.c) on top of the agent: lines typed      *)
(* while a turn runs wait in the steering queue, tool permissions are      *)
(* asked one prompt at a time, Escape cancels, and each callback of the    *)
(* agent may call the agent back.                                          *)
(*                                                                         *)
(* One thread runs everything, and a key may run submit, a turn's end, its *)
(* callbacks and the next submit in one C call.  `stack' is what that call *)
(* still has to run, first things first: a function is an action that      *)
(* takes its own entry off and puts the calls it makes on.  The event loop *)
(* brings the next thing when the stack is empty.                          *)
(***************************************************************************)
EXTENDS Naturals, Sequences, FiniteSets, SequencesExt

CONSTANTS
    Calls,      \* calls of a batch, in the order the model lists them
    NameOf,     \* the tool each of them calls
    Sync,       \* calls whose tool answers before invoke returns
    Hooked,     \* calls a pre_tool hook judges
    NoPrompt,   \* tools with CLM_TOOL_NO_PROMPT
    FirstCap,   \* room the prompt queue first gets: 16
    Forever,    \* --forever
    AllowAll,   \* --allow-all, or auto mode: asks only for what a hook asks
    AutoCompact,    \* the context may go over its threshold
    InlineFailures, \* a request may fail before http_post returns
    RetryMax,   \* CLM_RL_RETRY_MAX
    MaxLines    \* lines and plugin commands typed, results of "!" commands (bound)

ASSUME FrontendAssumption ==
    /\ {Forever, AllowAll, AutoCompact, InlineFailures} \subseteq BOOLEAN
    /\ {RetryMax, MaxLines, FirstCap} \subseteq Nat
    /\ NoPrompt \subseteq {NameOf[c] : c \in ToSet(Calls)}
    /\ DOMAIN NameOf = ToSet(Calls)

VARIABLES
    agent,   \* the agent, as far as the frontend sees it
    ui,      \* struct ui
    stack,   \* what the present callback of the event loop still has to run
    phase    \* "running", "settling" (clm_settle_turn) or "gone"
vars == <<agent, ui, stack, phase>>

Tools == {NameOf[c] : c \in ToSet(Calls)}

FreshAgent ==
    [state |-> "idle", req |-> "none", timer |-> FALSE, retries |-> 0,
     resume |-> FALSE,      \* compact_resume_chain
     cancelling |-> FALSE,
     over |-> FALSE,        \* over the autocompact threshold
     notify |-> <<>>,       \* pending_notify
     batch |-> FALSE,       \* active_batch # NULL
     hold |-> FALSE,        \* dispatch keeps the batch open
     round |-> 0,           \* which batch, modulo 2
     calls |-> [c \in ToSet(Calls) |-> "done"],
     remembered |-> [t \in Tools |-> "ask"],
     down |-> FALSE,        \* the next request fails at once
     given |-> <<>>]        \* typed lines in the history

FreshUi ==
    [queue |-> <<>>,        \* steering_queue
     prev |-> "idle",       \* prev_state
     busy |-> FALSE,
     auto |-> FALSE,        \* autocompacting
     perms |-> <<>>,        \* perm_queue, perm_count
     cap |-> 0,             \* perm_cap
     dropped |-> {},        \* requests cb_permission had no memory for
     showing |-> FALSE,     \* perm_showing
     wild |-> FALSE,        \* perm_count went below zero
     typed |-> 0,           \* lines so far
     shell |-> FALSE,       \* shell_proc # NULL
     waits |-> {},          \* the cmd_wait of each command under way
     ncmds |-> 0, cmdGen |-> 0, cmdLive |-> 0]

\* Whether a request fails at once changes with the server.
Downs == IF InlineFailures THEN BOOLEAN ELSE {FALSE}

Init == /\ \E b \in Downs : agent = [FreshAgent EXCEPT !.down = b]
        /\ ui = FreshUi /\ phase = "running"
        /\ stack = IF Forever THEN <<<<"forever", "">>>> ELSE <<>>

agent_busy == agent.state \in {"thinking", "calling_tool", "rate_limited"}

Doing(f) == stack # <<>> /\ Head(stack)[1] = f
Arg == Head(stack)[2]
Rest == SubSeq(stack, 2, Len(stack))
Run(todo) == stack' = todo \o Rest /\ UNCHANGED phase

\* The event loop is about to bring the next thing.
Loop == stack = <<>> /\ phase # "gone"

-----------------------------------------------------------------------------
(* The agent (agent.c, tools.c).                                           *)

\* A turn ends: the state is set, on_state and then on_turn_done called.
Landing(st, status) == <<<<"cb_state", st>>, <<"agent_turn_done", status>>>>
Landed(a, st) == [a EXCEPT !.state = st, !.req = "none"]

\* Mutation: the queued text is not taken, only read.
agent_turn_done_keeps ==
    /\ Doing("agent_turn_done")
    /\ Run(<<<<"cb_turn_done", Arg>>, <<"submit", agent.notify>>>>)
    /\ UNCHANGED <<agent, ui>>

\* The queued text is taken first and submitted last.
agent_turn_done ==
    /\ Doing("agent_turn_done")
    /\ agent' = [agent EXCEPT !.notify = <<>>]
    /\ Run(<<<<"cb_turn_done", Arg>>, <<"submit", agent.notify>>>>)
    /\ UNCHANGED ui

\* A busy agent refuses.
clm_agent_submit ==
    /\ Doing("submit")
    /\ IF agent_busy \/ Arg = <<>>
       THEN Run(<<>>) /\ UNCHANGED agent
       ELSE /\ agent' = [agent EXCEPT !.state = "thinking", !.cancelling = FALSE,
                                      !.given = @ \o Arg]
            /\ Run(<<<<"cb_state", "thinking">>, <<"start_turn", "">>>>)
    /\ UNCHANGED ui

\* The queued text goes into this request.
clm_agent_start_turn ==
    /\ Doing("start_turn")
    /\ LET a == [agent EXCEPT !.given = @ \o agent.notify, !.notify = <<>>, !.retries = 0]
       IN  IF a.down
           THEN agent' = Landed(a, "error") /\ Run(Landing("error", "failed"))
           ELSE agent' = [a EXCEPT !.req = "turn"] /\ Run(<<>>)
    /\ UNCHANGED ui

\* A caller of clm_agent_compact that the agent does not refuse.
Compacting(a) == [a EXCEPT !.state = "thinking", !.retries = 0]
CompactCall == <<<<"cb_state", "thinking">>, <<"compact_post", "">>>>

compact_post ==
    /\ Doing("compact_post")
    /\ IF agent.down THEN UNCHANGED agent /\ Run(<<<<"compact_error", "failed">>>>)
       ELSE agent' = [agent EXCEPT !.req = "compact"] /\ Run(<<>>)
    /\ UNCHANGED ui

compact_error_cb ==
    /\ Doing("compact_error")
    /\ LET a == [agent EXCEPT !.req = "none", !.resume = FALSE]
           st == IF Arg = "cancelled" THEN "complete" ELSE "error"
       IN  IF agent.resume /\ Arg # "cancelled"
           THEN agent' = a /\ Run(<<<<"start_turn", "">>>>)
           ELSE agent' = Landed(a, st) /\ Run(Landing(st, Arg))
    /\ UNCHANGED ui

clm_agent_tools_done ==
    /\ Doing("tools_done")
    /\ \/ /\ agent.cancelling
          /\ agent' = [Landed(agent, "complete") EXCEPT !.cancelling = FALSE]
          /\ Run(Landing("complete", "cancelled"))
       \/ /\ ~agent.cancelling /\ agent.over
          /\ agent' = [Compacting(agent) EXCEPT !.resume = TRUE]
          /\ Run(CompactCall \o <<<<"mid_chain", "">>>>)
       \/ /\ ~agent.cancelling /\ ~agent.over
          /\ agent' = [agent EXCEPT !.state = "thinking"]
          /\ Run(<<<<"cb_state", "thinking">>, <<"start_turn", "">>>>)
    /\ UNCHANGED ui

\* clm_agent_tools_done, once its compaction has started.
MidChain ==
    /\ Doing("mid_chain")
    /\ agent' = [agent EXCEPT !.over = FALSE]
    /\ Run(<<<<"cb_state", agent.state>>>>)
    /\ UNCHANGED ui

\* What follows in the C call when the last call of a batch has ended.
Ended(a) == IF a.batch /\ ~a.hold /\ \A c \in ToSet(Calls) : a.calls[c] = "done"
            THEN <<<<"tools_done", "">>>> ELSE <<>>
Kept(a) == IF Ended(a) = <<>> THEN a ELSE [a EXCEPT !.batch = FALSE]

\* batch_finalize: the batch of a, if that was its last call, is done.
Settled(a, todo) == agent' = Kept(a) /\ Run(Ended(a) \o todo)

inv_finalize(a, c) == [a EXCEPT !.calls[c] = "done"]
run_invoke(a, c) == [a EXCEPT !.calls[c] = IF c \in Sync THEN "done" ELSE "running"]

\* clm_tool_permission_respond; an answered request is ignored.
Responded(r, d) ==
    LET a == IF d \in {"allow_always", "deny_always"}
             THEN [agent EXCEPT !.remembered[NameOf[r.call]] = d] ELSE agent
    IN  IF r.round # agent.round \/ agent.calls[r.call] # "parked" THEN agent
        ELSE IF d \in {"allow_once", "allow_always"} THEN run_invoke(a, r.call)
        ELSE inv_finalize(a, r.call)

\* The calls of S are started in order, the batch held open meanwhile.
clm_tools_dispatch ==
    /\ Doing("dispatch")
    /\ agent' = [agent EXCEPT !.batch = TRUE, !.hold = TRUE, !.round = 1 - @,
                     !.calls = [c \in ToSet(Calls) |-> IF c \in Arg THEN "new" ELSE "done"]]
    /\ Run([i \in 1 .. Cardinality(Arg) |->
               <<"gate", SelectSeq(Calls, LAMBDA c : c \in Arg)[i]>>]
           \o <<<<"release", "">>>>)
    /\ UNCHANGED ui

\* force_ask: a hook wants the user asked.
ToPermission(c, forced) == <<<<"permission", [call |-> c, forced |-> forced]>>>>

\* A hook answers at once or later.
gate_run ==
    /\ Doing("gate")
    /\ IF Arg \in Hooked
       THEN /\ agent' = [agent EXCEPT !.calls[Arg] = "gated"]
            /\ \E now \in BOOLEAN : Run(IF now THEN <<<<"respond", Arg>>>> ELSE <<>>)
       ELSE UNCHANGED agent /\ Run(ToPermission(Arg, FALSE))
    /\ UNCHANGED ui

\* CLM_GATE_PASS, CLM_GATE_ASK, CLM_GATE_DENY.
clm_tool_gate_respond ==
    /\ Doing("respond")
    /\ \/ \E forced \in BOOLEAN : Run(ToPermission(Arg, forced)) /\ UNCHANGED agent
       \/ Settled(inv_finalize(agent, Arg), <<>>)
    /\ UNCHANGED ui

Release == /\ Doing("release")
           /\ Settled([agent EXCEPT !.hold = FALSE], <<>>)
           /\ UNCHANGED ui

Allowed(c) == NameOf[c] \in NoPrompt \/ agent.remembered[NameOf[c]] = "allow_always"

\* What is allowed is asked for all the same if a hook wants it; what the user
\* forbade is not.
permission_gate ==
    /\ Doing("permission")
    /\ LET c     == Arg.call
           never == agent.remembered[NameOf[c]] = "deny_always"
       IN  \/ /\ Allowed(c) /\ ~Arg.forced
              /\ Settled(run_invoke(agent, c), <<>>)
           \/ /\ never /\ (Arg.forced \/ ~Allowed(c))
              /\ Settled(inv_finalize(agent, c), <<>>)
           \/ /\ ~never /\ (Arg.forced \/ ~Allowed(c))
              /\ agent' = [agent EXCEPT !.calls[c] = "parked"]
              /\ Run(<<<<"cb_permission", Arg>>>>)
    /\ UNCHANGED ui

\* The host reports an aborted request from inside http_cancel.  A call that
\* waits for the user stays: its answer is still owed.
clm_agent_cancel ==
    /\ Doing("cancel")
    /\ \/ /\ agent.cancelling \/ ~(agent.timer \/ agent.req # "none" \/ agent.batch)
          /\ Run(<<>>) /\ UNCHANGED agent
       \/ /\ ~agent.cancelling /\ agent.timer
          /\ agent' = [Landed(agent, "complete") EXCEPT !.timer = FALSE, !.resume = FALSE]
          /\ Run(Landing("complete", "cancelled"))
       \/ /\ ~agent.cancelling /\ ~agent.timer /\ agent.req = "turn"
          /\ agent' = [Landed(agent, "complete") EXCEPT !.cancelling = TRUE]
          /\ Run(Landing("complete", "cancelled"))
       \/ /\ ~agent.cancelling /\ ~agent.timer /\ agent.req = "compact"
          /\ agent' = [agent EXCEPT !.cancelling = TRUE]
          /\ Run(<<<<"compact_error", "cancelled">>>>)
       \/ /\ ~agent.cancelling /\ ~agent.timer /\ agent.req = "none" /\ agent.batch
          /\ Settled([agent EXCEPT !.cancelling = TRUE,
                          !.calls = [c \in ToSet(Calls) |->
                                     IF @[c] = "gated" THEN "done" ELSE @[c]]], <<>>)
    /\ UNCHANGED ui

-----------------------------------------------------------------------------
(* Permission prompts.                                                     *)

show_next_perm(u) == [u EXCEPT !.showing = (u.perms # <<>>)]

\* If the queue cannot grow the request is dropped: the call stays parked.
cb_permission ==
    /\ Doing("cb_permission")
    /\ LET r    == [call |-> Arg.call, round |-> agent.round]
           full == Len(ui.perms) >= ui.cap
           u    == [ui EXCEPT !.perms = Append(@, r),
                              !.cap = IF ~full THEN @ ELSE IF @ = 0 THEN FirstCap ELSE 2 * @]
       IN  \/ /\ AllowAll /\ ~Arg.forced
              /\ Settled(Responded(r, "allow_once"), <<>>) /\ UNCHANGED ui
           \/ /\ ~AllowAll \/ Arg.forced
              /\ ui' = show_next_perm(u) \/ (full /\ ui' = [ui EXCEPT !.dropped = @ \cup {r}])
              /\ Run(<<>>) /\ UNCHANGED agent

Decision == [y |-> "allow_once", n |-> "deny_once", a |-> "allow_always",
             d |-> "deny_always", esc |-> "deny_once"]

\* Escape denies what is left of the queue, then cancels the turn; an "always"
\* answers the other prompts of that tool too.
AfterAnswer(key, t) ==
    CASE key = "esc" -> <<<<"deny_rest", 1>>, <<"cancel", "">>>>
      [] key \in {"a", "d"} -> <<<<"same", [i |-> 1, tool |-> t, d |-> Decision[key]]>>>>
      [] OTHER -> <<>>

\* A key pressed while a prompt shows.
answer_permission ==
    /\ Loop /\ ui.showing
    /\ LET r == Head(ui.perms)
       IN  /\ ui' = [ui EXCEPT !.perms = Tail(@), !.showing = FALSE]
           /\ \E key \in DOMAIN Decision :
                  Settled(Responded(r, Decision[key]),
                          AfterAnswer(key, NameOf[r.call]) \o <<<<"show", "">>>>)

\* Mutation: Escape forgets the prompts that were not shown yet.
DenyRest_forgets ==
    /\ Doing("deny_rest")
    /\ Run(<<>>) /\ ui' = [ui EXCEPT !.perms = <<>>] /\ UNCHANGED agent

DenyRest ==
    /\ Doing("deny_rest")
    /\ IF Arg > Len(ui.perms)
       THEN Run(<<>>) /\ ui' = [ui EXCEPT !.perms = <<>>] /\ UNCHANGED agent
       ELSE /\ Settled(Responded(ui.perms[Arg], "deny_once"), <<<<"deny_rest", Arg + 1>>>>)
            /\ UNCHANGED ui

ResolveSame ==
    /\ Doing("same") /\ UNCHANGED ui
    /\ IF Arg.i > Len(ui.perms) THEN Run(<<>>) /\ UNCHANGED agent
       ELSE IF NameOf[ui.perms[Arg.i].call] # Arg.tool
       THEN Run(<<<<"same", [Arg EXCEPT !.i = @ + 1]>>>>) /\ UNCHANGED agent
       ELSE Settled(Responded(ui.perms[Arg.i], Arg.d), <<<<"drop", Arg>>>>)

\* perm_count is decremented after the answer, whatever the answer did to it.
DropSame ==
    /\ Doing("drop") /\ UNCHANGED agent
    /\ IF ui.perms = <<>> THEN ui' = [ui EXCEPT !.wild = TRUE] /\ Run(<<>>)
       ELSE ui' = [ui EXCEPT !.perms = RemoveAt(@, Arg.i)] /\ Run(<<<<"same", Arg>>>>)

Show == /\ Doing("show") /\ Run(<<>>) /\ UNCHANGED agent
        /\ ui' = IF ui.perms # <<>> THEN show_next_perm(ui) ELSE ui

-----------------------------------------------------------------------------
(* The steering queue and the agent's callbacks.                           *)

\* prev_state changes after the drain, which may have started a turn.
cb_state ==
    /\ Doing("cb_state") /\ UNCHANGED agent
    /\ IF /\ ui.queue # <<>>
          /\ \/ ui.prev = "calling_tool" /\ Arg = "thinking"
             \/ ui.prev = "thinking" /\ Arg \in {"calling_tool", "complete"}
       THEN Run(<<<<"drain", "">>, <<"prev", Arg>>>>) /\ UNCHANGED ui
       ELSE Run(<<>>) /\ ui' = [ui EXCEPT !.prev = Arg]

SetPrev == /\ Doing("prev") /\ Run(<<>>) /\ UNCHANGED agent
           /\ ui' = [ui EXCEPT !.prev = Arg]

SetBusy == /\ Doing("busy") /\ Run(<<>>) /\ UNCHANGED agent
           /\ ui' = [ui EXCEPT !.busy = TRUE, !.auto = @ \/ Arg = "auto"]

\* drain_steering_one for each line: clm_agent_notify queues the line in a busy
\* agent and submits it to an idle one.
drain_steering_queue ==
    /\ Doing("drain")
    /\ IF ui.queue = <<>> THEN Run(<<>>) /\ UNCHANGED <<agent, ui>>
       ELSE LET line == Head(ui.queue)
                left == [ui EXCEPT !.queue = Tail(@)]
            IN  IF agent_busy
                THEN /\ agent' = [agent EXCEPT !.notify = Append(@, line)]
                     /\ ui' = IF agent.state = "rate_limited"
                              THEN [left EXCEPT !.busy = TRUE] ELSE left
                     /\ Run(<<<<"drain", "">>>>)
                ELSE /\ ui' = left /\ UNCHANGED agent
                     /\ Run(<<<<"submit", <<line>>>>, <<"busy", "">>, <<"drain", "">>>>)

\* Mutation: the end of a turn does not look at the queue.
AfterTurn_no_drain(on) == IF on THEN <<<<"forever", "">>>> ELSE <<>>

\* What was typed while the turn ran goes ahead of the --forever prompt.
AfterTurn(on) == <<<<"drain", "">>>> \o (IF on THEN <<<<"forever", "">>>> ELSE <<>>)

cb_turn_done ==
    /\ Doing("cb_turn_done")
    /\ ui' = [ui EXCEPT !.auto = FALSE, !.busy = FALSE, !.perms = <<>>, !.showing = FALSE]
    /\ LET went == Arg \in {"ok", "cancelled"}
       IN  IF ~ui.auto /\ went /\ agent.over /\ ~agent_busy
           THEN agent' = Compacting(agent) /\ Run(CompactCall \o <<<<"busy", "auto">>>>)
           ELSE Run(AfterTurn(Forever /\ (went \/ ui.auto))) /\ UNCHANGED agent

\* do_submit of the --forever prompt, which is no typed line.
ForeverSubmit ==
    /\ Doing("forever") /\ UNCHANGED ui
    /\ IF ui.busy \/ agent_busy THEN Run(<<>>) /\ UNCHANGED agent
       ELSE /\ agent' = [agent EXCEPT !.state = "thinking", !.cancelling = FALSE]
            /\ Run(<<<<"cb_state", "thinking">>, <<"start_turn", "">>, <<"busy", "">>>>)

Inside == \/ agent_turn_done \/ clm_agent_submit \/ clm_agent_start_turn \/ compact_post
          \/ compact_error_cb \/ clm_agent_tools_done \/ MidChain \/ clm_tools_dispatch
          \/ gate_run \/ clm_tool_gate_respond \/ Release \/ permission_gate
          \/ clm_agent_cancel \/ cb_permission \/ DenyRest \/ ResolveSame \/ DropSame
          \/ Show \/ cb_state \/ SetPrev \/ SetBusy \/ drain_steering_queue \/ cb_turn_done \/ ForeverSubmit

-----------------------------------------------------------------------------
(* Keys.  While a prompt shows, a key answers it or does nothing.          *)

Key == Loop /\ ~ui.showing
Does(todo) == stack' = todo /\ UNCHANGED phase

\* A typed line and the result of a "!" command go the same way.
enqueue_steering(u) ==
    /\ ui' = [u EXCEPT !.typed = @ + 1, !.queue = Append(@, u.typed + 1)]
    /\ Does(IF u.busy THEN <<>> ELSE <<<<"drain", "">>>>)
    /\ UNCHANGED agent

More == ui.typed + ui.ncmds < MaxLines

submit_line == Key /\ More /\ enqueue_steering(ui)

run_shell_escape ==
    /\ Key /\ ~ui.shell /\ More
    /\ ui' = [ui EXCEPT !.shell = TRUE]
    /\ Does(<<>>) /\ UNCHANGED agent

shell_escape_done ==
    /\ Loop /\ ui.shell /\ More
    /\ enqueue_steering([ui EXCEPT !.shell = FALSE])

\* A plugin's command; it may answer before clm_lua_command_run returns.
run_command ==
    /\ Key /\ More
    /\ \/ ui' = [ui EXCEPT !.ncmds = @ + 1]
       \/ ui' = [ui EXCEPT !.ncmds = @ + 1, !.cmdLive = @ + 1,
                           !.waits = @ \cup {[id |-> ui.ncmds, gen |-> ui.cmdGen]}]
    /\ Does(<<>>) /\ UNCHANGED agent

\* A result from before an Escape is dropped.
cmd_done(c) == [ui EXCEPT !.waits = @ \ {c},
                          !.cmdLive = IF c.gen = ui.cmdGen THEN @ - 1 ELSE @]

CommandEnds == /\ Loop
               /\ \E c \in ui.waits : ui' = cmd_done(c)
               /\ Does(<<>>) /\ UNCHANGED agent

cmd_cancel_all(u) == [u EXCEPT !.cmdGen = @ + 1, !.cmdLive = 0]

InFlight == agent.timer \/ agent.req # "none" \/ agent.batch

\* With nothing in flight and no command, Escape only clears the input.
Escape ==
    /\ Key /\ ~agent.cancelling
    /\ UNCHANGED agent
    /\ \/ InFlight /\ Does(<<<<"cancel", "">>>>) /\ UNCHANGED ui
       \/ ~InFlight /\ ui.cmdLive > 0 /\ ui' = cmd_cancel_all(ui) /\ Does(<<>>)

cmd_compact == /\ Key /\ ~agent_busy
               /\ agent' = Compacting(agent)
               /\ Does(CompactCall \o <<<<"busy", "">>>>)
               /\ UNCHANGED ui

-----------------------------------------------------------------------------
(* What the event loop brings.                                             *)

\* The usage of a reply may be over the threshold.
Reading == IF AutoCompact THEN BOOLEAN ELSE {FALSE}
Waiting(rq) == Loop /\ agent.req = rq /\ ~agent.timer

\* agent_finish.
ReplyText ==
    /\ Waiting("turn")
    /\ \E o \in Reading, b \in Downs :
           agent' = [Landed(agent, "complete") EXCEPT !.over = o, !.down = b]
    /\ Does(Landing("complete", "ok")) /\ UNCHANGED ui

ReplyCalls ==
    /\ Waiting("turn")
    /\ \E o \in Reading, b \in Downs :
           agent' = [Landed(agent, "calling_tool") EXCEPT !.over = o, !.down = b]
    /\ \E S \in SUBSET ToSet(Calls) \ {{}} :
           Does(<<<<"cb_state", "calling_tool">>, <<"dispatch", S>>>>)
    /\ UNCHANGED ui

ReplyFails == /\ Waiting("turn")
              /\ agent' = Landed(agent, "error")
              /\ Does(Landing("error", "failed")) /\ UNCHANGED ui

\* rl_retry, compact_rl_retry.
ReplyLimited == /\ Waiting("turn") \/ Waiting("compact")
                /\ agent.retries < RetryMax
                /\ agent' = [agent EXCEPT !.state = "rate_limited", !.timer = TRUE,
                                          !.retries = @ + 1]
                /\ Does(<<<<"cb_state", "rate_limited">>>>) /\ UNCHANGED ui

\* on_llm_rl_timer leaves the state as it is, on_compact_rl_timer does not.
TimerFires ==
    /\ Loop /\ agent.timer /\ UNCHANGED ui
    /\ LET a == [agent EXCEPT !.timer = FALSE]
       IN  IF agent.req = "compact"
           THEN agent' = [a EXCEPT !.state = "thinking"] /\ Does(CompactCall)
           ELSE IF agent.down
           THEN agent' = Landed(a, "error") /\ Does(Landing("error", "failed"))
           ELSE agent' = a /\ Does(<<>>)

CompactFails == /\ Waiting("compact")
                /\ Does(<<<<"compact_error", "failed">>>>) /\ UNCHANGED <<agent, ui>>

compact_success_cb ==
    /\ Waiting("compact") /\ UNCHANGED ui
    /\ \E o \in Reading :
           LET a == [agent EXCEPT !.req = "none", !.resume = FALSE]
           IN  IF agent.resume
               THEN /\ agent' = [a EXCEPT !.state = "thinking", !.over = FALSE]
                    /\ Does(<<<<"cb_state", "thinking">>, <<"start_turn", "">>>>)
               ELSE /\ agent' = [Landed(a, "complete") EXCEPT !.over = o]
                    /\ Does(Landing("complete", "ok"))

ToolFinishes == \E c \in ToSet(Calls) :
    /\ Loop /\ agent.calls[c] = "running"
    /\ LET a == inv_finalize(agent, c) IN agent' = Kept(a) /\ Does(Ended(a))
    /\ UNCHANGED ui

HookAnswers == \E c \in ToSet(Calls) :
    /\ Loop /\ agent.calls[c] = "gated"
    /\ Does(<<<<"respond", c>>>>) /\ UNCHANGED <<agent, ui>>

\* Ctrl-C, /quit and SIGTERM stop the loop; clm_settle_turn cancels the turn
\* and runs the loop on.
Quit == /\ phase = "running" /\ stack = <<>>
        /\ phase' = "settling" /\ stack' = <<<<"cancel", "">>>>
        /\ UNCHANGED <<agent, ui>>

\* Everything is freed after at most CLM_SETTLE_ITERATIONS turns of the loop;
\* a "!" command is detached and killed.
Exit == /\ phase = "settling" /\ stack = <<>>
        /\ phase' = "gone" /\ agent' = FreshAgent /\ ui' = FreshUi
        /\ UNCHANGED stack

Keys == submit_line \/ answer_permission \/ run_shell_escape \/ run_command \/ Escape \/ cmd_compact
Server == ReplyText \/ ReplyCalls \/ ReplyFails \/ ReplyLimited
          \/ compact_success_cb \/ CompactFails
Events == Server \/ TimerFires \/ ToolFinishes \/ HookAnswers
Next == Inside \/ Keys \/ Events \/ shell_escape_done \/ CommandEnds \/ Quit \/ Exit

Spec == Init /\ [][Next]_vars

\* A C call returns; the server answers or the host times the request out,
\* tools and hooks end, timers fire.  The user owes nothing.
FairSpec == Spec /\ WF_vars(Inside \/ Events)

-----------------------------------------------------------------------------
(* Properties.                                                             *)

Parked == {[call |-> c, round |-> agent.round] :
               c \in {d \in ToSet(Calls) : agent.calls[d] = "parked"}}

\* The prompts the frontend holds are exactly the calls that wait for the
\* user, each once, and one shows whenever there is one: no prompt outlives
\* its turn (cb_turn_done), and the only calls that wait for an answer nobody
\* is asked for are those whose request cb_permission had no memory for.  Once
\* the program is ending, a key that answers "always" to the prompts of a turn
\* already cancelled may break this.
PromptsExact ==
    stack = <<>> /\ phase = "running" =>
        /\ ~ui.wild
        /\ ui.dropped \subseteq Parked
        /\ ToSet(ui.perms) = Parked \ ui.dropped
        /\ Len(ui.perms) = Cardinality(Parked \ ui.dropped)
        /\ ui.showing <=> ui.perms # <<>>

\* No line is given to the model twice, though it passes through the queue,
\* pending_notify and a local variable of agent_turn_done while callbacks start
\* turns that take what is pending (drain_steering_one, clm_agent_notify,
\* agent_turn_done, clm_agent_start_turn).
TypedOnce == IsInjective(agent.given \o agent.notify \o ui.queue)

\* cmd_live counts the commands whose result is still wanted, so Escape with
\* nothing else in flight cancels commands exactly when some run (cmd_done,
\* cmd_cancel_all).
CommandsCounted ==
    ui.cmdLive = Cardinality({c \in ui.waits : c.gen = ui.cmdGen})

\* What the frontend believes outstanding is what is: the prompts of the turn
\* and the commands of the plugins, on which what a key does depends.
OutstandingExact == PromptsExact /\ CommandsCounted

\* A typed line leaves the queue for the agent, unless a prompt waits for the
\* user, one was dropped, for which the turn waits for ever, or the program
\* ends (submit_line, cb_state, cb_turn_done, cb_permission).
TypedLeaves ==
    ui.queue # <<>> ~>
        (ui.queue = <<>> \/ ui.showing \/ ui.dropped # {} \/ phase # "running")

\* "never dropped" (agent_turn_done): every line typed is in the queue, in
\* pending_notify or in the history.
TypedKept ==
    stack = <<>> => 1 .. ui.typed \subseteq ToSet(agent.given \o agent.notify \o ui.queue)
=============================================================================
