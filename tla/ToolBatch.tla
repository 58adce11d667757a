------------------------------ MODULE ToolBatch ------------------------------
(***************************************************************************)
(* One agent's tool registry and the batches of tool calls it dispatches   *)
(* (libclm/tools.c): the pre_tool hooks, the permission gate, rate-limit   *)
(* parking, per-call timeouts, cancellation, and the detachment of a batch *)
(* whose agent is freed.                                                   *)
(*                                                                         *)
(* The library is single threaded but re-entrant: hooks, permission        *)
(* handlers, tools and cancel hooks are called from inside its loops and   *)
(* may answer at once or much later.  `stack' is the C call stack, cut     *)
(* down to the frames that still touch the batch once their callee         *)
(* returns.  A timer callback needs an empty stack (it comes from the      *)
(* event loop); an API call made by somebody else's code does not.         *)
(***************************************************************************)
EXTENDS Integers, Sequences, FiniteSets, Functions

CONSTANTS
    N,            \* calls in one assistant message
    Names,        \* tool names that are registered
    Asked,        \* the batches of calls the model may ask for
    MaxGen,       \* per name: how often it may be registered (bound)
    HookIds,      \* pre_tool hooks, one (fn, user) pair each
    InitHooks,    \* the hooks registered when the agent starts
    NoPrompt,     \* names registered with CLM_TOOL_NO_PROMPT
    Timed,        \* names whose calls have timeout_ms > 0
    CancelKind,   \* per name: how the tool's cancel hook behaves
    Decisions,    \* permission answers the user may give
    Verdicts,     \* answers a pre_tool hook may give
    Handler,      \* the frontend installed cb_on_permission
    HostTimers,   \* the host has timer_set
    MayOom,       \* a gate allocation may fail
    HookRemoval,  \* hooks may be removed while the agent runs
    CancelDepths, \* the stack depths clm_agent_cancel may be called at
    MayFree,      \* clm_agent_free may be called
    MaxBatches    \* batches dispatched (bound)

Calls == 1 .. N
Gens(nm) == 1 .. MaxGen[nm]
Unknown == "unknown"          \* a name the registry never holds
Nodes == UNION {{nm} \X Gens(nm) : nm \in Names}  \* struct clm_tool allocations
NoNode == <<Unknown, 0>>      \* inv->def == NULL
Kinds == {"none", "sync", "async"}
AllDecisions == {"allow", "deny", "allow_always", "deny_always"}
AllVerdicts == {"pass", "ask", "deny"}

ASSUME NAssumption == N \in Nat \ {0}
ASSUME NamesAssumption ==
    /\ Unknown \notin Names
    /\ Asked \subseteq [Calls -> Names \cup {Unknown}]
    /\ MaxGen \in [Names -> Nat \ {0}]
    /\ NoPrompt \subseteq Names
    /\ Timed \subseteq Names
    /\ CancelKind \in [Names -> Kinds]
ASSUME HooksAssumption ==
    /\ InitHooks \in Seq(HookIds)
    /\ \A j, k \in DOMAIN InitHooks : InitHooks[j] = InitHooks[k] => j = k
ASSUME EnvAssumption ==
    /\ Decisions \subseteq AllDecisions
    /\ Verdicts \subseteq AllVerdicts
    /\ {Handler, HostTimers, MayOom, HookRemoval, MayFree} \subseteq BOOLEAN
    /\ CancelDepths \subseteq Nat
    /\ MaxBatches \in Nat

VARIABLES
    hooks,      \* agent->pre_tool_hooks, in the order added
    nodeSt,     \* per clm_tool: none (not allocated), live (on the registry
                \* list), zombie (removed, kept for its calls) or freed
    inflight,   \* per clm_tool: its inflight count
    rem,        \* per clm_tool: the remembered _ALWAYS decision
    alive,      \* the agent exists (clm_agent_free not called)
    batches,    \* batches dispatched so far
    \* The current struct clm_tool_batch.
    bst,        \* none, active, detached or freed
    stack,      \* C frames that will touch the batch again
    pending,    \* batch->pending
    toolsDone,  \* clm_agent_tools_done calls for the batch
    cancelled,  \* clm_tools_cancel has run for the batch
    denials,    \* agent->gate_denials since the batch was dispatched
    \* Its invocations, batch->inv[], one function of the calls per field.
    def,        \* the tool node resolved at dispatch, NoNode if unknown
    stage,      \* rl_timer, gate, awaiting_perm and completed in one value
    gate,       \* the clm_tool_gate a hook has: none, live (gate->inv set) or
                \* orphan (gate->inv == NULL, not answered yet)
    gateNext,   \* the next hook to run
    forceAsk,   \* a hook asked for the permission gate
    timer,      \* the timeout clock runs
    timedOut,   \* it ran out
    abandoned,  \* the call is done but its tool has yet to report
    outcome,    \* what the tool result said
    answers     \* tool results the history got for the call

agentVars == <<hooks, alive, batches, cancelled, denials>>
gateVars == <<gate, gateNext, forceAsk>>
progress == <<stage, timer, outcome, answers, nodeSt, inflight, pending, bst,
              toolsDone, stack>>
vars == <<agentVars, gateVars, progress, rem, def, timedOut, abandoned>>

Frames == [fn : {"dispatch", "invoke", "cancel", "detach"}, i : 1 .. N + 1]
Frame(f, k) == [fn |-> f, i |-> k]
Stages == {"new", "rl", "gate", "perm", "running", "done"}

LiveNodes(nm) == {n \in Nodes : n[1] = nm /\ nodeSt[n] = "live"}

\* find_tool: a removed node is off the list and never resolved again.
FindTool(nm) == IF LiveNodes(nm) = {} THEN NoNode
                ELSE CHOOSE n \in LiveNodes(nm) : TRUE
NameOf(c) == def[c][1]

\* A calloc'ed batch->inv.
FreshCalls ==
    /\ stage' = [c \in Calls |-> "new"]
    /\ gate' = [c \in Calls |-> "none"]
    /\ gateNext' = [c \in Calls |-> 1]
    /\ outcome' = [c \in Calls |-> "none"]
    /\ answers' = [c \in Calls |-> 0]
    /\ forceAsk' = [c \in Calls |-> FALSE]
    /\ timer' = [c \in Calls |-> FALSE]
    /\ timedOut' = [c \in Calls |-> FALSE]
    /\ abandoned' = [c \in Calls |-> FALSE]

Init ==
    /\ hooks = InitHooks
    /\ nodeSt = [n \in Nodes |-> IF n[2] = 1 THEN "live" ELSE "none"]
    /\ inflight = [n \in Nodes |-> 0]
    /\ rem = [n \in Nodes |-> "no"]
    /\ alive = TRUE /\ batches = 0
    /\ bst = "none" /\ stack = <<>> /\ pending = 0
    /\ toolsDone = 0 /\ cancelled = FALSE /\ denials = 0
    /\ def = [c \in Calls |-> NoNode]
    /\ stage = [c \in Calls |-> "new"]
    /\ gate = [c \in Calls |-> "none"]
    /\ gateNext = [c \in Calls |-> 1]
    /\ outcome = [c \in Calls |-> "none"]
    /\ answers = [c \in Calls |-> 0]
    /\ forceAsk = [c \in Calls |-> FALSE]
    /\ timer = [c \in Calls |-> FALSE]
    /\ timedOut = [c \in Calls |-> FALSE]
    /\ abandoned = [c \in Calls |-> FALSE]

-----------------------------------------------------------------------------
(* The registry.                                                           *)

batchVars == <<bst, stack, pending, toolsDone, cancelled, denials, def, stage,
               gate, gateNext, forceAsk, timer, timedOut, abandoned, outcome,
               answers>>

\* clm_tool_add: -EEXIST while a live node has the name.
ToolAdd(nm) ==
    /\ alive
    /\ LiveNodes(nm) = {}
    /\ \E g \in Gens(nm) :
          /\ nodeSt[<<nm, g>>] = "none"
          /\ \A h \in Gens(nm) : h < g => nodeSt[<<nm, h>>] # "none"
          /\ nodeSt' = [nodeSt EXCEPT ![<<nm, g>>] = "live"]
    /\ UNCHANGED <<hooks, inflight, rem, alive, batches, batchVars>>

\* Mutation: the inflight count is not looked at.
ToolRemoveFrees(nm) ==
    /\ alive
    /\ \E n \in LiveNodes(nm) : nodeSt' = [nodeSt EXCEPT ![n] = "freed"]
    /\ UNCHANGED <<hooks, inflight, rem, alive, batches, batchVars>>

\* clm_tool_remove: the node is unlinked at once, and freed at once unless an
\* invocation pins it.
ToolRemove(nm) ==
    /\ alive
    /\ \E n \in LiveNodes(nm) :
          nodeSt' = [nodeSt EXCEPT ![n] = IF inflight[n] = 0 THEN "freed"
                                          ELSE "zombie"]
    /\ UNCHANGED <<hooks, inflight, rem, alive, batches, batchVars>>

\* clm_agent_add_pre_tool_hook: appended.
HookAdd(h) ==
    /\ alive
    /\ h \notin Range(hooks)
    /\ hooks' = Append(hooks, h)
    /\ UNCHANGED <<nodeSt, inflight, rem, alive, batches, batchVars>>

\* clm_agent_remove_pre_tool_hook: the later entries move down one place.
HookRemove(h) ==
    /\ alive
    /\ HookRemoval
    /\ \E k \in DOMAIN hooks :
          /\ hooks[k] = h
          /\ hooks' = SubSeq(hooks, 1, k - 1)
                         \o SubSeq(hooks, k + 1, Len(hooks))
    /\ UNCHANGED <<nodeSt, inflight, rem, alive, batches, batchVars>>

-----------------------------------------------------------------------------
(* Completion.  The operators below end a step for call c, with the stack  *)
(* as the code before them left it; each determines `progress'.            *)

\* batch->pending drops to p: at zero an attached batch is finalized (the
\* agent hears clm_agent_tools_done) and a detached one only freed.
Settle(p) ==
    /\ pending' = p
    /\ bst' = IF p = 0 THEN "freed" ELSE bst
    /\ toolsDone' = IF p = 0 /\ bst = "active" THEN toolsDone + 1
                    ELSE toolsDone

Dec(p) == IF p > 0 THEN p - 1 ELSE 0

\* The invocation's pin on its tool node goes; the last pin frees a zombie.
Unpin(n) ==
    IF n = NoNode
    THEN UNCHANGED <<nodeSt, inflight>>
    ELSE /\ inflight' = [inflight EXCEPT ![n] = @ - 1]
         /\ nodeSt' = [nodeSt EXCEPT ![n] =
                         IF @ = "zombie" /\ inflight[n] = 1 THEN "freed"
                         ELSE @]

\* inv_finalize.  A detached call records nothing: its agent is gone (and the
\* detach loop took its clock).
Finalize(c, stk, out) ==
    /\ stack' = stk
    /\ stage' = [stage EXCEPT ![c] = "done"]
    /\ timer' = [timer EXCEPT ![c] = FALSE]
    /\ IF bst = "detached"
       THEN UNCHANGED <<outcome, answers, nodeSt, inflight>>
       ELSE /\ outcome' = [outcome EXCEPT ![c] = out]
            /\ answers' = [answers EXCEPT ![c] = @ + 1]
            /\ Unpin(def[c])
    /\ Settle(Dec(pending))

\* clm_tool_fail, clm_tool_complete and its variants: a call that timed out
\* reports the timeout whatever the tool says.
Report(c, stk, out) ==
    Finalize(c, stk, IF timedOut[c] THEN "timedout" ELSE out)

\* The call waits for somebody (or, with its stage as it was, for the same).
Wait(c, stk, st) ==
    /\ stack' = stk
    /\ stage' = [stage EXCEPT ![c] = st]
    /\ UNCHANGED <<timer, outcome, answers, nodeSt, inflight, pending, bst,
                   toolsDone>>

-----------------------------------------------------------------------------
(* From the hooks through the permission gate into the tool.               *)

\* Mutation: run_invoke takes no hold for the synchronous part of the tool.
RunInvokeUnheld(c, stk) ==
    /\ stack' = Append(stk, Frame("invoke", c))
    /\ stage' = [stage EXCEPT ![c] = "running"]
    /\ UNCHANGED <<timer, outcome, answers, nodeSt, inflight, bst, toolsDone,
                   pending>>

\* run_invoke up to the call of the tool: the timeout clock starts (unless the
\* host has no timers or timer_set fails), and a hold keeps the batch open
\* until the tool's invoke function returns.
RunInvoke(c, stk) ==
    /\ stack' = Append(stk, Frame("invoke", c))
    /\ stage' = [stage EXCEPT ![c] = "running"]
    /\ \E armed \in BOOLEAN :
          /\ armed => NameOf(c) \in Timed /\ HostTimers
          /\ timer' = [timer EXCEPT ![c] = armed]
    /\ pending' = pending + 1
    /\ UNCHANGED <<outcome, answers, nodeSt, inflight, bst, toolsDone>>

\* permission_gate: default-deny.
PermissionGate(c, stk, ask) ==
    LET known == rem[def[c]] IN
    IF ~ask /\ (NameOf(c) \in NoPrompt \/ known = "allow")
    THEN RunInvoke(c, stk)
    ELSE IF known = "deny" \/ ~Handler
         THEN Report(c, stk, "failed")
         ELSE Wait(c, stk, "perm")

\* gate_run: give the call to the next hook, or to the gate after the last.
GateRun(c, stk, ask) ==
    /\ forceAsk' = [forceAsk EXCEPT ![c] = ask]
    /\ IF gateNext[c] > Len(hooks)
       THEN /\ PermissionGate(c, stk, ask)
            /\ gate' = [gate EXCEPT ![c] = "none"]
            /\ UNCHANGED gateNext
       ELSE /\ gateNext' = [gateNext EXCEPT ![c] = @ + 1]
            /\ \/ /\ Wait(c, stk, "gate")
                  /\ gate' = [gate EXCEPT ![c] = "live"]
               \/ /\ MayOom
                  /\ Report(c, stk, "failed")
                  /\ gate' = [gate EXCEPT ![c] = "none"]

\* dispatch_one.
DispatchOne(c, stk) ==
    IF def[c] = NoNode
    THEN Report(c, stk, "failed") /\ UNCHANGED gateVars
    ELSE GateRun(c, stk, forceAsk[c])

Top == stack[Len(stack)]
Pop == SubSeq(stack, 1, Len(stack) - 1)
Advance == [stack EXCEPT ![Len(stack)] = Frame(Top.fn, Top.i + 1)]
Running(f) == stack # <<>> /\ Top.fn = f

\* clm_tools_dispatch up to its second loop: build the invocations, pin their
\* tools, and take the dispatch hold.
Dispatch(nm) ==
    /\ alive
    /\ bst \in {"none", "freed"}
    /\ stack = <<>>
    /\ batches < MaxBatches
    /\ batches' = batches + 1
    /\ bst' = "active"
    /\ stack' = <<Frame("dispatch", 1)>>
    /\ pending' = N + 1
    /\ toolsDone' = 0 /\ cancelled' = FALSE /\ denials' = 0
    /\ FreshCalls
    /\ def' = [c \in Calls |-> FindTool(nm[c])]
    /\ inflight' = [n \in Nodes |-> inflight[n] +
                      Cardinality({c \in Calls : FindTool(nm[c]) = n})]
    /\ UNCHANGED <<hooks, nodeSt, rem, alive>>

\* One turn of the dispatch loop.  An empty token bucket parks the call on a
\* rate-limit timer, if the host can give one.
DispatchStep ==
    /\ Running("dispatch")
    /\ Top.i <= N
    /\ \/ DispatchOne(Top.i, Advance)
       \/ HostTimers /\ Wait(Top.i, Advance, "rl") /\ UNCHANGED gateVars
    /\ UNCHANGED <<agentVars, rem, def, timedOut, abandoned>>

\* Mutation: the hold is not given back.
ReleaseForgotten ==
    /\ stack' = Pop
    /\ Settle(pending)
    /\ UNCHANGED <<stage, timer, outcome, answers, nodeSt, inflight, agentVars,
                   gateVars, rem, def, timedOut, abandoned>>

\* A frame that held the batch is done with it.
Release ==
    /\ stack' = Pop
    /\ Settle(Dec(pending))
    /\ UNCHANGED <<stage, timer, outcome, answers, nodeSt, inflight, agentVars,
                   gateVars, rem, def, timedOut, abandoned>>

\* The loop is over: the dispatch hold goes.
DispatchReturn == Running("dispatch") /\ Top.i > N /\ Release

\* The tool's invoke function returns, and run_invoke gives up its hold.
InvokeReturn == Running("invoke") /\ Release

\* on_rl_timer: the tokens are there (or are taken on credit).
RlTimer(c) ==
    /\ stack = <<>>
    /\ stage[c] = "rl"
    /\ DispatchOne(c, stack)
    /\ UNCHANGED <<agentVars, rem, def, timedOut, abandoned>>

-----------------------------------------------------------------------------
(* Answers from hooks, from the user and from the tools.                   *)

\* Hooks, frontends and tools run on an idle loop or as somebody's callee.
\* The one loop that calls no such code is clm_tools_detach's: what a cancel
\* hook reports from inside it is part of DetachStep.
UserCode == ~Running("detach")

\* clm_tool_gate_respond.
GateRespond(c, v) ==
    /\ UserCode
    /\ gate[c] = "live"
    /\ \/ /\ v # "deny"
          /\ GateRun(c, stack, forceAsk[c] \/ v = "ask")
          /\ UNCHANGED denials
       \/ /\ v = "deny" \/ MayOom  \* no memory to copy the hook's arguments
          /\ Report(c, stack, "failed")
          /\ gate' = [gate EXCEPT ![c] = "none"]
          /\ denials' = IF v = "deny" THEN denials + 1 ELSE denials
          /\ UNCHANGED <<gateNext, forceAsk>>
    /\ UNCHANGED <<hooks, alive, batches, cancelled, rem, def, timedOut,
                   abandoned>>

\* The same for a gate whose call is gone: it is only freed.
GateRespondLate(c) ==
    /\ UserCode
    /\ gate[c] = "orphan"
    /\ gate' = [gate EXCEPT ![c] = "none"]
    /\ UNCHANGED <<progress, agentVars, gateNext, forceAsk, rem, def,
                   timedOut, abandoned>>

\* An _ALWAYS decision is kept on whatever node has the call's name now.
Remember(nm, d) ==
    rem' = IF d \in {"allow_always", "deny_always"} /\ FindTool(nm) # NoNode
           THEN [rem EXCEPT ![FindTool(nm)] =
                   IF d = "allow_always" THEN "allow" ELSE "deny"]
           ELSE rem

\* clm_tool_permission_respond.
PermissionRespond(c, d) ==
    /\ alive
    /\ stage[c] = "perm"
    /\ Remember(NameOf(c), d)
    /\ IF d \in {"allow", "allow_always"}
       THEN RunInvoke(c, stack)
       ELSE Report(c, stack, "failed")
    /\ UNCHANGED <<agentVars, gateVars, def, timedOut, abandoned>>

\* Mutation: the completed flag is not looked at.
ToolReportTwice(c, out) ==
    /\ UserCode
    /\ bst = "active"
    /\ stage[c] \in {"running", "done"}
    /\ Report(c, stack, out)
    /\ UNCHANGED <<agentVars, gateVars, rem, def, timedOut, abandoned>>

\* The tool reports.
ToolReport(c, out) ==
    /\ UserCode
    /\ stage[c] = "running"
    /\ Report(c, stack, out)
    /\ UNCHANGED <<agentVars, gateVars, rem, def, timedOut, abandoned>>

\* The tool of an abandoned call reports: the core ignores it.
ToolReportLate(c) ==
    /\ UserCode
    /\ abandoned[c]
    /\ abandoned' = [abandoned EXCEPT ![c] = FALSE]
    /\ UNCHANGED <<progress, agentVars, gateVars, rem, def, timedOut>>

\* inv->cancel != NULL: the tool set its hook before its invoke returned.
Armed(c) ==
    /\ stage[c] = "running"
    /\ CancelKind[NameOf(c)] # "none"
    /\ \A k \in DOMAIN stack : stack[k] # Frame("invoke", c)

\* The cancel hook either reports from inside the call (a pending MCP request,
\* a Lua sleep) or only starts to stop the work (a child process).
SyncHook(c) == CancelKind[NameOf(c)] = "sync"

\* on_timeout: with a cancel hook the tool still reports, and reports a
\* timeout; without, the call is abandoned.
OnTimeout(c) ==
    /\ stack = <<>>
    /\ timer[c]
    /\ timedOut' = [timedOut EXCEPT ![c] = TRUE]
    /\ IF Armed(c) /\ ~SyncHook(c)
       THEN /\ timer' = [timer EXCEPT ![c] = FALSE]
            /\ UNCHANGED <<stage, outcome, answers, nodeSt, inflight, pending,
                           bst, toolsDone, stack>>
       ELSE Finalize(c, stack, "timedout")
    /\ abandoned' = [abandoned EXCEPT ![c] = ~Armed(c)]
    /\ UNCHANGED <<agentVars, gateVars, rem, def>>

-----------------------------------------------------------------------------
(* Cancellation, and the end of the agent.                                 *)

\* clm_agent_cancel with a batch active (-EALREADY once one is unwinding),
\* into clm_tools_cancel: a hold keeps the batch open across the loop.
Cancel ==
    /\ alive
    /\ bst = "active"
    /\ ~cancelled
    /\ Len(stack) \in CancelDepths
    /\ cancelled' = TRUE
    /\ pending' = pending + 1
    /\ stack' = Append(stack, Frame("cancel", 1))
    /\ UNCHANGED <<hooks, alive, batches, denials, gateVars, stage, timer,
                   outcome, answers, nodeSt, inflight, bst, toolsDone, rem,
                   def, timedOut, abandoned>>

\* Mutation: a call waiting for its hook loses its gate and is not retired.
CancelStepStrands ==
    /\ Running("cancel")
    /\ Top.i <= N
    /\ LET c == Top.i IN
       /\ IF stage[c] = "rl" THEN Report(c, Advance, "failed")
          ELSE Wait(c, Advance, stage[c])
       /\ gate' = [gate EXCEPT ![c] = IF @ = "live" THEN "orphan" ELSE @]
    /\ UNCHANGED <<agentVars, gateNext, forceAsk, rem, def, timedOut,
                   abandoned>>

\* Mutation: a call waiting for tokens is left to its timer.
CancelStepLeavesParked ==
    /\ Running("cancel")
    /\ Top.i <= N
    /\ LET c == Top.i IN
       /\ IF stage[c] = "gate" THEN Report(c, Advance, "failed")
          ELSE Wait(c, Advance, stage[c])
       /\ gate' = [gate EXCEPT ![c] = IF @ = "live" THEN "orphan" ELSE @]
    /\ UNCHANGED <<agentVars, gateNext, forceAsk, rem, def, timedOut,
                   abandoned>>

\* One turn of the loop: a call waiting for tokens or for a hook is retired, a
\* call waiting for the user stays, and a running tool is asked to stop.
CancelStep ==
    /\ Running("cancel")
    /\ Top.i <= N
    /\ LET c == Top.i IN
       /\ IF stage[c] \in {"rl", "gate"} \/ (Armed(c) /\ SyncHook(c))
          THEN Report(c, Advance, "failed")
          ELSE Wait(c, Advance, stage[c])
       /\ gate' = [gate EXCEPT ![c] = IF @ = "live" THEN "orphan" ELSE @]
    /\ UNCHANGED <<agentVars, gateNext, forceAsk, rem, def, timedOut,
                   abandoned>>

CancelReturn == Running("cancel") /\ Top.i > N /\ Release

\* clm_tools_free_registry: every node still on the list.  A zombie is not.
FreeRegistry ==
    nodeSt' = [n \in Nodes |-> IF nodeSt[n] = "live" THEN "freed"
                               ELSE nodeSt[n]]

\* clm_agent_free: an active batch is detached, then the registry is freed.
AgentFree ==
    /\ alive
    /\ MayFree
    /\ stack = <<>>
    /\ alive' = FALSE
    /\ hooks' = <<>>
    /\ IF bst = "active"
       THEN /\ bst' = "detached"
            /\ stack' = <<Frame("detach", 1)>>
            /\ UNCHANGED nodeSt
       ELSE /\ FreeRegistry
            /\ UNCHANGED <<bst, stack>>
    /\ UNCHANGED <<batches, cancelled, denials, gateVars, stage, timer,
                   outcome, answers, inflight, pending, toolsDone, rem, def,
                   timedOut, abandoned>>

\* One turn of clm_tools_detach's loop: what never started is retired, what
\* runs loses its clock and is asked to stop.
DetachStep ==
    /\ Running("detach")
    /\ bst = "detached"
    /\ Top.i <= N
    /\ LET c == Top.i IN
       /\ IF Armed(c) /\ SyncHook(c)
          THEN Finalize(c, Advance, "failed")
          ELSE LET parked == stage[c] \in {"rl", "gate", "perm"} IN
               /\ stack' = Advance
               /\ timer' = [timer EXCEPT ![c] = FALSE]
               /\ stage' = [stage EXCEPT ![c] = IF parked THEN "done" ELSE @]
               /\ pending' = IF parked THEN Dec(pending) ELSE pending
               /\ UNCHANGED <<outcome, answers, nodeSt, inflight, bst,
                              toolsDone>>
       /\ gate' = [gate EXCEPT ![c] = IF @ = "live" THEN "orphan" ELSE @]
    /\ UNCHANGED <<agentVars, gateNext, forceAsk, rem, def, timedOut,
                   abandoned>>

\* After the loop: a batch with nothing left to wait for is freed.
DetachReturn ==
    /\ Running("detach")
    /\ bst = "detached"
    /\ Top.i > N
    /\ stack' = Pop
    /\ bst' = IF pending = 0 THEN "freed" ELSE bst
    /\ FreeRegistry
    /\ UNCHANGED <<agentVars, gateVars, stage, timer, outcome, answers,
                   inflight, pending, toolsDone, rem, def, timedOut,
                   abandoned>>

-----------------------------------------------------------------------------
RegistryNext ==
    \/ \E nm \in Names : ToolAdd(nm) \/ ToolRemove(nm)
    \/ \E h \in HookIds : HookAdd(h) \/ HookRemove(h)

Next ==
    \/ RegistryNext
    \/ \E nm \in Asked : Dispatch(nm)
    \/ DispatchStep \/ DispatchReturn \/ InvokeReturn
    \/ Cancel \/ CancelStep \/ CancelReturn
    \/ AgentFree \/ DetachStep \/ DetachReturn
    \/ \E c \in Calls :
          \/ RlTimer(c)
          \/ OnTimeout(c)
          \/ \E v \in Verdicts : GateRespond(c, v)
          \/ GateRespondLate(c)
          \/ \E d \in Decisions : PermissionRespond(c, d)
          \/ \E out \in {"ok", "failed"} : ToolReport(c, out)
          \/ ToolReportLate(c)

Spec == Init /\ [][Next]_vars

\* C code that runs keeps running, the host fires the timers it was given, and
\* the parties the API obliges to answer do answer: a hook its gate, the user
\* a prompt, a tool its call.  The one tool not relied on is one that has a
\* timeout armed and no cancel hook: on_timeout gives up on it.
Reliable(c) == IF timer[c] THEN CancelKind[NameOf(c)] # "none" ELSE TRUE
Fairness ==
    /\ WF_vars(DispatchStep) /\ WF_vars(DispatchReturn)
    /\ WF_vars(InvokeReturn)
    /\ WF_vars(CancelStep) /\ WF_vars(CancelReturn)
    /\ WF_vars(DetachStep) /\ WF_vars(DetachReturn)
    /\ \A c \in Calls :
          /\ WF_vars(RlTimer(c))
          /\ WF_vars(OnTimeout(c))
          /\ WF_vars(\E v \in Verdicts : GateRespond(c, v))
          /\ WF_vars(\E d \in Decisions : PermissionRespond(c, d))
          /\ WF_vars(Reliable(c)
                       /\ \E out \in {"ok", "failed"} : ToolReport(c, out))

FairSpec == Spec /\ Fairness

-----------------------------------------------------------------------------
(* Properties.                                                             *)

\* Types: every remembered decision is one of the modes permission_gate knows.
TypeOK ==
    /\ hooks \in Seq(HookIds)
    /\ nodeSt \in [Nodes -> {"none", "live", "zombie", "freed"}]
    /\ inflight \in [Nodes -> Int]
    /\ rem \in [Nodes -> {"no", "allow", "deny"}]
    /\ alive \in BOOLEAN /\ cancelled \in BOOLEAN
    /\ bst \in {"none", "active", "detached", "freed"}
    /\ stack \in Seq(Frames)
    /\ {batches, pending, toolsDone, denials} \subseteq Nat
    /\ def \in [Calls -> Nodes \cup {NoNode}]
    /\ stage \in [Calls -> Stages]
    /\ gate \in [Calls -> {"none", "live", "orphan"}]
    /\ gateNext \in [Calls -> Nat \ {0}]
    /\ outcome \in [Calls -> {"none", "ok", "failed", "timedout"}]
    /\ answers \in [Calls -> Nat]
    /\ {forceAsk, timer, timedOut, abandoned} \subseteq [Calls -> BOOLEAN]

Open == {c \in Calls : stage[c] # "done"}

\* The batch's count is exact: one for each call not finished and one for each
\* frame that holds the batch; a detached batch has no holds.  This is what
\* every "if (batch->pending == 0)" in tools.c relies on.
PendingExact ==
    /\ bst = "active" => pending = Cardinality(Open) + Len(stack)
    /\ bst = "detached" => pending = Cardinality(Open)

\* Where each frame and each call can be: only the bottom frame dispatches, and
\* the calls it has not reached are the untouched ones; a detached batch has at
\* most the detach loop above it, and the calls that loop has passed either run
\* without a clock or are done.  A call waits for its hook exactly while the
\* gate object points at it, and has its clock running only inside its tool.
BatchShape ==
    /\ \A k \in DOMAIN stack : stack[k].fn = "dispatch" => k = 1
    /\ bst = "none" => stack = <<>>
    /\ bst = "active" => alive /\ \A k \in DOMAIN stack : stack[k].fn # "detach"
    /\ bst = "detached" => ~alive
    /\ bst \in {"detached", "freed"} /\ stack # <<>> =>
         ~alive /\ Len(stack) = 1 /\ stack[1].fn = "detach"
    /\ \A c \in Calls :
         /\ gate[c] = "live" <=> stage[c] = "gate"
         /\ timer[c] => stage[c] = "running"
         /\ stage[c] \in {"rl", "gate", "perm", "running"} =>
              bst \in {"active", "detached"}
         /\ bst = "active" =>
              (stage[c] = "new" <=>
                 /\ stack # <<>>
                 /\ stack[1].fn = "dispatch"
                 /\ stack[1].i <= c)
         /\ bst = "detached" /\ (stack # <<>> => stack[1].i > c) =>
              stage[c] \in {"running", "done"} /\ ~timer[c]
         /\ bst = "detached" => stage[c] # "new"

\* No frame of dispatch, run_invoke or clm_tools_cancel is on the C stack when
\* the batch it still has to touch has been freed, however its callees
\* re-enter the library.
HeldFramesSafe ==
    bst = "freed" => \A k \in DOMAIN stack : stack[k].fn = "detach"

\* The agent hears clm_agent_tools_done exactly once per batch, when every
\* call has exactly one tool result in the history; never for a batch cut off
\* from its agent.
OneResultPerCall ==
    /\ \A c \in Calls :
         /\ answers[c] <= 1
         /\ stage[c] # "done" => answers[c] = 0
         /\ bst = "active" /\ stage[c] = "done" => answers[c] = 1
    /\ bst # "freed" => toolsDone = 0
    /\ bst = "freed" /\ alive => toolsDone = 1
    /\ toolsDone <= 1
    /\ toolsDone = 1 => \A c \in Calls : answers[c] = 1

\* A tool node outlives every call that points at it, and a removed node does
\* not outlive its last call (struct clm_tool's removed/inflight protocol).
PinsExact ==
    alive =>
      \A n \in Nodes :
        LET pins == IF bst = "active"
                    THEN {c \in Calls : def[c] = n /\ c \in Open} ELSE {}
        IN  /\ inflight[n] = Cardinality(pins)
            /\ pins # {} => nodeSt[n] \in {"live", "zombie"}
            /\ nodeSt[n] = "zombie" => pins # {}

\* Once clm_tools_cancel, called from the event loop, has gone through the
\* batch no call starts, except one the user then allows: nothing it left
\* behind (a rate-limit timer, a hook's late answer) runs a tool of a cancelled
\* turn.
NoStartAfterCancel ==
    [][cancelled /\ (\A k \in DOMAIN stack : stack[k].fn # "cancel") =>
         \A c \in Calls :
            stage[c] # "running" /\ stage'[c] = "running"
              => stage[c] = "perm"]_vars

\* Every batch ends: the turn that dispatched it goes on, or the batch is
\* freed behind a freed agent.
BatchSettles == (bst \in {"active", "detached"}) ~> (bst = "freed")
=============================================================================
