-------------------------------- MODULE Lua --------------------------------
(***************************************************************************)
(* One Lua plugin (libclmlua): its loading, its tool calls, pre_tool     *)
(* hooks and slash commands, each a coroutine that waits on http.get/post, *)
(* clm.sleep or clm.exec; its timers and children; the list of what is     *)
(* pending; and the unloading of the plugin under all of them.             *)
(*                                                                         *)
(* One thread runs everything. `frame' is the C frame that resumed Lua;    *)
(* the event loop goes on only when there is none. Between the entry into  *)
(* Lua and its return the plugin's code may call any binding.              *)
(***************************************************************************)
EXTENDS Naturals, Sequences, SequencesExt, FiniteSets

CONSTANTS
    Tools, Gates, Cmds,   \* tool calls, pre_tool hook runs, command runs
    Timed,                \* calls of tools registered with a timeout_ms above 0
    Timers, Kids,         \* clm.after timers, clm.spawn children
    MaxInflight,          \* CLM_LUA_HTTP_MAX_INFLIGHT
    MaxPerCall,           \* CLM_LUA_HTTP_MAX_PER_CALL
    MaxCalls,             \* bound on the calls into the API that the plugin makes
    Quirks,               \* what this plugin's code does that the API leaves open
    None, Main            \* no run; the plugin's main state

Runs == Tools \cup Gates \cup Cmds

\* The C frames that resume Lua: who does, for which run, the invocation and
\* the reference it holds.
Frames == [by : {"load", "invoke", "hook", "command", "callback", "http", "sleep", "exec", "timer"},
           run : Runs \cup {Main}, inv : Tools \cup {None}, ref : Runs \cup Timers \cup {None}]

ASSUME RunsAssumption ==
    /\ IsFiniteSet(Runs)
    /\ Tools \cap Gates = {} /\ Tools \cap Cmds = {} /\ Gates \cap Cmds = {}
    /\ None \notin Runs \cup Frames /\ Main \notin Runs
ASSUME TimedAssumption == Timed \subseteq Tools
ASSUME LimitsAssumption == {MaxInflight, MaxPerCall, MaxCalls} \subseteq Nat

VARIABLES
    pl,        \* the plugin: st, dead, its HTTP counts, and what it registered:
               \* its tool, its command (none, in, out), its hooks (on); leaked
               \* (history) counts the slots never given back
    reg,       \* the run the shared registry keys _clm_co_ref/_clm_inv name
    pend,      \* clm_lua_pending list: <<kind, owner>>
    run,       \* the runs
    req,       \* the request each coroutine waits on
    canc,      \* inv->cancel of each tool call: the waiting run, or None
    tm,        \* clm.after timers
    kid,       \* clm.spawn children, with the host's side of them
    frame,     \* the C frame Lua runs under, or None
    stale      \* something used an answered invocation, a freed run, a dead L

vars == <<pl, reg, pend, run, req, canc, tm, kid, frame, stale>>

NoReq == [kind |-> "none", inv |-> None, ref |-> None]
NoRun == [begun |-> FALSE, co |-> "none", rooted |-> FALSE, done |-> FALSE,
          mem |-> "none", timer |-> "off", answers |-> 0, spent |-> FALSE]
NoKid == [st |-> "none", exited |-> FALSE, pipes |-> 0, detached |-> FALSE, told |-> 0]

Init ==
    /\ pl = [st |-> "new", dead |-> FALSE, inflight |-> 0, total |-> 0, leaked |-> 0,
             tool |-> "none", cmd |-> "none", on |-> FALSE, calls |-> 0]
    /\ reg = None
    /\ pend = << >>
    /\ run = [r \in Runs |-> NoRun]
    /\ req = [r \in Runs |-> NoReq]
    /\ canc = [t \in Tools |-> None]
    /\ tm = [x \in Timers |-> "off"]
    /\ kid = [k \in Kids |-> NoKid]
    /\ frame = None
    /\ stale = FALSE

-----------------------------------------------------------------------------
(* The pending list, the registry and reports to the tool framework.       *)

clm_lua_pending_remove(kind, o) == RemoveFirst(pend, <<kind, o>>)

Listed(kind, o) == \E i \in 1 .. Len(pend) : pend[i] = <<kind, o>>

\* _clm_inv: a hook or a command leaves it nil.
RegInv == IF reg \in Tools THEN reg ELSE None

\* clm_tool_complete or clm_tool_fail of t in rn: the first report counts.
Told(rn, t) == IF t = None THEN rn ELSE [rn EXCEPT ![t].answers = 1]

\* The report would reach an invocation that has its answer, and may be freed.
Late(t) == t # None /\ run[t].answers > 0

\* The coroutine is over: mark off, luaL_unref of the captured reference.
Released(rn, r, ref) ==
    LET a == [rn EXCEPT ![r].co = "gone"]
    IN  IF ref \in Runs THEN [a EXCEPT ![ref].rooted = FALSE] ELSE a

\* The request is dropped, and nothing will resume the coroutine.
Lost(rn, r) == [rn EXCEPT ![r].co = IF @ = "parked" THEN "lost" ELSE @]

Unset(inv) == IF inv = None THEN canc ELSE [canc EXCEPT ![inv] = None]

\* A new coroutine, its reference and mark, and the registry keys.
Enter(by, r, rn) ==
    /\ run' = [rn EXCEPT ![r].begun = TRUE, ![r].co = "running", ![r].rooted = TRUE]
    /\ reg' = r
    /\ frame' = [by |-> by, run |-> r, inv |-> IF r \in Tools THEN r ELSE None, ref |-> r]

\* The event loop runs: no Lua frame is open and the plugin is not unloading.
Loop == frame = None /\ pl.st = "up"

-----------------------------------------------------------------------------
(* Loading: the file runs on the main state, under a deadline.             *)

\* clm_lua_load_plugins: a file that is no regular file, does not parse, or
\* cannot be given a state, is skipped.
Skipped ==
    /\ pl.st = "new"
    /\ pl' = [pl EXCEPT !.st = "freed"]
    /\ UNCHANGED <<reg, pend, run, req, canc, tm, kid, frame, stale>>

load_one_plugin ==
    /\ pl.st = "new"
    /\ pl' = [pl EXCEPT !.st = "up"]
    /\ frame' = [by |-> "load", run |-> Main, inv |-> None, ref |-> None]
    /\ UNCHANGED <<reg, pend, run, req, canc, tm, kid, stale>>

\* The file raises, or its deadline passes. Its hooks and commands come off;
\* its tools, timers and children do not, and the plugin is freed.
LoadFails ==
    /\ frame # None /\ frame.by = "load"
    /\ pend # << >> \/ pl.tool = "in" => "load_fails" \in Quirks
    /\ pl' = [pl EXCEPT !.st = "freed", !.cmd = "out", !.on = FALSE]
    /\ frame' = None
    /\ UNCHANGED <<reg, pend, run, req, canc, tm, kid, stale>>

-----------------------------------------------------------------------------
(* Entries: the agent calls a tool, asks a hook, runs a command.           *)

\* lua_tool_invoke of a usable plugin with arguments that parse. A call that
\* was parked may start a tool that has been removed since.
lua_tool_invoke(t) ==
    /\ frame = None /\ pl.st # "freed" /\ pl.tool # "none" /\ ~run[t].begun /\ ~pl.dead
    /\ Enter("invoke", t, run)
    /\ pl' = [pl EXCEPT !.total = 0]
    /\ UNCHANGED <<pend, req, canc, tm, kid, stale>>

\* The plugin is dead, the arguments are malformed, or building the coroutine
\* runs out of memory, which leaves the plugin dead (lua_plugin_panic).
lua_tool_invoke_fails(t) ==
    /\ frame = None /\ pl.st # "freed" /\ pl.tool # "none" /\ ~run[t].begun
    /\ \E panic \in BOOLEAN :
        /\ panic => /\ ~pl.dead
                    /\ (\E r \in Runs : req[r].kind \in {"http", "sleep"}) => "panic_inflight" \in Quirks
        /\ pl' = [pl EXCEPT !.total = 0, !.dead = @ \/ panic]
    /\ run' = Told([run EXCEPT ![t].begun = TRUE], t)
    /\ UNCHANGED <<reg, pend, req, canc, tm, kid, frame, stale>>

\* A pre_tool hook: a dead plugin passes at once. The hooks are off the agent
\* once unloading starts.
lua_pre_tool_hook(g) ==
    /\ Loop /\ pl.on /\ ~run[g].begun
    /\ IF pl.dead
       THEN /\ run' = [run EXCEPT ![g].begun = TRUE, ![g].answers = 1]
            /\ UNCHANGED <<reg, pend, frame>>
       ELSE /\ pend' = Append(pend, <<"gate", g>>)
            /\ Enter("hook", g, [run EXCEPT ![g].mem = "live"])
    /\ UNCHANGED <<pl, req, canc, tm, kid, stale>>

\* A slash command, with its wall limit. Unknown or dead: refused, no run.
clm_lua_hook_command_run(c) ==
    /\ Loop /\ ~run[c].begun /\ ~pl.dead /\ pl.cmd = "in"
    /\ pend' = Append(pend, <<"cmd", c>>)
    /\ Enter("command", c, [run EXCEPT ![c].mem = "live", ![c].timer = "wall"])
    /\ UNCHANGED <<pl, req, canc, tm, kid, stale>>

\* An event callback on the main state: a turn hook, or a line of a child.
clm_lua_plugin_callback ==
    /\ Loop /\ ~pl.dead
    /\ pl.on \/ \E k \in Kids : kid[k].st = "live" /\ kid[k].pipes > 0
    /\ frame' = [by |-> "callback", run |-> Main, inv |-> None, ref |-> None]
    /\ UNCHANGED <<pl, reg, pend, run, req, canc, tm, kid, stale>>

-----------------------------------------------------------------------------
(* What the plugin's code calls while it runs.                             *)

Counted == [pl EXCEPT !.calls = @ + 1]

\* A coroutine of this plugin runs, and may yield once more. Without quirks a
\* plugin waits again only while the registry is its own, not after it has
\* reported, and not after its timeout. A run whose wait has raised waits for
\* nothing more (bound).
MayYield ==
    /\ frame # None /\ frame.run \in Runs
    /\ pl.calls < MaxCalls
    /\ req[frame.run].kind = "none"
    /\ reg # frame.run => "overlap" \in Quirks
    /\ frame.run \in Tools /\ run[frame.run].done => "goes_on" \in Quirks
    /\ run[frame.run].spent => "retries" \in Quirks

\* The ctx of t exists; other code of the plugin may have kept it.
UsesCtx(t) ==
    /\ frame # None /\ run[t].co # "none"
    /\ frame.run # t => "keeps_ctx" \in Quirks

\* ctx:complete and ctx:fail, once per call.
lua_ctx_complete(t) ==
    /\ UsesCtx(t)
    /\ ~run[t].done
    /\ run' = [Told(run, t) EXCEPT ![t].done = TRUE]
    /\ stale' = (stale \/ Late(t))
    /\ UNCHANGED <<pl, reg, pend, req, canc, tm, kid, frame>>

\* ctx:args_raw reads the invocation, whose batch is held only while
\* lua_tool_invoke is on the stack: freed after an answer given later.
lua_ctx_args_raw(t) ==
    /\ UsesCtx(t)
    /\ LET late == Late(t) /\ ~(frame.by = "invoke" /\ frame.run = t)
       IN  /\ late => "args_late" \in Quirks
           /\ stale' = (stale \/ late)
    /\ UNCHANGED <<pl, reg, pend, run, req, canc, tm, kid, frame>>

clm_lua_http_done(p) == IF p.inflight > 0 THEN [p EXCEPT !.inflight = @ - 1] ELSE p

\* An http completion's frame gives its slot back when Lua has stopped.
Slots(p) == IF frame.by = "http" THEN clm_lua_http_done(p) ELSE p

\* A new request of kind k, which the coroutine of the frame waits on. Called
\* inside a C function (a gsub or table.sort callback) lua_yield raises, with
\* the request made, and the coroutine goes on.
Yields(k, p) ==
    LET r == frame.run
    IN  /\ req' = [req EXCEPT ![r] = [kind |-> k, inv |-> RegInv, ref |-> reg]]
        /\ canc' = IF RegInv = None THEN canc ELSE [canc EXCEPT ![RegInv] = r]
        /\ stale' = (stale \/ Late(RegInv))
        /\ \/ /\ run' = [run EXCEPT ![r].co = "parked"]
              /\ pl' = Slots(p)
              /\ frame' = None
           \/ /\ "yields_in_c" \in Quirks
              /\ pl' = p
              /\ UNCHANGED <<run, frame>>

\* The budget of in-flight requests and of requests per tool call.
clm_lua_http_start == pl.inflight < MaxInflight /\ pl.total < MaxPerCall

\* http.get and http.post. Over budget they raise and change nothing; while
\* the plugin is unloading they raise with the slot taken; a transport that
\* answers or refuses inside the start returns without yielding. Out of memory
\* for the headers they raise, and the slot is never given back.
lua_ctx_http_get ==
    /\ MayYield /\ clm_lua_http_start
    /\ LET p == [pl EXCEPT !.inflight = @ + 1, !.total = @ + 1, !.calls = @ + 1]
       IN  \/ /\ pl.st = "up"
              /\ Yields("http", p)
              /\ pend' = Append(pend, <<"req", frame.run>>)
           \/ /\ pl' = IF pl.st = "up" THEN [p EXCEPT !.inflight = pl.inflight] ELSE p
              /\ UNCHANGED <<pend, run, req, canc, frame, stale>>
           \/ /\ pl' = [p EXCEPT !.leaked = @ + 1]
              /\ UNCHANGED <<pend, run, req, canc, frame, stale>>
    /\ UNCHANGED <<reg, tm, kid>>

\* http.post: the same, with a body and a default content type.
lua_ctx_http_post == lua_ctx_http_get

\* clm.sleep: raises while the plugin is unloading.
lua_clm_sleep ==
    /\ MayYield /\ pl.st = "up"
    /\ Yields("sleep", Counted)
    /\ pend' = Append(pend, <<"req", frame.run>>)
    /\ UNCHANGED <<reg, tm, kid>>

\* clm.exec: lua_proc_start does not look at what clm_lua_pending_add says.
lua_clm_exec ==
    /\ MayYield
    /\ pl.st # "up" => "exec_tearing" \in Quirks
    /\ Yields("exec", Counted)
    /\ pend' = IF pl.st = "up" THEN Append(pend, <<"req", frame.run>>) ELSE pend
    /\ UNCHANGED <<reg, tm, kid>>

\* A timer of kind k: on the list, then armed.
lua_timer_start(x, k) ==
    /\ frame # None /\ pl.st = "up" /\ tm[x] = "off" /\ pl.calls < MaxCalls
    /\ pl' = Counted
    /\ tm' = [tm EXCEPT ![x] = k]
    /\ pend' = Append(pend, <<"timer", x>>)
    /\ UNCHANGED <<reg, run, req, canc, kid, frame, stale>>

lua_clm_after(x) == lua_timer_start(x, "set")

\* clm.notify: text for the agent, from a timer the plugin has no handle of.
lua_clm_notify(x) == lua_timer_start(x, "note")

Freed(x) == [tm EXCEPT ![x] = IF @ = "freed" THEN "twice" ELSE "freed"]

\* handle:cancel(). The handle is cleared when the timer is freed, which for a
\* timer that fires is after its function ran.
lua_timer_cancel(x) ==
    /\ frame # None
    /\ tm[x] \in {"set", "firing"}
    /\ tm[x] = "firing" => "self_cancel" \in Quirks
    /\ tm' = Freed(x)
    /\ pend' = clm_lua_pending_remove("timer", x)
    /\ UNCHANGED <<pl, reg, run, req, canc, kid, frame, stale>>

\* The host starts the child with both pipes open.
host_uv_proc_spawn == [NoKid EXCEPT !.st = "live", !.pipes = 2]

\* clm.spawn: started, then put on the list.
lua_clm_spawn(k) ==
    /\ frame # None /\ kid[k].st = "none" /\ pl.st = "up" /\ pl.calls < MaxCalls
    /\ pl' = Counted
    /\ kid' = [kid EXCEPT ![k] = host_uv_proc_spawn]
    /\ pend' = Append(pend, <<"child", k>>)
    /\ UNCHANGED <<reg, run, req, canc, tm, frame, stale>>

\* Registering under a name for the first time is not counted.
Registers(was) == (was # "none" => pl.calls < MaxCalls) /\ was # "in"
Registered(was) == IF was = "none" THEN pl ELSE Counted

\* clm.tool_register: a name that is taken, or no memory, raises.
lua_clm_tool_register ==
    /\ frame # None /\ Registers(pl.tool)
    /\ pl' = [Registered(pl.tool) EXCEPT !.tool = "in"]
    /\ UNCHANGED <<reg, pend, run, req, canc, tm, kid, frame, stale>>

\* clm.tool_remove, also from inside the tool.
lua_clm_tool_remove ==
    /\ frame # None /\ pl.tool = "in" /\ pl.calls < MaxCalls
    /\ pl' = [Counted EXCEPT !.tool = "out"]
    /\ UNCHANGED <<reg, pend, run, req, canc, tm, kid, frame, stale>>

\* clm.on: nothing keeps a plugin that is unloading from adding a hook.
lua_clm_on ==
    /\ frame # None /\ ~pl.on
    /\ pl.st # "up" => "on_tearing" \in Quirks
    /\ pl' = [pl EXCEPT !.on = TRUE]
    /\ UNCHANGED <<reg, pend, run, req, canc, tm, kid, frame, stale>>

\* clm.command_register; a name that is there is replaced.
lua_clm_command_register ==
    /\ frame # None /\ pl.st = "up" /\ Registers(pl.cmd)
    /\ pl' = [Registered(pl.cmd) EXCEPT !.cmd = "in"]
    /\ UNCHANGED <<reg, pend, run, req, canc, tm, kid, frame, stale>>

lua_clm_command_remove ==
    /\ frame # None /\ pl.cmd = "in" /\ pl.calls < MaxCalls
    /\ pl' = [Counted EXCEPT !.cmd = "out"]
    /\ UNCHANGED <<reg, pend, run, req, canc, tm, kid, frame, stale>>

-----------------------------------------------------------------------------
(* The coroutine ends.                                                     *)

\* lua_hook_finish: the hook's answer goes out from a timer.
lua_hook_finish(rn, g) ==
    IF rn[g].done THEN rn ELSE [rn EXCEPT ![g].done = TRUE, ![g].timer = "answer"]

\* lua_cmd_finish: after a timeout answer the run is only freed.
lua_cmd_finish(rn, c) ==
    IF rn[c].answers > 0
    THEN [rn EXCEPT ![c].mem = "freed", ![c].timer = "off"]
    ELSE [rn EXCEPT ![c].timer = "answer"]

\* The runner's finish(run, ok, r).
Finish(rn, r) ==
    CASE r \in Gates -> lua_hook_finish(rn, r)
      [] r \in Cmds  -> lua_cmd_finish(rn, r)
      [] OTHER       -> rn

\* The frame's coroutine returns. A tool that did not report is failed by
\* lua_tool_invoke only, not by the completions that resume it later; the
\* framework's clock is left, until it has rung.
Returns ==
    /\ frame # None /\ frame.run \in Runs
    /\ LET r      == frame.run
           unsaid == r \in Tools /\ ~run[r].done
           quirk  == IF run[r].spent THEN "forgets_late" ELSE "forgets"
       IN  /\ unsaid /\ frame.by # "invoke" => quirk \in Quirks
           /\ run' = Told(Released(Finish(run, r), r, frame.ref),
                          IF unsaid /\ frame.by = "invoke" THEN r ELSE None)
           /\ stale' = (stale \/ (r \notin Tools /\ run[r].mem = "freed"))
           /\ pend' = IF r \in Cmds /\ run[r].answers > 0 THEN clm_lua_pending_remove("cmd", r) ELSE pend
    /\ pl' = Slots(pl)
    /\ reg' = None
    /\ frame' = None
    /\ UNCHANGED <<req, canc, tm, kid>>

\* The frame's coroutine raises, or its deadline passes (lua_exec_hook). The
\* runner of a hook or a command catches it and calls finish.
Raises ==
    /\ frame # None /\ frame.run \in Tools
    /\ LET t   == frame.run
           inv == IF frame.by = "invoke" /\ run[t].done THEN None ELSE frame.inv
       IN  /\ run[t].done /\ frame.by # "invoke" => "late_error" \in Quirks
           /\ run' = Told(Released(run, t, frame.ref), inv)
           /\ stale' = (stale \/ Late(inv))
    /\ pl' = Slots(pl)
    /\ reg' = None
    /\ frame' = None
    /\ UNCHANGED <<pend, req, canc, tm, kid>>

\* The file, an event callback, or the function of a timer, is over.
CallbackEnds ==
    /\ frame # None /\ frame.run \notin Runs
    /\ tm' = IF frame.by = "timer" THEN Freed(frame.ref) ELSE tm
    /\ frame' = None
    /\ UNCHANGED <<pl, reg, pend, run, req, canc, kid, stale>>

-----------------------------------------------------------------------------
(* Completions.                                                            *)

\* The request of r is over: off the list, its cancel dropped.
Taken(r) ==
    /\ pend' = clm_lua_pending_remove("req", r)
    /\ canc' = Unset(req[r].inv)
    /\ req' = [req EXCEPT ![r] = NoReq]

\* Resume r from the completion `by'. It touches the Lua state.
Resume(by, r) ==
    /\ Taken(r)
    /\ run' = [run EXCEPT ![r].co = "running"]
    /\ frame' = [by |-> by, run |-> r, inv |-> req[r].inv, ref |-> req[r].ref]
    /\ stale' = (stale \/ pl.dead)
    /\ UNCHANGED <<pl, reg, tm, kid>>

\* A coroutine that does not wait is not resumed (its lua_status). It is over,
\* so it may have been collected, and its reference given to another.
SkipsResume(r, rn) ==
    /\ run[r].co # "parked"
    /\ Taken(r)
    /\ run' = Released(rn, r, req[r].ref)
    /\ reg' = IF req[r].kind = "sleep" THEN reg ELSE None
    /\ pl' = IF req[r].kind = "http" THEN clm_lua_http_done(pl) ELSE pl
    /\ stale' = TRUE
    /\ UNCHANGED <<tm, kid, frame>>

\* Its third guard: a reference that names another coroutine skips the resume.
lua_http_on_success(r) ==
    /\ Loop /\ req[r].kind = "http"
    /\ \/ run[r].co = "parked" /\ req[r].ref = r /\ run[r].rooted /\ Resume("http", r)
       \/ /\ run[r].co = "parked" /\ ~(req[r].ref = r /\ run[r].rooted)
          /\ Taken(r)
          /\ run' = Lost(run, r)
          /\ pl' = clm_lua_http_done(pl)
          /\ UNCHANGED <<reg, tm, kid, frame, stale>>
       \/ SkipsResume(r, run)

lua_http_on_error(r) ==
    /\ Loop /\ req[r].kind = "http"
    /\ (run[r].co = "parked" /\ Resume("http", r)) \/ SkipsResume(r, run)

lua_sleep_timer_cb(r) ==
    /\ Loop /\ req[r].kind = "sleep"
    /\ (run[r].co = "parked" /\ Resume("sleep", r)) \/ SkipsResume(r, run)

\* lua_proc_exit of a clm.exec: a dead plugin's call is failed without Lua.
lua_exec_done(r) ==
    /\ Loop /\ req[r].kind = "exec"
    /\ \/ ~pl.dead /\ run[r].co = "parked" /\ Resume("exec", r)
       \/ ~pl.dead /\ SkipsResume(r, run)
       \/ /\ pl.dead
          /\ Taken(r)
          /\ run' = Told(Lost(run, r), req[r].inv)
          /\ stale' = (stale \/ Late(req[r].inv))
          /\ UNCHANGED <<pl, reg, tm, kid, frame>>

\* clm.sleep cancelled: the request goes; the coroutine is never resumed.
lua_sleep_cancel(r, inv) ==
    /\ Taken(r)
    /\ run' = Told([Lost(run, r) EXCEPT ![inv].spent = TRUE], inv)
    /\ UNCHANGED <<pl, reg, tm, kid, frame, stale>>

\* Mutation: the child is dropped and the call is not failed.
lua_exec_cancel_silent(r, inv) ==
    /\ Taken(r)
    /\ run' = Released([run EXCEPT ![inv].spent = TRUE], r, req[r].ref)
    /\ reg' = None
    /\ UNCHANGED <<pl, tm, kid, frame, stale>>

\* clm.exec cancelled: the child is detached, the coroutine released.
lua_exec_cancel(r, inv) ==
    /\ Taken(r)
    /\ run' = Told(Released([run EXCEPT ![inv].spent = TRUE], r, req[r].ref), inv)
    /\ reg' = None
    /\ stale' = (stale \/ run[r].co # "parked")
    /\ UNCHANGED <<pl, tm, kid, frame>>

\* http cancelled: the transport reports the error now, and Lua is resumed.
lua_http_cancel(r, inv) ==
    \/ /\ run[r].co = "parked"
       /\ Taken(r)
       /\ run' = [run EXCEPT ![r].co = "running", ![inv].spent = TRUE]
       /\ frame' = [by |-> "http", run |-> r, inv |-> req[r].inv, ref |-> req[r].ref]
       /\ stale' = (stale \/ pl.dead)
       /\ UNCHANGED <<pl, reg, tm, kid>>
    \/ SkipsResume(r, [run EXCEPT ![inv].spent = TRUE])

\* The tool framework's timeout, or the cancelling of the turn, calls
\* inv->cancel, once (on_timeout, clm_tools_cancel).
ToolTimeout(t) ==
    /\ Loop /\ run[t].begun /\ run[t].answers = 0 /\ ~run[t].spent
    /\ canc[t] # None
    /\ LET r == canc[t]
       IN  \/ req[r].kind = "sleep" /\ lua_sleep_cancel(r, t)
           \/ req[r].kind = "exec" /\ lua_exec_cancel(r, t)
           \/ req[r].kind = "http" /\ lua_http_cancel(r, t)

\* With no cancel to call the framework reports the timeout itself.
ToolAbandoned(t) ==
    /\ Loop /\ run[t].begun /\ run[t].answers = 0 /\ ~run[t].spent
    /\ canc[t] = None
    /\ run' = [run EXCEPT ![t].answers = 1, ![t].spent = TRUE]
    /\ UNCHANGED <<pl, reg, pend, req, canc, tm, kid, frame, stale>>

\* The hook's answer, from its timer: off the list, freed, answered.
gate_timer_cb(g) ==
    /\ Loop /\ run[g].timer = "answer"
    /\ run' = [run EXCEPT ![g].timer = "off", ![g].mem = "freed", ![g].answers = @ + 1]
    /\ pend' = clm_lua_pending_remove("gate", g)
    /\ UNCHANGED <<pl, reg, req, canc, tm, kid, frame, stale>>

\* The command's answer, from its timer.
cmd_answer_cb(c) ==
    /\ Loop /\ run[c].timer = "answer"
    /\ run' = [run EXCEPT ![c].timer = "off", ![c].mem = "freed", ![c].answers = @ + 1]
    /\ pend' = clm_lua_pending_remove("cmd", c)
    /\ UNCHANGED <<pl, reg, req, canc, tm, kid, frame, stale>>

\* Mutation: the wall limit frees the run the coroutine still points to.
cmd_timeout_cb_frees(c) ==
    /\ Loop /\ run[c].timer = "wall"
    /\ run' = [run EXCEPT ![c].timer = "off", ![c].answers = @ + 1, ![c].mem = "freed"]
    /\ pend' = clm_lua_pending_remove("cmd", c)
    /\ UNCHANGED <<pl, reg, req, canc, tm, kid, frame, stale>>

\* The wall limit: answer now, keep the run for the coroutine.
cmd_timeout_cb(c) ==
    /\ Loop /\ run[c].timer = "wall"
    /\ run' = [run EXCEPT ![c].timer = "off", ![c].answers = @ + 1]
    /\ UNCHANGED <<pl, reg, pend, req, canc, tm, kid, frame, stale>>

\* A clm.after or clm.notify timer fires; a dead plugin's function is skipped.
lua_timer_fire(x) ==
    /\ Loop /\ tm[x] \in {"set", "note"}
    /\ pend' = clm_lua_pending_remove("timer", x)
    /\ IF tm[x] = "set" /\ ~pl.dead
       THEN /\ tm' = [tm EXCEPT ![x] = "firing"]
            /\ frame' = [by |-> "timer", run |-> Main, inv |-> None, ref |-> x]
       ELSE tm' = Freed(x) /\ UNCHANGED frame
    /\ UNCHANGED <<pl, reg, run, req, canc, kid, stale>>

-----------------------------------------------------------------------------
(* A spawned child, on the host's side (libclmuv/host_uv.c).               *)

\* host_uv_proc_settle: the exit callback once the child is gone and its
\* output drained, unless it was detached.
host_uv_proc_settle(kd, k) ==
    IF kd.st = "live" /\ kd.exited /\ kd.pipes = 0
    THEN [kd EXCEPT !.st = "settled", !.told = IF kd.detached THEN @ ELSE @ + 1]
    ELSE kd

\* lua_proc_exit: on_exit runs as a callback, then the struct is freed.
Settles(k, kd) ==
    /\ kid' = [kid EXCEPT ![k] = kd]
    /\ IF kd.told > kid[k].told
       THEN /\ pend' = clm_lua_pending_remove("child", k)
            /\ frame' = IF pl.dead THEN None
                        ELSE [by |-> "callback", run |-> Main, inv |-> None, ref |-> None]
       ELSE UNCHANGED <<pend, frame>>
    /\ UNCHANGED <<pl, reg, run, req, canc, tm, stale>>

host_uv_proc_read(k) ==
    /\ frame = None /\ pl.st # "tearing" /\ kid[k].st = "live" /\ kid[k].pipes > 0
    /\ Settles(k, host_uv_proc_settle([kid[k] EXCEPT !.pipes = @ - 1], k))

host_uv_proc_on_exit(k) ==
    /\ frame = None /\ pl.st # "tearing" /\ kid[k].st = "live" /\ ~kid[k].exited
    /\ Settles(k, host_uv_proc_settle([kid[k] EXCEPT !.exited = TRUE], k))

\* Mutation: detaching does not silence the exit callback.
host_uv_proc_detach_talks(k) ==
    host_uv_proc_settle([kid[k] EXCEPT !.pipes = 0], k)

\* host_uv_proc_detach: no more callbacks; SIGTERM, then SIGKILL after a grace.
host_uv_proc_detach(k) ==
    host_uv_proc_settle([kid[k] EXCEPT !.detached = TRUE, !.pipes = 0], k)

-----------------------------------------------------------------------------
(* Unloading: clm_lua_env_free, one pending entry at a time, because failing*)
(* one may make the agent call another tool of this plugin.                *)

\* The hooks and commands come off first.
clm_lua_hook_drop_all ==
    /\ Loop
    /\ pl' = [pl EXCEPT !.st = "tearing", !.cmd = "out", !.on = FALSE]
    /\ UNCHANGED <<reg, pend, run, req, canc, tm, kid, frame, stale>>

gate_run_teardown(g) ==
    /\ run' = [run EXCEPT ![g].timer = "off", ![g].mem = "freed", ![g].answers = @ + 1]
    /\ UNCHANGED <<req, canc, tm, kid, stale>>

\* Mutation: unloading answers a command that its wall limit has answered.
cmd_run_teardown_always(c) ==
    /\ run' = [run EXCEPT ![c].timer = "off", ![c].mem = "freed", ![c].answers = @ + 1]
    /\ UNCHANGED <<req, canc, tm, kid, stale>>

cmd_run_teardown(c) ==
    /\ run' = [run EXCEPT ![c].timer = "off", ![c].mem = "freed",
                          ![c].answers = IF @ = 0 THEN 1 ELSE @]
    /\ UNCHANGED <<req, canc, tm, kid, stale>>

\* lua_http_teardown, lua_sleep_teardown, lua_proc_teardown of an exec.
RequestTeardown(r) ==
    /\ canc' = Unset(req[r].inv)
    /\ req' = [req EXCEPT ![r] = NoReq]
    /\ run' = Told(Lost(run, r), req[r].inv)
    /\ stale' = (stale \/ Late(req[r].inv))
    /\ UNCHANGED <<tm, kid>>

clm_lua_pending_teardown_all ==
    /\ frame = None /\ pl.st = "tearing" /\ pend # << >>
    /\ pend' = Tail(pend)
    /\ LET kind == pend[1][1]
           o    == pend[1][2]
       IN  \/ kind = "gate" /\ gate_run_teardown(o)
           \/ kind = "cmd" /\ cmd_run_teardown(o)
           \/ kind = "req" /\ RequestTeardown(o)
           \/ kind = "timer" /\ tm' = Freed(o) /\ UNCHANGED <<run, req, canc, kid, stale>>
           \/ /\ kind = "child"
              /\ kid' = [kid EXCEPT ![o] = host_uv_proc_detach(o)]
              /\ UNCHANGED <<run, req, canc, tm, stale>>
    /\ UNCHANGED <<pl, reg, frame>>

\* lua_close: every coroutine is gone, and nothing may come back.
clm_lua_env_free ==
    /\ frame = None /\ pl.st = "tearing" /\ pend = << >>
    /\ pl' = [pl EXCEPT !.st = "freed"]
    /\ run' = [r \in Runs |-> [run[r] EXCEPT !.rooted = FALSE]]
    /\ UNCHANGED <<reg, pend, req, canc, tm, kid, frame, stale>>

Plugin ==
    \/ \E t \in Tools : lua_ctx_complete(t) \/ lua_ctx_args_raw(t)
    \/ lua_ctx_http_get \/ lua_ctx_http_post \/ lua_clm_sleep \/ lua_clm_exec
    \/ \E x \in Timers : lua_clm_after(x) \/ lua_clm_notify(x) \/ lua_timer_cancel(x)
    \/ \E k \in Kids : lua_clm_spawn(k)
    \/ lua_clm_tool_register \/ lua_clm_tool_remove \/ lua_clm_on
    \/ lua_clm_command_register \/ lua_clm_command_remove

Ends == Returns \/ Raises \/ CallbackEnds \/ LoadFails

Completion(r) == lua_http_on_success(r) \/ lua_http_on_error(r) \/ lua_sleep_timer_cb(r)

Next ==
    \/ Skipped \/ load_one_plugin
    \/ \E t \in Tools : lua_tool_invoke(t) \/ lua_tool_invoke_fails(t)
                        \/ ToolTimeout(t) \/ ToolAbandoned(t)
    \/ \E g \in Gates : lua_pre_tool_hook(g) \/ gate_timer_cb(g)
    \/ \E c \in Cmds : clm_lua_hook_command_run(c) \/ cmd_answer_cb(c) \/ cmd_timeout_cb(c)
    \/ clm_lua_plugin_callback \/ Plugin \/ Ends
    \/ \E r \in Runs : Completion(r) \/ lua_exec_done(r)
    \/ \E x \in Timers : lua_timer_fire(x)
    \/ \E k \in Kids : host_uv_proc_read(k) \/ host_uv_proc_on_exit(k)
    \/ clm_lua_hook_drop_all \/ clm_lua_pending_teardown_all \/ clm_lua_env_free

Spec == Init /\ [][Next]_vars

\* Lua code stops (its deadline), and an unloading goes through. The framework
\* arms a clock for the call of a tool with a timeout, and for no other
\* (run_invoke; clm.tool_register defaults to none). A due timer
\* or a finished transfer is served even if other callbacks keep coming: the
\* loop takes each in turn, hence SF. A child need not exit.
FairSpec ==
    /\ Spec
    /\ WF_vars(Ends)
    /\ \A t \in Timed : SF_vars(ToolTimeout(t) \/ ToolAbandoned(t))
    /\ \A t \in Tools : SF_vars(Completion(t))
    /\ \A c \in Cmds : SF_vars(cmd_answer_cb(c) \/ cmd_timeout_cb(c))
    /\ WF_vars(clm_lua_pending_teardown_all) /\ WF_vars(clm_lua_env_free)

-----------------------------------------------------------------------------
(* Properties.                                                             *)

Life(r) == IF run[r].answers > 0 THEN "settled" ELSE IF run[r].begun THEN "open" ELSE "idle"

Promise == INSTANCE Completions WITH
    Ids     <- Runs,
    st      <- [r \in Runs |-> Life(r)],
    answers <- [r \in Runs |-> run[r].answers]

\* Every tool call, hook run and command run is answered by exactly one call,
\* whatever of timeout, completion and unloading comes first, and none after
\* (libclmlua's completions, cmd_timeout_cb, the teardown functions).
AnsweredOnce == Promise!Spec

\* The pending list holds each struct that a callback can still reach, and
\* nothing else: what unloading must stop is on it, and once the plugin is
\* freed no request, timer, run or undetached child is left
\* (clm_lua_pending_add/_remove, clm_lua_pending_teardown_all).
PendingExact ==
    /\ \A i, j \in 1 .. Len(pend) : pend[i] = pend[j] => i = j
    /\ \A r \in Runs : Listed("req", r) <=> req[r].kind # "none"
    /\ \A g \in Gates : Listed("gate", g) <=> run[g].mem = "live"
    /\ \A c \in Cmds : Listed("cmd", c) <=> run[c].mem = "live"
    /\ \A x \in Timers : (Listed("timer", x) <=> tm[x] \in {"set", "note"}) /\ tm[x] # "twice"
    /\ \A k \in Kids : Listed("child", k) <=> kid[k].st = "live" /\ ~kid[k].detached
    /\ pl.st = "freed" => pend = << >>

\* A coroutine that waits is rooted by its own reference, the run it will
\* answer is still allocated, the invocation it names has no answer yet and
\* can be cancelled through it, and nothing dead or answered was ever used
\* (lua_cmd_run's lifetime rule, lua_http_cancel's comment).
WaitersSafe ==
    /\ ~stale
    /\ \A r \in Runs : req[r].kind # "none" =>
        /\ run[r].co = "parked" /\ run[r].rooted /\ req[r].ref = r
        /\ r \notin Tools /\ pl.st = "up" => run[r].mem = "live"
        /\ r \in Tools => run[r].answers = 0 /\ canc[r] = r

\* While the plugin is up every slot of the HTTP budget belongs to a request
\* in flight, to the completion being delivered, or to a start that ran out of
\* memory for its headers, which nobody gives back
\* (clm_lua_http_start/_done).
InflightExact ==
    pl.st = "up" =>
        pl.inflight = Cardinality({r \in Runs : req[r].kind = "http"})
                      + (IF frame # None /\ frame.by = "http" THEN 1 ELSE 0)
                      + pl.leaked

\* What a plugin has outstanding is what is counted for it: unloading stops
\* each request, timer, child and run exactly once, and no path but that one
\* leaks a slot of the HTTP budget or overdraws it.
CountsExact == PendingExact /\ InflightExact

\* The call of a tool with a timeout and a command run get their answer, even
\* when the child they wait for never exits, or the tool's function returns
\* without one and its plugin is not unloaded first (on_timeout,
\* cmd_timeout_cb). A tool without a timeout is promised nothing.
LimitsHold ==
    \A r \in Timed \cup Cmds :
        run[r].begun ~>
            (run[r].answers > 0 \/ (pl.st = "freed" /\ r \in Timed /\ run[r].co = "gone"))
=============================================================================
