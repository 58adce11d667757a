# A verification project for clm

clm is an embeddable LLM agent in C: `libclm` turns a prompt into requests to
a model, runs the tools that the model calls, and reports through callbacks;
`libclmuv` gives it a host on libuv and libcurl, with child processes, MCP
servers and peers; `libclmsession` keeps conversations on disk; `libclmlua`
runs plugins; `src/` holds the terminal and line frontends.

Everything in one process runs on one thread. What makes it hard is
**re-entrancy and order**: the library calls hooks, tools, prompts and
frontends from inside its own loops, and each of them may answer at once
(calling the library back) or much later, after a timeout, a cancel, a removal,
or the end of the agent. Around it are other processes (children, MCP servers,
other agents), a server that keeps part of the conversation, and a disk that
outlives a crash.

## 1. Inventory

| Part | State it keeps | Operations | Talks to | Module |
|---|---|---|---|---|
| Tool framework (`libclm/tools.c`) | tool list with `inflight`/`removed`, one active batch: `pending`, per call `def`, timers, gate, `awaiting_perm`, `completed` | add/remove tools, dispatch, gate and permission answers, complete/fail, timeout, cancel, detach | agent, hooks, frontend, tools, host timers, token bucket | `ToolBatch` |
| Agent (`libclm/agent.c`) | `state`, `inflight`, parked turn, rate-limit timers, `cancelling`, response chain, compaction flags, uploaded files, `pending_notify` | submit, notify, compact, cancel, answers of the host, tools done, end of turn | host, tool framework, history, dialects, frontend callbacks | `Agent`, `Wire` |
| Token bucket (`libclm/ratelimit.c`) | rate, burst, tokens, last refill | allow, consume, delay, set_rate, set_burst | clock; used by tools and agent | `RateLimit` |
| History (`libclm/history.c`) | message list, tool calls and their results | append, fold, repair, supersede, serialize | agent, session | `History` |
| Provider dialects (`libclm/provider_*.c`) and stream assembly (`agent.c`) | per-stream scratch, partial calls | build a request, read an answer whole or by events | agent | `Dialect`, `Wire` |
| Session store (`libclmsession`) | append-only log, its backup, image files | create, append, rewrite after compaction, collect images, replay, discard | agent's history hooks, frontend | `Session` |
| HTTP engine and host (`libclmuv/http_async.c`, `host_uv.c`) | requests on one curl multi handle, their count, timers | post, cancel, reap, free | agent, MCP, Lua | `HttpMux` |
| MCP client (`libclmuv/mcp_client.c`, `mcp_setup.c`) | handshake, pending calls by id, child, restart budget | start, call, cancel, server death, restart, free | tool framework, child process, HTTP engine | `McpClient` |
| Child processes (`libclmproc`, shell, background and monitor tools) | open handles, timers, kept output, batched lines | spawn, output, timeout, SIGTERM, grace, SIGKILL, close | tools, `clm_agent_notify` | `Proc` |
| Peers (`libclmuv/peer.c`) | a socket and a description per process, connections | bind, discover, send, acknowledge, reap | `clm_agent_notify` of another process | `Peer` |
| Lua plugins (`libclmlua`) | coroutines waiting on requests, sleeps and children; timers; HTTP budget; the pending list | tool calls, hooks, commands, limits, unload | tool framework, host | `Lua` |
| Terminal and line frontends (`src/tui.c`, `src/main.c`, `src/loop_drain.h`) | permission queue, steering queue, command count, busy flags | keys, callbacks, settling at exit | agent | `Frontend` |
| ESP32 port, standalone Lua module, text and image helpers | | | | not modelled (section 8) |

What makes each part correct:

* tools: the batch's count is exact, so the batch is freed once and never
  under a loop; every call gets one result; a node lives while a call needs
  it; every batch ends, and after a cancel nothing starts;
* agent: every accepted turn reports its end once; a turn in flight has exactly
  one thing that wakes it; no retry is unbounded; a queued text reaches the
  model;
* bucket: grants what time earned, and no starvation by polling;
* history and session: each call has one result, in order, across folding,
  repair, crash and resume; what was written before a crash is replayed;
* wire: what the server has read is the history, although chained requests send
  only a part; a streamed answer reads as the whole one does;
* host, MCP, processes, plugins: one completion per request, also when it is
  cancelled from inside a callback; nothing freed is used; what is released ends;
* peers: what a sender is told is true of the recipient, and a tool call ends
  although the other side dies, is wedged, or sends at the same time;
* frontend: the prompts shown are the calls that wait; a typed line is given to
  the agent, and once.

Where the code falls short of one of these, section 4 says so, and the property
excepts that case and no other.

The hazards in `PROJECT.json` list where each of these could go wrong, at the
line where it would, with the properties that would catch it.

## 2. How the modules fit together

```
Frontend ──► Agent ──► ToolBatch ──► Proc, McpClient, Lua, Peer   (the tools)
               │   └─► RateLimit
               ├─► Wire (EXTENDS Dialect EXTENDS History)
               ├─► Session (EXTENDS History)
               └─► HttpMux ◄── McpClient, Lua

Completions  ◄═ implemented by HttpMux, McpClient, Proc, Lua
```

`History` and `Dialect` are operators on sequences (what `history.c` and the
dialects compute); `Session` and `Wire` are the systems that use them. The other
modules meet at contracts: what one promises is what its neighbour assumes.
`Agent` takes for granted that every batch ends (`BatchSettles` of `ToolBatch`)
and that the host answers each request once (`OneAnswer` of `HttpMux`);
`ToolBatch` takes for granted that a running tool reports (`CancelEnds` and
`ReportedOnce` of `Proc`, `OneResult` of `McpClient`, `LimitsHold` of `Lua`,
`ToolEnds` of `Peer`; the tools that do not are in section 4); `McpClient` takes
HTTP answers from `OneAnswer`; and `Frontend` holds a shorter agent, whose turns
end as `OneTurnDone` says.

`Completions` is the abstract specification of an asynchronous request, from the
contract in `clm/host.h`: refused and never answered; or accepted, then answered
by exactly one callback, or dropped with its owner and never answered. Four
components are shown to implement it through a refinement mapping (`INSTANCE
Completions WITH`): requests of the HTTP engine (`OneAnswer`), calls of an MCP
server (`OneResult`), a command's report to its user (`ReportedOnce`), and a
plugin's tool calls, hook runs and command runs (`AnsweredOnce`). Each is a
temporal property of a run, so that it speaks about every step and not about
states only: an answer may not be taken back, repeated, or given to a request
nobody made. All four refinements are also proved, for any number of requests,
calls, commands and runs (section 7).

## 3. Modules and the code

Conventions. The C stack is a variable (`stack`, `frames`, `frame`) cut down to
the frames that touch state again after their callee returns; timers and I/O
callbacks need it empty, since they come from the event loop. A struct of the
code is a record; a function of the code keeps its name. Definitions named
"Mutation" are the plausible bugs that each property is tested against, and are
used by no specification. Texts are numbers or model values.

**ToolBatch.** One agent, its registry and its current batch. Each turn of a
loop (`clm_tools_dispatch`, `clm_tools_cancel`, `clm_tools_detach`) is a step,
and between two steps whatever the callee was may act: answer gates and prompts,
report, add and remove tools and hooks, cancel. (Not every turn of a loop calls
out; the model lets others act after each, which is more than the code allows and
never less.) A batch is freed when `pending` reaches zero; a frame still on the
stack then would read freed memory, which is what `HeldFramesSafe` excludes.
`stage` stands for the flags of an invocation: `rl` (parked on a timer), `gate`
(a hook has it), `perm` (awaiting a decision), `running`, `done`. `Nodes` are
allocations of `struct clm_tool`, a name with a generation, so that a tool
registered again is another node. A tool's cancel hook is `none`, `sync` (it
reports from inside the hook: a pending MCP request, a Lua sleep) or `async` (a
child process). Recording a result is assumed to have memory (a failure there is
`ok = FALSE` in `Agent`'s `ToolsDone`).

**Agent.** The turn machine. `StateOps` and `DoneOps` say which calls a frontend
makes from `on_state` and `on_turn_done`. The host answers from the event loop,
except that an aborted request is reported from inside `http_cancel`.
`TurnReply` is the whole answer handler: text, tool calls, a rate limit (429 or
in the stream), a lost response chain, a missing tool output, a lost file, a
model without tools, any other failure. `Honest` restricts the server to
complaints that are true of the request (`Sincere`); only liveness needs it.
`place` follows each text given to `clm_agent_notify`; `Overtaken` is one that
the end of a turn has taken from `pending_notify` and then finds the agent busy,
because a callback of that turn started another. The
size of the context is the flag `over`, which any answer may set. `accepted`,
`ended` and `kind` are history variables.

**RateLimit.** The bucket over an integer clock of `Scale` ticks to the second,
with `MaxWord` for `UINT64_MAX`, so that the overflow guard of `refill` is
reached with small numbers. `asked` keeps the last `clm_ratelimit_delay`; `size`,
`since`, `spent` and `refills` are history variables: an account of what was
granted, begun anew by `set_rate` and `set_burst`.

**History.** Messages with role, calls, the call they answer, a kind of body and
the room it takes; `compaction_fold` and the choice of its cut, supersession of
volatile results, and the repair of calls without results.

**Session.** One process at a time with a log, a backup and image files. Each
file operation is a step of `job`; a crash may come between any two, and a write
may stop in the middle of a line. A new process resumes: it replays records,
restores the history, repairs it, and goes on. `/clear` starts a new log,
`/model` notes the model in the log, `/agent` replaces the history and keeps the
log; `clm_session_list` is the row a listing shows. `written`, `used` and `tears`
are history variables.

**Dialect** and **Wire.** `Dialect` has, for each of the three wire formats, the
history laid out as a request (with tool images carried where a format cannot
put them in a result), an answer in one piece, and an answer by events through
the stream functions. What a server reads is a sequence of *facts* (said, asked,
answered, seen), so that three formats can be compared with one history. `Wire`
is a conversation: prompts, requests (whole, or chained on `resp_chain_id` with
the first `resp_chain_sent` messages skipped), answers, tool results,
notifications, changed prompt parts, folds, changes of provider, cancels and
failures. `held` is what the server keeps under each response id (external).

**HttpMux.** Requests over one curl multi handle. Completion callbacks run on
the stack of the function that found the transfer done and may post, cancel and
free the owner. curl's queue of finished transfers is external.

**McpClient.** One client as `mcp_setup.c` starts it. A stdio server is a process
that answers in any order, closes its output, or dies between any two steps; an
HTTP server answers or fails each request. Ids start again with each server.

**Proc.** A command, its child that may outlive it (`kid`), two pipes, the timer
and grace, and the closing of five handles, under four users: shell tool,
background job, monitor, and the terminal's `!` command. `read` is a history
variable.

**Lua.** One plugin, from its loading on. A run is a tool call, a hook run or a
command run, each a coroutine that waits on a request, a sleep or a child; `reg`
is what the shared registry keys name; `pend` the list that unloading walks;
`stale` records a use of something answered, freed or dead. `Timed` are the
calls of tools with a timeout. `Yields` is what `http.get`, `http.post`,
`clm.sleep` and `clm.exec` end with: the coroutine waits, or, called inside a C
function, raises with its request made; `SkipsResume` is the completion that
then finds it not waiting. `Quirks` names what a plugin's code may do that the
code does not guard against (section 4); `leaked` counts the HTTP slots of
starts that ran out of memory for their headers.

**Peer.** Processes interleaved at system calls: bind, unlink of a left-over
socket, connect, write, accept, read, acknowledge, timeouts, crash, restart. One
process is one thread, so it serves its socket only while it runs no tool; one
of `Wedged` may stop serving for ever. The connect of a probe blocks while the
queue is full, that of a send does not.

**Frontend.** `stack` is what the present callback still has to run; a key may
run a submit, a turn's end, its callbacks and the next submit in one C call. The
agent is the part of `Agent` and `ToolBatch` that the frontend can see; a hook
passes, denies or has the user asked (`force_ask`), at once or later. `cap` is
the room of the prompt queue, and `dropped` (history) the requests it could not
grow for.

## 4. Disagreements, and what the passing runs leave out

One run expects a violation: **`fe_lost`**. Two lines typed while an answer
streams: the first is accepted from `on_state` as a prompt of its own while the
landing turn is still in `agent_turn_done`, so the second, taken from
`pending_notify`, is refused with `-EBUSY`, and the refusal is ignored. The
comment in `agent.c` says that a notification queued mid-turn is never dropped.
`NotifyDelivered` of `Agent`, where `on_state` may notify and `on_turn_done` may
compact, excepts exactly the text so overtaken.

The passing runs leave out exactly what would make a property of theirs fail, so
each of these choices says something about the code. Those marked † can be
reproduced by changing the constant that is named.

*Tools.* Cancels come from the event loop († `CancelDepths`): the dispatch loop
does not look at `cancelling`, so a cancel by a callee of that loop does not stop
the calls it has yet to start. A synchronous cancel hook frees the batch under
`clm_tools_detach`, whose comment expects the completion "later, asynchronously";
no property is about that frame. Removing a `pre_tool` hook shifts the list under
a waiting call, which then skips a hook, although `clm.h` says they run in the
order they were added; no property says that every hook is asked. A tool removed
while its call runs is on no list when the agent is freed, and its node leaks, so
`PinsExact` is about a living agent. `run_invoke` does not look at `removed`, so a
call that waited may start a tool whose `detach` has run. A timed-out tool without
a cancel hook holds a pointer into a batch that may be freed before it reports.

*Agent.* `rl_retry` ignores the result of `timer_set`, so a timer that cannot be
set strands the turn († `TimersMayFail`). A prompt or a compaction started from
`on_state` or `on_turn_done` makes `agent_turn_done`'s submit of the queued text
fail, and the text is dropped (`Overtaken`). After a cancelled request
`cancelling` stays set, and a compaction started then cannot be cancelled
(`-EALREADY`).

*Bucket.* Rates above one token a tick (a million a second) make `used` round
down to less time than the tokens took; the run has none, the theorem covers
them.

*Session.* Restoring a history drops the images that `clm.h` says it keeps;
`Resumable` therefore is about the image files and records, not the restored
messages. A resume may stub a result that was the newest of its tool. A torn
line swallows the record after it (`Resumable` excepts exactly that one). A
session that dies inside create has no meta record. `/clear` gives the new
session no prompt record. `/agent` gives the new agent an empty history and goes
on with the old log, so a resume brings back messages that agent never saw, and
a fold before then rewrites the log without them. Two processes on one log are
not locked against each other, and a rewritten log is not opened for appending.

*HTTP and MCP.* `mcp.h` says that a running child is killed by release, which is
not so for a server that closed its output and lives. The header comment of
`mcp_client.c` says that calls in flight are not failed when the client is freed;
they are. `mcp_send_tools_list`
ignores a failed send, after which `on_ready` does not come.
`mcp_fail_all_http_calls` keeps `next` across `clm_tool_fail`, which is safe only
while no tool callback cancels another call.

*Processes.* An expired monitor is usually reported as "source ended". A monitor
whose process has exited but whose pipe is held by a child loses its timer, so
"it stops by itself" is not guaranteed. A partial line is dropped when the
command is killed by its timeout.

*Lua.* The registry keys of a plugin's coroutine and invocation are shared, so
two asynchronous runs alias († `Quirks` with "overlap"), against the comment at
`clm_lua_mark_invocation_thread`. The other quirks, each reproduced in the same
way:

| Quirk | The plugin's code | What the code then does |
|---|---|---|
| "yields_in_c" | waits inside a C function (a `gsub` or `table.sort` callback) | `lua_yield` raises after the request was listed and `inv->cancel` set: the request is left with a coroutine that is over, and an invocation that may be |
| "args_late" | reads `ctx:args_raw` after the call was answered | dereferences an invocation that was freed, unless `lua_tool_invoke` is still on the stack |
| "keeps_ctx" | uses a `ctx` from other code than its own run | reports for, or reads, an invocation that a timeout may have ended |
| "goes_on", "late_error", "retries" | waits again after `ctx:complete`, raises an error there, or waits again after a timeout | uses an answered invocation; after a timeout nothing stops the new wait |
| "forgets_late" | returns without completing after its timeout | the clock rings only once, so nobody answers |
| "self_cancel" | a timer cancels itself from its own callback | frees it twice |
| "panic_inflight" | runs out of memory with requests in flight | their completions resume a dead state |
| "load_fails" | fails to load after it registered a tool or started a timer or child | they keep pointing to the freed plugin |
| "exec_tearing", "on_tearing" | calls `clm.exec` or adds a hook while unloading | the child is on no list; the hook stays on the agent |

The run is of a plugin that does none of these; its tool may return without
completing before the timeout ("forgets"), and then only the clock answers for
it, or the unloading of the plugin leaves the call to the end of its agent. Two
defects need no quirk. `http.get` and `http.post` that run out of memory for
their headers give the slot that they took to nobody, so the budget of the
plugin shrinks for good; the run has this, and `CountsExact` counts the slots
lost there and no others. And a tool registered without `timeout_ms`, which is the default,
has no clock at all: in `clm.exec` on a child that never exits it is never
answered, so `LimitsHold` speaks of tools with a timeout (`Timed`).

*Peers.* Escaping can make an accepted text exceed the receive buffer (`Big`); a
line whose last newline could not be written is accepted although the sender is
told that it failed (partial writes are not modelled); a time-out or an end of
file in place of the acknowledgement counts as delivered, so `ResultTrue` speaks
of what was *read*; an old process's `clm_peer_free` unlinks its successor's
socket, and a restart can unlink a live one. `deliver` ignores a failed
allocation or notification and the line is still acknowledged; the model assumes
that memory suffices there. "A wedged peer must not park the loop", says
`send_line`, and its own connect does not block; but that of `peer_alive`, which
every send and listing goes through first, does, and has no timeout. Once the
queue of a wedged process is full, every agent that lists waits for ever, and
agents that probe each other in a circle with full queues wait for each other.
The run reaches both, and `ToolEnds` excepts them (`Parked`) and nothing else.

*Wire.* Empty arguments are `""` streamed and `"{}"` whole (the model's `Args`
treats both as none); a status that failed is hidden when a call was seen; a
stream cut without its end event is taken as complete; Anthropic requests may
hold two user messages in a row. `StreamExact` is about streams that end.

*Frontend.* If a request fails before `http_post` returns († `InlineFailures`),
`busy` is set after the turn has ended and the terminal waits for a turn that is
over, and answering "always" can count prompts below zero, since the turn's end
empties the queue under the loop; a key pressed while the program ends can do
the same, so `PromptsExact` is about the time before. A permission request that
`cb_permission` has no memory to queue is dropped. The comment there says that
the tool will time out, but the clock starts in `run_invoke`, once the user has
allowed the call: the call, and its turn, wait for ever. The run has this, and
`OutstandingExact` and `TypedLeaves` except exactly such a call (`dropped`).
Lines can reach the history out of the order they were typed in, so no property
says they do not. At exit `clm_settle_turn`'s cancel drains the queue and may
submit again with `--forever`, against the comment in `loop_drain.h`.
`cmd_provider` and `cmd_agent` build the address with "/chat/completions",
although `cmd_model`'s comment calls `clm_provider_build_url` the one place that
does so; addresses are not modelled.

## 5. Runs

No run checks for deadlock: an idle agent may wait for ever, and the bounds end
every behaviour.

| Run | Shows | Bounds |
|---|---|---|
| `tb_batch` | `PendingExact`, `HeldFramesSafe`, `OneResultPerCall`, `PinsExact`, `NoStartAfterCancel`, `BatchSettles` | batches of 2 calls, every two kinds of tool side by side, 2 generations of one tool, a hook that comes and goes, failing allocations, agent freed |
| `ag_turns` | `OneTurnDone`, `OneWakeUp`, `ResumeExact`, `TurnsEnd`, `NotifyDelivered` | 2 turns, 2 rounds, 1 retry, 1 image, 2 texts notified at any time or from `on_state` (1 for an agent that uploads files), compactions by the user and from `on_turn_done`, every honest reply, failures |
| `rl_bucket` | `TypeOK`, `Conservation`, `DelaySuffices` | three rates with zero, two bursts, sleeps that overflow the word |
| `ses_log` | `Resumable`, `ToolPairs`, `OneLiveSnapshot` | 5 messages, batches of 1 and 2 calls, 1 crash, 1 failing file operation; symmetry over the two model names, which are only compared |
| `http_mux` | `HandlesSafe`, `OneAnswer`, `EveryRequestEnds` | 2 requests, response limit of 1 chunk |
| `mcp_client` | `ReplyMatches`, `NothingDangles`, `OneResult`, `FreeEnds` | 2 calls, restart burst of 2 and one refill, both transports |
| `proc` | `KeptRight`, `MonitorOrder`, `ReportedOnce`, `CancelEnds` | 5 bytes on two streams in chunks of any size, 3 kept, four users |
| `lua` | `WaitersSafe`, `CountsExact`, `AnsweredOnce`, `LimitsHold` | one run of each kind, the tool with a timeout, a timer, a child, 1 request in flight, 2 API calls besides first registrations |
| `peer` | `ResultTrue`, `ToolEnds` | 2 processes, of which one may stop serving, 2 ids, 2 messages of which one is too long, queues of 1 connection, 2 binds, 2 listings or 1 crash |
| `wire` | `ReadsHistory`, `ImagesRead`, `StreamExact` | 3 dialects, 3 shapes of answer, 3 posts, 1 cancel, failure or change of settings, 4 messages |
| `frontend` | `OutstandingExact`, `TypedOnce`, `TypedLeaves` | 2 lines or plugin commands, a batch of 2 calls of one tool, the second judged by a hook that passes, asks or denies, memory for prompts that may fail, `--forever`, autocompaction, 1 retry |
| `fe_lost` | violates `TypedKept` | 3 lines |

Why these bounds are enough for the cases to happen. Two calls: one can finish,
be retired or free the batch while the other is untouched, waiting or running.
Two turns: one leaves something behind for the next. Two requests: a callback
can start, cancel or find finished another one. Two servers' worth of restarts:
a reply meant for the first reaches the second. One retry: the counter is at its
limit. Five bytes with three kept: output goes over the cap in one chunk or
several, in the head and in the tail. Two processes: each can be sender,
recipient and the owner of a left-over socket, and both can send at once. Queues
of one connection: a probe fills one, so that the next probe blocks and the next
send fails, as they do in the code when the queue of eight is full. Two texts:
the second can start a turn while the first, which the landing turn has taken,
is in a local variable. Three posts: a chain is begun, used, and broken. Nothing
in the code treats a third of any of these differently from the second.

## 6. Fairness

Every liveness property assumes that C code that runs goes on, and beyond that
only what the host owes:

* `tb_batch`: timers fire; hooks, users and tools answer, as their API obliges
  them, except a tool with its clock armed and no cancel hook, on which
  `on_timeout` gives up;
* `ag_turns`: the host answers requests and fires timers, batches end; the
  server is honest and `max_iterations > 0`;
* `http_mux`: curl's own timeout ends a transfer. This is strong fairness: the
  timer of a request is disarmed while a callback runs and armed again after;
* `mcp_client`: a killed child exits, its exit is reported, handles close. A
  server owes nothing else;
* `proc`: exits, timers, reads and closes are reported by libuv. A command owes
  nothing: it may run for ever, ignore SIGTERM, and leave a child behind;
* `lua`: a call that Lua was entered for returns, timers fire and completions are
  delivered, strongly, since other code of the plugin may run between; only the
  calls of tools with a timeout (`Timed`) have a clock; plugin code owes no answer;
* `peer`: a process goes on with the tool it runs while it can, and serves its
  socket when it runs none, unless it is one of `Wedged`. It may die;
* `frontend`: the agent's events come. The user owes nothing, so a prompt may
  wait for ever, and `TypedLeaves` says so.

libuv and libcurl justify the host's part: one report for each transfer, each
timer, each exit and each close.

## 7. Proofs

`ToolBatch_proofs` proves, for every number of calls, tools, generations and
hooks, cancels at any depth, and every choice of the constants that the
assumptions allow: `TypeOK`, `PendingExact`, `HeldFramesSafe` and
`OneResultPerCall`. None is inductive alone. `PendingExact` needs to know which
calls are unfinished and which frames hold the batch, which is `BatchShape` (only
the bottom frame dispatches, the untouched calls are those it has not reached, a
detached batch has at most the detach loop above it). `HeldFramesSafe` follows
because a batch is only freed at `pending = 0`, and with `PendingExact` that
leaves no unfinished call and no holding frame. So the inductive invariant `IInv`
is the conjunction of types, shape, count and results, and there is one lemma per
action; the operators that end a step (`Finalize`, `Wait`, `RunInvoke`,
`Release`) have lemmas of their own that the actions share. The cardinality of
the set of unfinished calls is used through three lemmas (finite, loses one, zero
means none).

On top of `IInv`, `PinsExact`: the pins of a removed tool's node are the calls
that point at it, so the node is freed by the last of them and no call points at
a freed one. `Pins` states it node by node, since registering a tool, removing
it, starting and ending a call each disturb one node. And the action property
`NoStartAfterCancel`, from a second invariant `CancelShape`: the cancel loop is
the bottom frame, and every call it has passed awaits the user, runs or is done,
so that no timer or late hook answer can start it. Its hypothesis is
`CancelDepths \subseteq {0}` (a cancel comes from the event loop): called inside
the dispatch loop, `clm_tools_cancel` leaves the calls that loop has yet to reach
to it, and the property is false (section 4).

`RateLimit_proofs` proves `TypeOK`, `Conservation` and `DelaySuffices` for every
scale, word, rate, burst, polling pattern and retuning. The inductive invariant
adds that the rate and the burst are among those the limiter was given, which is
what `WordAssumption` speaks about. The arithmetic rests on bounds of integer
division and monotonicity of products; `WordAssumption` (a full bucket's
`rate * elapsed` fits the word) is what makes the overflow branch imply a full
bucket.

`HttpMux_proofs` proves, for any finite set of requests and any limit,
`HandlesSafe` and that the engine implements `Completions` (`OneAnswer`). The
invariant says when a request is on the mux and which frame of the C stack still
owes it something; `live` is the cardinality of the requests attached to it, so
the mux is released when the last of them goes. In the simulation a post is an
`Accept` or a `Refuse`, a teardown the `Settle`, freeing the host the `DropAll`,
and the other steps stutter.

`Agent_proofs` proves `OneTurnDone` and `ResumeExact` for any number of texts,
turns, rounds and retries, and any calls from the callbacks. The invariant
(`TurnOK`, `StartOnTop`) says that a turn in flight has at most one thing that
will wake it up, a start under way is on top of the stack, and the stack counts
the turns that are landing. `OneWakeUp` (exactly one) is proved for a host whose
`timer_set` does not fail (`~TimersMayFail`): `rl_retry` and `compact_rl_retry`
do not look at its result, and a turn that waits for a timer never set has none.

`Peer_proofs` proves `ResultTrue` for every set of processes, ids and messages.
The invariant follows a message from the sender's call to a place in a backlog
or an accepted connection, at most one at a time, and says which answers can
still come from each.

`McpClient_proofs` proves `ReplyMatches`, `NothingDangles` and that calls
implement `Completions` (`OneResult`), for every set of calls and every restart
burst. The invariant relates the pending list, the requests in flight and the
replies in the pipe by their ids (a reply belongs to the entry with its id or to
none, although ids start again with each server), and the handles that are open
to the closes still counted.

`Proc_proofs` proves `KeptRight` for any output, any chunks and any sizes of head
and buffer, and that a command's report implements `Completions`
(`ReportedOnce`). `KeptRight` is proved element by element: byte `i` of the
buffer is byte `i` of the output, or is as far from its end. Most actions are
*quiet* (they move handles, timers and processes only); one lemma covers them.

`Lua_proofs` speaks of any number of tool calls, hook runs, commands, timers and
children of one plugin, and of any limits. It has two layers, by what the
plugin's code may do.

For *every* plugin (any `Quirks`), `LifeInv` is inductive. It says, run by run,
that a run which has not begun has nothing, that a run never runs and waits at
once, that a hook or command which still runs has its struct and no answer on
its way, that a timer is armed only for an answer not given, and that the list
holds each struct of a hook or command as long as it is allocated (`RunOK`).
From it follows `LifeSafe`, and the refinement `AnsweredOnce`: a run that begins
is an `Accept`, its answer the `Settle`, a run answered before the call that
starts it returns an `Inline`, and every other step stutters. A tool's second
answer is dropped by its own batch; for a hook or a command nothing but the life
of `gate_run` and `cmd_run` and of their timers says that the answer, which
several actions can give, was not given before, and that is what `RunOK`
records.

For an *orderly* plugin, `WaitersSafe` and `CountsExact`. `Orderly` excludes the
quirks under which they are false, each a path the code does not guard (section
4): "load_fails", "panic_inflight", "overlap", "goes_on", "late_error",
"exec_tearing", "self_cancel", "yields_in_c", "args_late" and "keeps_ctx". None
could be left out: with any one of them added, TLC finds `WaitersSafe` or
`CountsExact` violated (three API calls are
enough). Forgetting to answer, retrying after a timeout and adding hooks while
unloading are allowed. Three more invariants are conjoined, since `LifeInv` says
nothing of references: `WaitInv`, that a run which waits is rooted, on the list,
named by its own request, and for a tool not answered and cancelled through its
own hook; that whatever runs holds its own reference and invocation; and that
nothing dead was used; `ListInv`, that the list holds exactly the armed timers
and attached children, and nothing when the plugin is freed; and `CountInv`,
that the slots of the HTTP budget are the cardinality of the requests that wait
for the transport, one for the completion being delivered, and those that a
start without memory for its headers has lost (`leaked`). Each action has a
lemma per invariant; what only moves timers or children is covered by the lemmas
that leave runs alone.

The lemmas on sequences (a stack with a frame more or less, a list with one node
taken out, a part of a sequence, the least index of a set) open the proof
modules that use them.

The assumptions on constants are those of the modules, and TLC evaluates each:
finitely many requests (`ReqsAssumption`), natural limits and bursts
(`LimitAssumption`, `LimitsAssumption`, `McpAssumption`), finitely many runs of a
plugin, of three different kinds (`RunsAssumption`), some of its tool calls with
a timeout (`TimedAssumption`), sizes with the head within the buffer
(`SizesAssumption`), markers that are no message or call (`PeerAssumption`,
`McpAssumption`), and the choices that the environment may make.

Only model-checked, and why:

* liveness (`BatchSettles`, `TurnsEnd`, `NotifyDelivered`, `EveryRequestEnds`,
  `FreeEnds`, `CancelEnds`, `LimitsHold`, `ToolEnds`, `TypedLeaves`): fairness is
  out of the proof system's reach;
* `MonitorOrder`, and the properties of `Session` and `Wire`: they speak of what
  a fold over a sequence computes for every input (the lines a monitor splits, a
  history read back from its log, a request laid out by a dialect), an induction
  the provers cannot do;
* `OutstandingExact` and `TypedOnce` of `Frontend`: within reach. The invariant
  would relate the number outstanding to the prompts that each frame on the stack
  has yet to answer, for every frame the stack can hold.

## 8. Not modelled, and why

* **Probes, turn hooks, and `clm_agent_free` of the turn** (`agent.c`): probes
  are requests with no turn around them; turn hooks see a finished turn and
  nothing depends on them (one that removes itself makes the loop skip the
  next); freeing is modelled for the tool batch (`ToolBatch`) and for requests
  (`HttpMux`).
* **Byte work**: JSON text, UTF-8 repair and content caps, line splitting,
  base64, image scaling, diffs, markdown, SHA-256. These are sequential
  functions of their input, which unit tests and fuzzers reach.
* **Dialects**: reasoning channel, usage and timings, tool schemas, cache
  breakpoints. They carry no state from one request to the next.
* **Session**: titles, forking, and two processes on one log, which the code
  does not guard against.
* **Lua**: several plugins and the order they load in, configuration, the
  allocator's cap, JSON conversion; and the standalone module `lua/clm_lua.c`,
  which is argument conversion around calls that `Agent` models.
* **Frontend**: drawing, editing, completion, menus; start-up and options.
* **ESP32 port**: a host that answers inside `http_post`, on an RTOS that is not
  in the repository.
* **Vendored code and tests.**
