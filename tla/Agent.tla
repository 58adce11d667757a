------------------------------- MODULE Agent -------------------------------
(***************************************************************************)
(* The turn state machine of an agent (libclm/agent.c): a prompt becomes a *)
(* request to the model, the model's tool calls become a batch and the     *)
(* batch another request, until the model answers, something fails, or the *)
(* user cancels.  Rate limits park a request, a context over its threshold *)
(* is compacted between two requests, and texts that arrive while a turn   *)
(* runs are queued for it.                                                 *)
(*                                                                         *)
(* `frames' is the C call stack as far as it matters: a call of            *)
(* clm_agent_start_turn about to run, a turn that has landed and is inside *)
(* its on_state callback ("state"), or inside its on_turn_done callback    *)
(* ("done").  Callbacks may call the agent back; answers of the host and   *)
(* of the tools come from the event loop, with the stack empty.            *)
(***************************************************************************)
EXTENDS Integers, Sequences, FiniteSets

CONSTANTS
    Texts,          \* texts given to clm_agent_notify, each once
    MaxTurns,       \* prompts and compactions accepted (bound)
    MaxIterations,  \* cfg max_iterations, 0 for no limit
    RetryMax,       \* CLM_RL_RETRY_MAX
    DenyLimit,      \* CLM_GATE_DENY_LIMIT
    Images,         \* images in the history
    InitUploads,    \* the provider may take file uploads
    InitDangling,   \* the history may be restored with a call without result
    Limited,        \* llm_rl # NULL: requests are paced
    HostTimers,     \* the host has timer_set
    TimersMayFail,  \* and it may fail
    Failures,       \* http_post, dispatch or building a request may fail
    EffortDiffers,  \* compaction asks for another effort than the session
    Replies,        \* what the model's server may answer
    Honest,         \* it complains only of what the request carried
    UserCompacts,   \* the user may ask for a compaction
    StateOps,       \* what the frontend's on_state calls back
    DoneOps         \* and its on_turn_done

States == {"idle", "thinking", "calling_tool", "rate_limited", "complete",
           "error"}
AllReplies == {"text", "calls", "limit", "stale_chain", "no_output",
               "file_lost", "no_tools", "failure"}
CompactReplies == {"folded", "limit", "effort", "failure"}
Ops == {"submit", "notify", "compact"}

ASSUME BoundsAssumption ==
    {MaxTurns, MaxIterations, RetryMax, DenyLimit, Images} \subseteq Nat
ASSUME FlagsAssumption ==
    {InitUploads, InitDangling, Limited, HostTimers, TimersMayFail,
     Failures, EffortDiffers, Honest, UserCompacts} \subseteq BOOLEAN
ASSUME ChoicesAssumption ==
    /\ Replies \subseteq AllReplies
    /\ StateOps \subseteq Ops
    /\ DoneOps \subseteq Ops

VARIABLES
    state,       \* agent->state
    req,         \* the request at the host that agent->inflight names
    timer,       \* llm_rl_timer or compact_rl_timer
    parked,      \* rl_parked_turn # NULL
    batch,       \* active_batch # NULL
    frames,      \* the C call stack
    cancelling, iteration,
    denials,     \* gate_denials
    chain,       \* resp_chain_id # NULL
    named,       \* the request in flight names it
    noTools,     \* tools_unsupported
    rlRetries,   \* turn->rl_retries
    resume,      \* compact_resume_chain
    cRetries,    \* compact_rl_retries
    fallback,    \* compact_effort_fallback
    uploads,     \* file_uploads
    nfiles,      \* images with an entry in agent->files
    filesLost,
    dangling,    \* the history holds a tool call without a result
    over,        \* the context is over the autocompact threshold
    place,       \* where each text is
    \* History variables.
    accepted,    \* prompts and compactions accepted
    ended,       \* on_turn_done calls
    kind         \* what the last turn accepted was

wakeVars == <<req, timer, parked, batch>>
turnVars == <<iteration, denials, cancelling>>
serverVars == <<chain, named, noTools>>
compactVars == <<resume, cRetries, fallback>>
fileVars == <<uploads, nfiles, filesLost>>
contextVars == <<dangling, over>>
historyVars == <<accepted, kind>>
vars == <<state, wakeVars, frames, turnVars, serverVars, rlRetries,
          compactVars, fileVars, contextVars, place, ended, historyVars>>

\* agent_busy.
Busy == state \in {"thinking", "calling_tool", "rate_limited"}

Queued == {t \in Texts : place[t] = "queued"}    \* pending_notify
Moved(S, to) == [t \in Texts |-> IF t \in S THEN to ELSE place[t]]

Frame(a, S) == [at |-> a, texts |-> S]
Frames == [at : {"start", "state", "done"}, texts : SUBSET Texts]
Top == frames[Len(frames)]
Pop == SubSeq(frames, 1, Len(frames) - 1)
In(a) == frames # <<>> /\ Top.at = a
Loop == frames = <<>>

Init ==
    /\ state = "idle" /\ req = "none" /\ timer = "none"
    /\ parked = FALSE /\ batch = FALSE
    /\ frames = <<>>
    /\ cancelling = FALSE /\ iteration = 0 /\ denials = 0
    /\ chain = FALSE /\ named = FALSE /\ noTools = FALSE
    /\ rlRetries = 0 /\ resume = FALSE /\ cRetries = 0 /\ fallback = FALSE
    /\ uploads \in {FALSE, InitUploads} /\ nfiles = 0 /\ filesLost = 0
    /\ dangling \in {FALSE, InitDangling} /\ over = FALSE
    /\ place \in [Texts -> {"new", "history"}]
    /\ accepted = 0 /\ ended = 0 /\ kind = "none"

-----------------------------------------------------------------------------
(* How a step ends; stk is the stack that its caller leaves.               *)

\* clm_agent_start_turn is called.
Start(stk) == frames' = Append(stk, Frame("start", {}))

\* Mutation: the rate-limit timer of a turn that ends is not cancelled.
LandKeepsTimer(st, stk) ==
    /\ state' = st
    /\ req' = "none" /\ parked' = FALSE /\ batch' = FALSE
    /\ frames' = Append(stk, Frame("state", {}))
    /\ UNCHANGED timer

\* The turn lands: the state is set and on_state called; agent_turn_done
\* follows when that returns.  Nothing is left to wait for.
Land(st, stk) ==
    /\ state' = st
    /\ req' = "none" /\ timer' = "none" /\ parked' = FALSE /\ batch' = FALSE
    /\ frames' = Append(stk, Frame("state", {}))

\* A request is at the host.
Posted(rq) ==
    /\ req' = rq
    /\ frames' = Pop
    /\ UNCHANGED <<timer, parked, batch>>

-----------------------------------------------------------------------------
(* The agent's API.                                                        *)

\* The caller is the event loop, or a callback that makes such calls.
Caller(op) == \/ Loop
              \/ (In("start") \/ In("state")) /\ op \in StateOps
              \/ In("done") /\ op \in DoneOps

\* clm_agent_submit, once it is not busy, up to clm_agent_start_turn.
Accept(stk) ==
    /\ state' = "thinking"
    /\ iteration' = 0 /\ denials' = 0 /\ cancelling' = FALSE
    /\ Start(stk)
    /\ accepted' = accepted + 1
    /\ kind' = "prompt"
    /\ UNCHANGED <<wakeVars, serverVars, rlRetries, compactVars, fileVars,
                   contextVars, ended>>

Submit ==
    /\ Caller("submit")
    /\ accepted < MaxTurns
    /\ ~Busy
    /\ Accept(frames)
    /\ UNCHANGED place

\* Only the queue changes.
OnlyPlace == UNCHANGED <<state, wakeVars, turnVars, serverVars, rlRetries,
                         compactVars, fileVars, contextVars, historyVars>>

\* clm_agent_notify: queued while a turn runs, a prompt otherwise. Texts differ
\* in name only, so they come in one order.
Notify(t) ==
    /\ Caller("notify")
    /\ place[t] = "new" /\ t = CHOOSE u \in Texts : place[u] = "new"
    /\ \/ /\ Busy
          /\ place' = Moved({t}, "queued")
          /\ OnlyPlace /\ UNCHANGED <<frames, ended>>
       \/ /\ ~Busy
          /\ accepted < MaxTurns
          /\ place' = Moved({t}, "history")
          /\ Accept(frames)

\* clm_agent_compact, asked for by the user, or by a frontend whose turn left
\* the context over the threshold.  A refused post is told by its return value
\* alone.
Compact ==
    /\ IF Loop THEN UserCompacts ELSE Caller("compact") /\ over
    /\ accepted < MaxTurns
    /\ ~Busy
    /\ cRetries' = 0 /\ fallback' = FALSE
    /\ \/ /\ state' = "thinking" /\ req' = "compact"
          /\ accepted' = accepted + 1
          /\ kind' = "compact"
       \/ /\ Failures
          /\ state' = "error"
          /\ UNCHANGED <<req, historyVars>>
    /\ UNCHANGED <<timer, parked, batch, frames, turnVars, serverVars,
                   rlRetries, resume, fileVars, contextVars, place, ended>>

\* clm_agent_cancel (-EALREADY while cancelling, -EINVAL with nothing to
\* abort).  The host reports an aborted request from inside http_cancel; the
\* response id may have come before, in the stream.
Cancel ==
    /\ ~In("start")
    /\ ~cancelling
    /\ \/ /\ timer # "none" \/ req # "none"
          /\ cancelling' = (timer = "none")
          /\ resume' = FALSE
          /\ chain' \in {chain, chain \/ req = "turn"}
          /\ Land("complete", frames)
       \/ /\ timer = "none" /\ req = "none" /\ batch
          /\ cancelling' = TRUE
          /\ UNCHANGED <<state, wakeVars, frames, resume, chain>>
    /\ UNCHANGED <<iteration, denials, named, noTools, rlRetries, cRetries,
                   fallback, fileVars, contextVars, place, ended, accepted,
                   kind>>

-----------------------------------------------------------------------------
(* Starting a request.                                                     *)

\* agent_http_post; a refused one ends the turn (turn_post_failed).
PostTurn(st) ==
    \/ Posted("turn") /\ state' = st
    \/ Failures /\ Land("error", Pop)

\* llm_dispatch: without tokens the request waits for them; without a timer
\* to wait on it is sent at once.
LlmDispatch ==
    \/ PostTurn(state)
    \/ /\ Limited /\ HostTimers
       /\ state' = "rate_limited" /\ timer' = "llm" /\ parked' = TRUE
       /\ frames' = Pop
       /\ UNCHANGED <<req, batch>>
    \/ Limited /\ HostTimers /\ TimersMayFail /\ PostTurn("rate_limited")

\* file_upload_start: the image is on its way, or goes inline, and then
\* either it gets an entry or uploading stops.
Upload ==
    /\ uploads /\ nfiles < Images
    /\ \/ Posted("upload") /\ UNCHANGED <<state, uploads, nfiles>>
       \/ Failures /\ LlmDispatch /\ uploads' = FALSE /\ UNCHANGED nfiles
       \/ Failures /\ LlmDispatch /\ nfiles' = nfiles + 1 /\ UNCHANGED uploads

\* clm_agent_start_turn: queued texts join the history, an image the server
\* does not have goes up first, and only what the server's chain lacks is sent
\* (a changed prompt part, or a chain longer than the history, resets it).
StartTurn ==
    /\ In("start")
    /\ place' = Moved(Queued, "history")
    /\ chain' \in {chain, FALSE}
    /\ named' = chain'
    /\ rlRetries' = 0
    /\ \/ Upload
       \/ ~(uploads /\ nfiles < Images) /\ LlmDispatch /\ UNCHANGED <<uploads, nfiles>>
       \/ Failures /\ Land("error", Pop) /\ UNCHANGED <<uploads, nfiles>>
    /\ UNCHANGED <<turnVars, noTools, compactVars, filesLost, contextVars,
                   ended, historyVars>>

-----------------------------------------------------------------------------
(* Answers to a request.                                                   *)

\* rl_retry: the same request again, after a wait.  The result of timer_set is
\* not looked at.
RlRetry ==
    /\ HostTimers
    /\ rlRetries < RetryMax
    /\ rlRetries' = rlRetries + 1
    /\ state' = "rate_limited" /\ req' = "none" /\ parked' = TRUE
    /\ \/ timer' = "llm"
       \/ TimersMayFail /\ timer' = "none"
    /\ UNCHANGED <<batch, frames>>

\* The request is dropped and built again.
Restart ==
    /\ req' = "none"
    /\ Start(frames)
    /\ UNCHANGED <<state, timer, parked, batch, rlRetries>>

\* Mutation: a failed request is not reported as the end of its turn.
FailsUnreported ==
    /\ state' = "error" /\ req' = "none"
    /\ UNCHANGED <<timer, parked, batch, frames, rlRetries>>

\* agent_fail, and the error callback of a request.
Fails == Land("error", frames) /\ UNCHANGED rlRetries

\* The complaints that can be true of the request in flight.  An id noted from
\* a request that named none shows that the server took its input.
Sincere(r) == CASE r = "stale_chain" -> named
                [] r = "no_output" -> named \/ (dangling /\ ~chain)
                [] r = "file_lost" -> nfiles > 0
                [] r = "no_tools" -> ~noTools
                [] OTHER -> TRUE

\* The complaints that the agent knows an answer to.
Curable(r) == CASE r = "stale_chain" -> chain
                [] r = "no_output" -> chain \/ dangling
                [] r = "file_lost" -> nfiles > 0
                [] r = "no_tools" -> ~noTools
                [] OTHER -> FALSE

\* agent_finish: a text ends the turn, tool calls are dispatched.
AgentFinish(r) ==
    \/ r = "text" /\ Land("complete", frames) /\ UNCHANGED rlRetries
    \/ /\ r = "calls"
       /\ state' = "calling_tool" /\ batch' = TRUE /\ req' = "none"
       /\ UNCHANGED <<timer, parked, frames, rlRetries>>
    \/ r \in {"text", "calls"} /\ Failures /\ Fails

\* chain_note_response, clm_agent_chain_reset: the response id may come with
\* any answer to the request proper, and a complaint about the chain ends it.
NoteResponse(r) ==
    chain' \in IF r \in {"text", "calls", "limit", "failure"} THEN {chain, TRUE}
              ELSE {chain /\ r \notin {"stale_chain", "no_output"}}

\* extract_usage, emit_usage: so may the size of the context.
NoteUsage(r) ==
    over' \in IF r \in {"text", "calls", "limit", "failure"} THEN BOOLEAN
             ELSE {over}

\* clm_http_success_cb_wrapper and stream_finalize.
TurnReply(r) ==
    /\ Loop /\ req = "turn"
    /\ Honest => Sincere(r)
    /\ \/ AgentFinish(r)
       \/ r = "limit" /\ RlRetry
       \/ r = "limit" /\ ~(HostTimers /\ rlRetries < RetryMax) /\ Fails
       \/ Curable(r) /\ Restart
       \/ r \notin {"text", "calls", "limit"} /\ ~Curable(r) /\ Fails
    /\ NoteResponse(r)
    /\ NoteUsage(r)
    /\ dangling' = (dangling /\ (r = "no_output" => chain))
    /\ noTools' = (noTools \/ r = "no_tools")
    /\ IF r = "file_lost" /\ nfiles > 0
       THEN /\ nfiles' = 0 /\ filesLost' = filesLost + 1
            /\ uploads' = (uploads /\ filesLost = 0)
       ELSE UNCHANGED fileVars
    /\ UNCHANGED <<turnVars, named, compactVars, place, ended, accepted, kind>>

\* clm_http_error_cb_wrapper, for anything but a cancel.  The response id may
\* have come before, in the stream.
TurnError ==
    /\ Loop /\ req = "turn"
    /\ Fails
    /\ chain' \in {chain, TRUE}
    /\ UNCHANGED <<turnVars, named, noTools, compactVars, fileVars,
                   contextVars, place, ended, historyVars>>

\* file_upload_success and file_upload_error: the image gets an entry, with or
\* without an id, and the turn starts again.  A server without a files
\* endpoint, or an entry that cannot be made, ends uploading.
UploadDone ==
    /\ Loop /\ req = "upload"
    /\ Restart
    /\ \/ nfiles' = nfiles + 1 /\ uploads' \in {uploads, FALSE}
       \/ Failures /\ uploads' = FALSE /\ UNCHANGED nfiles
    /\ UNCHANGED <<turnVars, serverVars, compactVars, filesLost, contextVars,
                   place, ended, historyVars>>

\* on_llm_rl_timer.
LlmTimer ==
    /\ Loop /\ timer = "llm"
    /\ \/ /\ timer' = "none" /\ parked' = FALSE /\ req' = "turn"
          /\ UNCHANGED <<state, batch, frames>>
       \/ Failures /\ Land("error", frames)
    /\ UNCHANGED <<turnVars, serverVars, rlRetries, compactVars, fileVars,
                   contextVars, place, ended, historyVars>>

-----------------------------------------------------------------------------
(* Compaction.                                                             *)

\* A compaction that fails in the middle of a chain lets the chain go on; any
\* other ends its turn.
CompactFails ==
    /\ resume' = FALSE
    /\ IF resume THEN Restart ELSE Fails

\* compact_post: a refused one goes to compact_error_cb.
CompactPost ==
    \/ /\ state' = "thinking" /\ req' = "compact" /\ timer' = "none"
       /\ UNCHANGED <<parked, batch, frames, rlRetries, resume>>
    \/ /\ Failures
       /\ resume' = FALSE
       /\ \/ /\ resume
             /\ state' = "thinking" /\ req' = "none" /\ timer' = "none"
             /\ Start(frames)
             /\ UNCHANGED <<parked, batch, rlRetries>>
          \/ ~resume /\ Fails

\* Mutation: the chain to resume is forgotten when a compaction waits.
CompactRlRetryForgets ==
    /\ HostTimers
    /\ cRetries < RetryMax
    /\ cRetries' = cRetries + 1
    /\ resume' = FALSE
    /\ state' = "rate_limited" /\ req' = "none" /\ timer' = "compact"
    /\ UNCHANGED <<parked, batch, frames, rlRetries, fallback>>

\* Mutation: the waits of a compaction are not counted.
CompactRlRetryUncounted ==
    /\ HostTimers
    /\ cRetries < RetryMax
    /\ state' = "rate_limited" /\ req' = "none" /\ timer' = "compact"
    /\ UNCHANGED <<cRetries, parked, batch, frames, rlRetries, resume,
                   fallback>>

\* compact_rl_retry, which does not look at timer_set's result either.
CompactRlRetry ==
    /\ HostTimers
    /\ cRetries < RetryMax
    /\ cRetries' = cRetries + 1
    /\ state' = "rate_limited" /\ req' = "none"
    /\ \/ timer' = "compact"
       \/ TimersMayFail /\ timer' = "none"
    /\ UNCHANGED <<parked, batch, frames, rlRetries, resume, fallback>>

\* compact_effort_retry: once, with the session's effort.
EffortRetry ==
    /\ EffortDiffers
    /\ ~fallback
    /\ fallback' = TRUE
    /\ CompactPost \/ (Failures /\ CompactFails)
    /\ UNCHANGED cRetries

\* compact_success_cb: the history is folded, and the chain resumed or the
\* turn ended.
CompactReply(r) ==
    /\ Loop /\ req = "compact"
    /\ \/ /\ r = "folded"
          /\ resume' = FALSE
          /\ IF resume THEN Restart
             ELSE Land("complete", frames) /\ UNCHANGED rlRetries
          /\ UNCHANGED <<cRetries, fallback>>
       \/ r = "limit" /\ CompactRlRetry
       \/ r = "effort" /\ EffortRetry
       \/ /\ \/ r = "limit" /\ ~(HostTimers /\ cRetries < RetryMax)
             \/ r = "effort" /\ ~(EffortDiffers /\ ~fallback)
             \/ r = "failure"
          /\ CompactFails
          /\ UNCHANGED <<cRetries, fallback>>
    /\ chain' = (chain /\ r # "folded")
    /\ over' = (over /\ ~(r = "folded" /\ resume))
    /\ UNCHANGED <<turnVars, named, noTools, fileVars, dangling, place, ended,
                   historyVars>>

\* compact_error_cb, for anything but a cancel.
CompactError ==
    /\ Loop /\ req = "compact"
    /\ CompactFails
    /\ UNCHANGED <<turnVars, serverVars, cRetries, fallback, fileVars,
                   contextVars, place, ended, historyVars>>

\* on_compact_rl_timer.
CompactTimer ==
    /\ Loop /\ timer = "compact"
    /\ CompactPost
    /\ UNCHANGED <<turnVars, serverVars, cRetries, fallback, fileVars,
                   contextVars, place, ended, historyVars>>

-----------------------------------------------------------------------------
(* The tools are done.                                                     *)

\* The context is over its threshold: clm_agent_compact with the chain to
\* resume, or the chain goes on if that cannot start.
MidChainCompact ==
    /\ state' = "thinking" /\ batch' = FALSE
    /\ cRetries' = 0 /\ fallback' = FALSE
    /\ \/ /\ req' = "compact" /\ resume' = TRUE /\ over' = FALSE
          /\ UNCHANGED <<timer, parked, frames>>
       \/ /\ Failures
          /\ Start(frames)
          /\ UNCHANGED <<req, timer, parked, resume, over>>

OutOfRounds(i) == MaxIterations > 0 /\ i >= MaxIterations

\* clm_agent_tools_done.  d counts the calls of the batch that hooks denied,
\* ok says that every result was recorded.
ToolsDone(d, ok) ==
    LET stop == ~ok \/ denials + d >= DenyLimit IN
    /\ Loop /\ batch
    /\ Failures \/ ok
    /\ cancelling' = FALSE
    /\ denials' = denials + d
    /\ iteration' = IF cancelling \/ stop \/ MaxIterations = 0 THEN iteration
                    ELSE iteration + 1
    /\ \/ cancelling /\ Land("complete", frames) /\ UNCHANGED <<compactVars, over>>
       \/ /\ ~cancelling /\ (stop \/ OutOfRounds(iteration + 1))
          /\ Land("error", frames)
          /\ UNCHANGED <<compactVars, over>>
       \/ /\ ~cancelling /\ ~stop /\ ~OutOfRounds(iteration + 1)
          /\ \/ over /\ MidChainCompact
             \/ /\ ~over
                /\ state' = "thinking" /\ batch' = FALSE
                /\ Start(frames)
                /\ UNCHANGED <<req, timer, parked, compactVars, over>>
    /\ UNCHANGED <<serverVars, rlRetries, fileVars, dangling, place, ended,
                   historyVars>>

-----------------------------------------------------------------------------
(* A turn has landed.                                                      *)

\* on_state returns; agent_turn_done takes what is queued, runs the turn hooks
\* and calls on_turn_done.
TurnDone ==
    /\ In("state")
    /\ frames' = Append(Pop, Frame("done", Queued))
    /\ place' = Moved(Queued, "taken")
    /\ ended' = ended + 1
    /\ OnlyPlace

\* Mutation: what was taken from the queue is not submitted.
ResubmitForgets ==
    /\ In("done")
    /\ frames' = Pop
    /\ OnlyPlace /\ UNCHANGED <<place, ended>>

\* on_turn_done returns; what was taken is submitted.  A refusal is ignored.
Resubmit ==
    /\ In("done")
    /\ \/ /\ Top.texts = {} \/ Busy
          /\ place' = Moved(Top.texts, "dropped")
          /\ frames' = Pop
          /\ OnlyPlace /\ UNCHANGED ended
       \/ /\ Top.texts # {} /\ ~Busy
          /\ place' = Moved(Top.texts, "history")
          /\ Accept(Pop)

-----------------------------------------------------------------------------
ApiNext == Submit \/ Compact \/ Cancel \/ \E t \in Texts : Notify(t)
HostNext ==
    \/ \E r \in Replies : TurnReply(r)
    \/ TurnError \/ UploadDone \/ LlmTimer
    \/ \E r \in CompactReplies : CompactReply(r)
    \/ CompactError \/ CompactTimer
    \/ \E d \in 0 .. DenyLimit, ok \in BOOLEAN : ToolsDone(d, ok)
CodeNext == StartTurn \/ TurnDone \/ Resubmit
Next == ApiNext \/ HostNext \/ CodeNext

Spec == Init /\ [][Next]_vars

\* C code runs on; the host answers every request and fires every timer it
\* accepted, and every batch ends (BatchSettles of ToolBatch).
Fairness == WF_vars(HostNext) /\ WF_vars(CodeNext)
FairSpec == Spec /\ Fairness

-----------------------------------------------------------------------------
(* Properties.                                                             *)

Landing == {k \in DOMAIN frames : frames[k].at = "state"}
Starting == {k \in DOMAIN frames : frames[k].at = "start"}

\* Every prompt and every compaction accepted gets exactly one on_turn_done,
\* however it ends: those still owed are the turn in flight and those landing.
OneTurnDone ==
    accepted - ended = (IF Busy THEN 1 ELSE 0) + Cardinality(Landing)

\* What will call the agent back: a start under way, a request, a timer, tools.
WakeUps == Cardinality(Starting)
             + (IF req # "none" THEN 1 ELSE 0)
             + (IF timer # "none" THEN 1 ELSE 0)
             + (IF batch THEN 1 ELSE 0)

\* A turn in flight has exactly one thing that will wake it up, and an agent
\* that may take a prompt has none: without one the turn never ends, with two
\* the second is a callback into a turn already freed.  A parked turn is one
\* that a timer will resend, so that a cancel, which looks at the timer, frees
\* the turn.
OneWakeUp ==
    /\ WakeUps = (IF Busy THEN 1 ELSE 0)
    /\ parked <=> timer = "llm"

\* The chain to resume is remembered while a mid-chain compaction runs, waits
\* included, and never outlives its turn or the compaction: a later one never
\* resumes an old chain.
ResumeExact ==
    /\ kind = "prompt" /\ (req = "compact" \/ timer = "compact") => resume
    /\ resume => /\ Busy /\ kind = "prompt"
                 /\ req \in {"none", "compact"} /\ timer # "llm" /\ ~batch

\* Every turn ends: no retry, restart or compaction repeats without bound.
TurnsEnd == Busy ~> ~Busy

\* A prompt or a compaction that a callback of the landing turn started has
\* the agent while that turn still holds the text it took from the queue.
Overtaken(t) == Busy /\ \E k \in DOMAIN frames : t \in frames[k].texts

\* A text queued by clm_agent_notify while a turn runs reaches the model's
\* history, with the next request or as a prompt of its own once the turn has
\* landed.  The one exception is a text whose turn is overtaken by its own
\* callbacks: agent_turn_done then ignores the refusal of clm_agent_submit.
NotifyDelivered ==
    \A t \in Texts :
        place[t] = "queued" ~> (place[t] = "history" \/ Overtaken(t))
=============================================================================
