-------------------------------- MODULE Wire --------------------------------
(***************************************************************************)
(* The conversation on the wire.  The agent keeps one history and speaks   *)
(* one dialect at a time; a request is the history translated, or, where   *)
(* the server keeps responses, only what it does not hold yet              *)
(* (clm_agent_start_turn); an answer is read in one piece or event by      *)
(* event (clm_http_success_cb_wrapper, stream_handle_line).  Meanwhile the *)
(* user cancels, plugins notify and change the prompt, and the history is  *)
(* folded and superseded.                                                  *)
(***************************************************************************)
EXTENDS Dialect

CONSTANTS
    Dialects,      \* of "openai", "anthropic", "responses"
    Shapes,        \* answers: sequences of [k, tool, n], n pieces of a kind
    Statuses,      \* how an answer may end
    Volatile,      \* tools whose older results are superseded
    Imaging,       \* tools that answer with an image
    KeepBytes,     \* room of the tail that a fold keeps
    MaxMsgs,       \* messages numbered in one behaviour (bound)
    MaxPosts,      \* answers in one behaviour (bound)
    MaxRare,       \* cancels, failures and changes of settings in one behaviour (bound)
    MaxRetries     \* CLM_RL_RETRY_MAX

ASSUME WireAssumption ==
    /\ Dialects \subseteq {"openai", "anthropic", "responses"}
    /\ Statuses \subseteq {"completed", "incomplete", "filtered", "failed", "limited"}
    /\ MaxMsgs \in Nat /\ MaxPosts \in Nat /\ MaxRare \in Nat /\ MaxRetries \in Nat

VARIABLES
    hist,          \* agent->history
    dialect,       \* agent->llm->provider
    stream,        \* agent->stream
    parts,         \* the text of the prompt parts, as a number
    changed,       \* prompt_parts_changed
    chain,         \* resp_chain_id, resp_chain_sent
    notify,        \* pending_notify # NULL
    turn,          \* struct clm_async_turn, with its request and answer
    open,          \* calls of the running batch that have no result
    held,          \* what the server holds under each response id
    next,          \* the number of the next message
    rare           \* how often it happened, for the bound

vars == <<hist, dialect, stream, parts, changed, chain, notify, turn, open, held, next, rare>>

NoChain == [id |-> 0, sent |-> 0]
NoTurn == [pc |-> "idle"]

Init ==
    /\ hist = <<System(0)>>
    /\ dialect \in Dialects /\ stream \in BOOLEAN
    /\ parts = 0 /\ changed = FALSE
    /\ chain = NoChain /\ notify = FALSE
    /\ turn = NoTurn /\ open = {} /\ held = <<>> /\ next = 1 /\ rare = 0

Rare == rare < MaxRare /\ rare' = rare + 1

-----------------------------------------------------------------------------
(* Sending.                                                                 *)

\* Mutation: the message after the sent prefix is taken for the reply.
Skip_always(h, sent) == sent + 1

\* How many messages the server holds: those sent, and its own reply if the
\* history has it.
Skip(h, sent) == IF sent < Len(h) /\ h[sent + 1].role = "assistant" THEN sent + 1 ELSE sent

\* agent_flush_pending_notify: what was notified is a user message.
agent_flush_pending_notify(h, queued, k) == IF queued THEN Append(h, User(k)) ELSE h

\* The chain a request goes on from: none if the parts changed
\* (clm_agent_chain_reset), or if the history is shorter than what was sent.
ChainFor(h, ch) == IF changed \/ ch.sent = 0 \/ ch.sent > Len(h) THEN NoChain ELSE ch

\* clm_agent_start_turn, with the history, the chain, whether text is queued,
\* and the next number as they are by then.
clm_agent_start_turn(h0, ch0, queued, k) ==
    LET h == agent_flush_pending_notify(h0, queued, k)
        ch == ChainFor(h, ch0)
        skip == IF ch.id = 0 THEN 0 ELSE Skip(h, ch.sent)
        req == clm_provider_ops_get(dialect, SubSeq(h, skip + 1, Len(h)), parts)
    IN  /\ hist' = h
        /\ chain' = ch
        /\ turn' = [pc |-> "posted", prev |-> ch.id, msgs |-> Len(h), retries |-> 0,
                    said |-> Say(h, parts),
                    ctx |-> (IF ch.id = 0 THEN <<>> ELSE held[ch.id]) \o Read(dialect, req)]
        /\ notify' = FALSE /\ changed' = FALSE
        /\ next' = IF queued THEN k + 1 ELSE k

\* clm_agent_submit; a context update that goes before a prompt is taken as
\* part of it.
clm_agent_submit ==
    /\ turn = NoTurn /\ next <= MaxMsgs
    /\ clm_agent_start_turn(Append(hist, User(next)), chain, FALSE, next + 1)
    /\ UNCHANGED <<dialect, stream, parts, open, held, rare>>

\* agent_turn_done: text that came too late for the turn starts the next one.
agent_turn_done(h, ch, k) ==
    IF notify
    THEN clm_agent_start_turn(Append(h, User(k)), ch, FALSE, k + 1)
    ELSE /\ hist' = h /\ chain' = ch /\ turn' = NoTurn /\ next' = k
         /\ UNCHANGED <<notify, changed>>

\* rl_retry: the same request again, later.
rl_retry ==
    /\ turn.retries < MaxRetries
    /\ turn' = [pc |-> "posted", prev |-> turn.prev, msgs |-> turn.msgs, said |-> turn.said,
                ctx |-> turn.ctx, retries |-> turn.retries + 1]
    /\ UNCHANGED <<hist, chain, notify, changed, next>>

-----------------------------------------------------------------------------
(* The server.                                                              *)

\* A request is taken if every call in it has a result, and it does not go on
\* from a response that failed.
Accepts(ctx) ==
    \A f \in Range(ctx) :
        /\ f.k # "failed"
        /\ f.k = "use" => \E g \in Range(ctx) : g.k = "out" /\ g.v.of = f.v

Block(shape, r, i) ==
    [k |-> shape[i].k, tool |-> shape[i].tool, id |-> 10 * r + i,
     frags |-> [j \in 1 .. shape[i].n |-> 10 * i + j]]

Reply(shape, status) ==
    LET r == Len(held) + 1
    IN  [id |-> r, status |-> status, blocks |-> [i \in DOMAIN shape |-> Block(shape, r, i)]]

\* What a server that keeps responses holds: the conversation and its answer.
Holds(reply) ==
    IF Failed(reply.status) THEN <<Fact("failed", 0)>>
    ELSE turn.ctx \o FlattenSeq([i \in DOMAIN reply.blocks |->
        IF reply.blocks[i].k = "call" THEN <<Fact("use", reply.blocks[i].id)>> ELSE <<Fact("reply", 0)>>])

\* Only a Responses answer, or an event stream, fails with status 200.
Answer ==
    /\ turn.pc = "posted" /\ Len(held) < MaxPosts
    /\ Accepts(turn.ctx)
    /\ \E shape \in Shapes, status \in Statuses :
        LET reply == Reply(shape, status)
        IN  /\ Failed(status) => stream \/ dialect = "responses"
            /\ held' = Append(held, IF dialect = "responses" THEN Holds(reply) ELSE <<>>)
            /\ turn' = [pc |-> IF stream THEN "reading" ELSE "whole", prev |-> turn.prev,
                        msgs |-> turn.msgs, retries |-> turn.retries, said |-> turn.said,
                        ctx |-> turn.ctx, reply |-> reply, asm |-> turn_reset_response,
                        evs |-> [i \in DOMAIN reply.blocks |->
                                    BlockEvents(reply.blocks[i], IndexOf(dialect, reply.blocks, i))],
                        ended |-> FALSE]
    /\ UNCHANGED <<hist, dialect, stream, parts, changed, chain, notify, open, next, rare>>

\* The response is gone, or a call in it has no result: the chain is dropped
\* and everything sent again.
Refused ==
    /\ turn.pc = "posted" /\ turn.prev # 0 /\ next <= MaxMsgs
    /\ clm_agent_start_turn(hist, NoChain, notify, next)
    /\ UNCHANGED <<dialect, stream, parts, open, held, rare>>

\* Too many requests; or any other failure, which ends the turn.
Limited ==
    /\ Rare
    /\ turn.pc = "posted"
    /\ rl_retry
    /\ UNCHANGED <<dialect, stream, parts, open, held>>

agent_fail == agent_turn_done(hist, chain, next)

PostFails ==
    /\ Rare
    /\ turn.pc = "posted"
    /\ agent_fail
    /\ UNCHANGED <<dialect, stream, parts, open, held>>

-----------------------------------------------------------------------------
(* Reading the answer.                                                      *)

\* The next request goes on from here.
chain_note_response(rid, msgs) == IF rid = 0 THEN chain ELSE [id |-> rid, sent |-> msgs]

\* The queue the next event is from: one block after the other, but calls may
\* come interleaved from a server that says which call a piece is of.
MayBeNext(i) ==
    /\ turn.evs[i] # <<>>
    /\ dialect = "anthropic" => \A j \in 1 .. i - 1 : turn.evs[j] = <<>>

AllRead == \A i \in DOMAIN turn.evs : turn.evs[i] = <<>>

\* clm_http_data_cb_wrapper: one line of the stream.
DataLine ==
    /\ turn.pc = "reading"
    /\ \E i \in DOMAIN turn.evs :
        /\ MayBeNext(i)
        /\ turn' = [turn EXCEPT !.evs[i] = Tail(@),
                                !.asm = stream_handle_line(dialect, @, Head(turn.evs[i]))]
    /\ UNCHANGED <<hist, dialect, stream, parts, changed, chain, notify, open, held, next, rare>>

\* The last line.  A failure may come at any point.
EndLine ==
    /\ turn.pc = "reading" /\ ~turn.ended
    /\ AllRead \/ Failed(turn.reply.status)
    /\ LET asm == stream_handle_line(dialect, turn.asm, EndEvent(dialect, turn.reply))
       IN  /\ turn' = [turn EXCEPT !.asm = asm, !.ended = TRUE,
                                   !.evs = [i \in DOMAIN turn.evs |-> <<>>]]
           /\ chain' = chain_note_response(asm.rid, turn.msgs)
    /\ UNCHANGED <<hist, dialect, stream, parts, changed, notify, open, held, next, rare>>

Spoilt(finish) == finish \in {"content_filter", "error"}

\* agent_finish: a failure ends the turn, calls are run, and text is kept,
\* also an empty one.
agent_finish(calls, finish, ch) ==
    \/ Spoilt(finish) /\ agent_turn_done(hist, ch, next) /\ UNCHANGED open
    \/ /\ ~Spoilt(finish) /\ calls # <<>>
       /\ hist' = Append(hist, ToolCalls(next, [i \in DOMAIN calls |->
                                                   [id |-> calls[i].id, tool |-> calls[i].tool]]))
       /\ open' = Range(Last(hist').calls)
       /\ turn' = [pc |-> "tools", status |-> turn.reply.status]
       /\ next' = next + 1 /\ chain' = ch
       /\ UNCHANGED <<notify, changed>>
    \/ /\ ~Spoilt(finish) /\ calls = <<>>
       /\ agent_turn_done(Append(hist, Text(next)), ch, next + 1)
       /\ UNCHANGED open

\* stream_finalize: a rate limit before anything was shown is waited out.
stream_finalize ==
    LET calls == stream_build_tool_calls(turn.asm)
        again == turn.asm.error = "limited" /\ turn.asm.text = <<>> /\ calls = <<>>
                 /\ turn.retries < MaxRetries
    IN  /\ turn.pc = "reading" /\ turn.ended
        /\ IF again THEN rl_retry /\ UNCHANGED open
           ELSE agent_finish(calls, turn.asm.finish, chain)
        /\ UNCHANGED <<dialect, stream, parts, held, rare>>

\* clm_http_success_cb_wrapper, on an answer in one piece.
WholeAnswer ==
    LET msg == normalize_response(dialect, turn.reply)
    IN  /\ turn.pc = "whole"
        /\ IF msg.error = "limited" /\ turn.retries < MaxRetries
           THEN rl_retry /\ UNCHANGED open
           ELSE agent_finish(msg.calls, msg.finish, chain_note_response(msg.rid, turn.msgs))
        /\ UNCHANGED <<dialect, stream, parts, held, rare>>

-----------------------------------------------------------------------------
(* The batch, and what else changes the history.                            *)

img(c) == IF c.tool \in Imaging THEN 1 ELSE NoImage

\* A result: older ones of a volatile tool are stubbed, and if any was, the
\* server's copy is of no use.
Recorded(h, c) ==
    Append(IF c.tool \in Volatile THEN clm_history_supersede_tool(h, c.tool) ELSE h,
           Result(0, c, img(c)))

ToolResult ==
    \E c \in open :
        /\ hist' = Recorded(hist, c)
        /\ chain' = IF Front(hist') = hist THEN chain ELSE NoChain
        /\ open' = open \ {c}
        /\ turn' = IF open' = {} THEN [turn EXCEPT !.pc = "between"] ELSE turn
        /\ UNCHANGED <<dialect, stream, parts, changed, notify, held, next, rare>>

\* clm_agent_tools_done: on with the turn, perhaps with a folded history.
clm_agent_tools_done ==
    /\ turn.pc = "between" /\ next <= MaxMsgs
    /\ \E fold \in BOOLEAN :
        LET h == IF fold THEN clm_history_compact_within(hist, Summary, KeepBytes) ELSE hist
        IN  clm_agent_start_turn(h, IF h = hist THEN chain ELSE NoChain, notify, next)
    /\ UNCHANGED <<dialect, stream, parts, open, held, rare>>

\* Too many rounds, or too many calls blocked: the turn ends on results.
TurnStops ==
    /\ Rare
    /\ turn.pc = "between"
    /\ agent_fail
    /\ UNCHANGED <<dialect, stream, parts, open, held>>

\* agent_keep_partial: what a cancelled stream had shown.
agent_keep_partial == turn.pc = "reading" /\ turn.asm.text # <<>>

\* clm_agent_cancel, clm_http_error_cb_wrapper: the request is given up.
CancelRequest ==
    /\ Rare
    /\ turn.pc \in {"posted", "reading", "whole"}
    /\ IF agent_keep_partial
       THEN agent_turn_done(Append(hist, Text(next)), chain, next + 1)
       ELSE agent_turn_done(hist, chain, next)
    /\ UNCHANGED <<dialect, stream, parts, open, held>>

\* clm_agent_cancel, clm_tools_cancel: calls that run get a result.
CancelTools ==
    /\ Rare
    /\ turn.pc = "tools"
    /\ agent_turn_done(hist \o [i \in 1 .. Cardinality(open) |-> Missing(SetToSeq(open)[i])],
                       chain, next)
    /\ open' = {}
    /\ UNCHANGED <<dialect, stream, parts, held>>

clm_agent_notify ==
    /\ turn # NoTurn /\ ~notify /\ next < MaxMsgs
    /\ notify' = TRUE
    /\ UNCHANGED <<hist, dialect, stream, parts, changed, chain, turn, open, held, next, rare>>

clm_agent_set_prompt_part ==
    /\ Rare
    /\ parts' = 1 - parts /\ changed' = TRUE
    /\ UNCHANGED <<hist, dialect, stream, chain, notify, turn, open, held, next>>

clm_agent_set_provider ==
    /\ Rare
    /\ turn = NoTurn
    /\ dialect' \in Dialects \ {dialect}
    /\ chain' = NoChain
    /\ UNCHANGED <<hist, stream, parts, changed, notify, turn, open, held, next>>

clm_agent_compact ==
    /\ Rare
    /\ turn = NoTurn
    /\ hist' = clm_history_compact_within(hist, Summary, KeepBytes)
    /\ hist' # hist
    /\ chain' = NoChain
    /\ UNCHANGED <<dialect, stream, parts, changed, notify, turn, open, held, next>>

clm_agent_clear_history ==
    /\ Rare
    /\ turn = NoTurn
    /\ hist' = <<System(0)>> /\ chain' = NoChain
    /\ UNCHANGED <<dialect, stream, parts, changed, notify, turn, open, held, next>>

Next ==
    \/ clm_agent_submit \/ Answer \/ Refused \/ Limited \/ PostFails
    \/ DataLine \/ EndLine \/ stream_finalize \/ WholeAnswer
    \/ ToolResult \/ clm_agent_tools_done \/ TurnStops
    \/ CancelRequest \/ CancelTools \/ clm_agent_notify
    \/ clm_agent_set_prompt_part \/ clm_agent_set_provider
    \/ clm_agent_compact \/ clm_agent_clear_history

Spec == Init /\ [][Next]_vars

-----------------------------------------------------------------------------
(* Properties.                                                              *)

Kept(facts) == SelectSeq(facts, LAMBDA f : f.k \notin {"reply", "image"})
ImagesIn(facts) == SelectSeq(facts, LAMBDA f : f.k = "image")

\* When a server answers, it has read the history: the prompt with its parts,
\* every user message, every call and every result, each once and in order,
\* whichever dialect it speaks and however much of it came with earlier
\* requests, after cancels, failures, folds and stubbed results ("the agent
\* only sets this when every message before the ones in this request is
\* already on the server").
ReadsHistory ==
    turn.pc \in {"reading", "whole"} => Kept(turn.ctx) = Kept(turn.said)

\* And every image of a result, once (carry_tool_images, convert_parts).
ImagesRead ==
    turn.pc \in {"reading", "whole"} =>
        /\ Range(ImagesIn(turn.ctx)) = Range(ImagesIn(turn.said))
        /\ Len(ImagesIn(turn.ctx)) = Len(ImagesIn(turn.said))

\* No arguments are "" in a stream and "{}" in one piece.
Args(c) == [c EXCEPT !.args = IF @ = <<"{}">> THEN <<>> ELSE @]

\* An answer read event by event is the one read in one piece: the same text,
\* the same calls with the same arguments in the same order, the same end and
\* the same id, however the events of its blocks interleave.
StreamExact ==
    turn.pc = "reading" /\ turn.ended /\ ~Failed(turn.reply.status) =>
        LET whole == normalize_response(dialect, turn.reply)
            calls == stream_build_tool_calls(turn.asm)
        IN  /\ turn.asm.text = whole.text \/ dialect # "anthropic"
            /\ Range(turn.asm.text) = Range(whole.text)
            /\ calls = [i \in DOMAIN whole.calls |-> Args(whole.calls[i])]
            /\ turn.asm.finish = whole.finish /\ turn.asm.rid = whole.rid

=============================================================================
