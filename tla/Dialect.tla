------------------------------ MODULE Dialect ------------------------------
(***************************************************************************)
(* The three wire formats of libclm/provider_*.c as operators: a history   *)
(* into a request, an answer in one piece into a message, and an answer in *)
(* events into the same message, put together by the stream functions of   *)
(* libclm/agent.c.                                                         *)
(*                                                                         *)
(* Text is abstracted to numbered pieces. What a server reads, and what a  *)
(* history says, is a sequence of facts.                                   *)
(***************************************************************************)
EXTENDS History

Fact(k, v) == [k |-> k, v |-> v]

Uses(m) == [j \in DOMAIN m.calls |-> Fact("use", m.calls[j].id)]
Image(m) == IF m.img = NoImage THEN <<>> ELSE <<Fact("image", m.of)>>
Out(m) == Fact("out", [of |-> m.of, body |-> m.body])

\* clm_message_to_json; p is the text of the prompt parts, which
\* apply_prompt_parts adds to the leading system message.
Facts(m, p) ==
    CASE m.role = "system" -> <<Fact("system", p)>>
      [] m.role = "user" -> <<Fact("user", m.n)>>
      [] m.role = "assistant" -> IF IsHead(m) THEN Uses(m) ELSE <<Fact("reply", m.n)>>
      [] m.role = "tool" -> <<Out(m)>> \o Image(m)

\* clm_history_to_json.
Say(h, p) == FlattenSeq([i \in DOMAIN h |-> Facts(h[i], p)])

-----------------------------------------------------------------------------
(* Chat completions. A message of the request is a role with its facts.     *)

\* split_tool_images: the message keeps its text.
split_tool_images(m) == [role |-> "tool", facts |-> <<Out(m)>>]

\* Mutation: the loop ends at the last message, so the images of results at
\* the end of the history are dropped.
carry_tool_images_short(h, p) ==
    LET Carried(acc) ==
            IF acc.images = <<>> THEN acc.out
            ELSE Append(acc.out, [role |-> "user", facts |-> acc.images])
        Step(acc, m) ==
            IF m.role = "tool"
            THEN [out |-> Append(acc.out, split_tool_images(m)), images |-> acc.images \o Image(m)]
            ELSE [out |-> Append(Carried(acc), [role |-> m.role, facts |-> Facts(m, p)]),
                  images |-> <<>>]
    IN  FoldLeft(Step, [out |-> <<>>, images |-> <<>>], h).out

\* carry_tool_images: the images of a run of results go in one user message
\* after the run, since a tool message is read as text only.
carry_tool_images(h, p) ==
    LET Carried(acc) ==
            IF acc.images = <<>> THEN acc.out
            ELSE Append(acc.out, [role |-> "user", facts |-> acc.images])
        Step(acc, m) ==
            IF m.role = "tool"
            THEN [out |-> Append(acc.out, split_tool_images(m)), images |-> acc.images \o Image(m)]
            ELSE [out |-> Append(Carried(acc), [role |-> m.role, facts |-> Facts(m, p)]),
                  images |-> <<>>]
    IN  Carried(FoldLeft(Step, [out |-> <<>>, images |-> <<>>], h))

openai_build_request(h, p) == carry_tool_images(h, p)

-----------------------------------------------------------------------------
(* Anthropic messages.                                                      *)

is_tool_result_carrier(msg) == msg.role = "user" /\ Head(msg.facts).k = "out"

\* tool_call_to_tool_use, for each call of a message.
tool_call_to_tool_use(m) == Uses(m)

\* image_block, append_part_blocks, convert_content, append_queued_user: the
\* parts of a message as blocks, images included.
anth_content(m, p) == IF IsHead(m) THEN tool_call_to_tool_use(m) ELSE Facts(m, p)

\* convert_messages: a tool message, and a user message right after it, is
\* added to the user message that carries the results.
anth_convert_messages(h, p) ==
    LET Merges(out, m) ==
            m.role \in {"tool", "user"} /\ out # <<>> /\ is_tool_result_carrier(Last(out))
        Role(m) == IF m.role = "tool" THEN "user" ELSE m.role
        Step(out, m) ==
            IF Merges(out, m)
            THEN Append(Front(out), [Last(out) EXCEPT !.facts = @ \o anth_content(m, p)])
            ELSE Append(out, [role |-> Role(m), facts |-> anth_content(m, p)])
    IN  FoldLeft(Step, <<>>, SelectSeq(h, LAMBDA m : m.role # "system"))

\* append_system_text, system_blocks: all system messages, in front.
system_blocks(h, p) ==
    LET sys == SelectSeq(h, LAMBDA m : m.role = "system")
    IN  IF sys = <<>> THEN <<>> ELSE <<[role |-> "system", facts |-> Say(sys, p)]>>

anthropic_build_request(h, p) == system_blocks(h, p) \o anth_convert_messages(h, p)

-----------------------------------------------------------------------------
(* Responses: one item per fact, whoever it is from.                        *)

tool_call_to_function_call_item(use) == [role |-> "function_call", facts |-> <<use>>]

\* convert_parts, convert_content: also the output of a call takes images.
convert_parts(m, p) == Facts(m, p)

Item(m, p) ==
    CASE IsHead(m) -> [j \in DOMAIN m.calls |-> tool_call_to_function_call_item(Uses(m)[j])]
      [] m.role = "tool" -> <<[role |-> "function_call_output", facts |-> convert_parts(m, p)]>>
      [] OTHER -> <<[role |-> m.role, facts |-> convert_parts(m, p)]>>

resp_convert_messages(h, p) == FlattenSeq([i \in DOMAIN h |-> Item(h[i], p)])

responses_build_request(h, p) == resp_convert_messages(h, p)

-----------------------------------------------------------------------------
clm_provider_ops_get(d, h, p) ==
    CASE d = "openai" -> openai_build_request(h, p)
      [] d = "anthropic" -> anthropic_build_request(h, p)
      [] d = "responses" -> responses_build_request(h, p)

\* What a server reads in a request. Of a tool message, chat completions
\* ignores the images.
Read(d, req) ==
    LET Seen(msg) == IF d = "openai" /\ msg.role = "tool"
                     THEN SelectSeq(msg.facts, LAMBDA f : f.k # "image") ELSE msg.facts
    IN  FlattenSeq([i \in DOMAIN req |-> Seen(req[i])])

-----------------------------------------------------------------------------
(* An answer is [id, blocks, status]: a block is text or a call, in pieces. *)
(* Its canonical message is [text, calls, finish, rid, error].             *)

Calls(reply) == SelectSeq(reply.blocks, LAMBDA b : b.k = "call")
TextOf(reply) ==
    FlattenSeq([i \in DOMAIN reply.blocks |->
                   IF reply.blocks[i].k = "text" THEN reply.blocks[i].frags ELSE <<>>])

Failed(s) == s \in {"failed", "limited"}

\* The finish reason of a chat completion, as its server spells it.
chat_finish(s, any) ==
    CASE s = "completed" -> IF any THEN "tool_calls" ELSE "stop"
      [] s = "incomplete" -> "length"
      [] s = "filtered" -> "content_filter"
      [] Failed(s) -> "none"

\* map_stop_reason. A refusal keeps its own name; a failure has no reason.
map_stop_reason(s, any) ==
    CASE s = "completed" -> IF any THEN "tool_calls" ELSE "stop"
      [] s = "incomplete" -> "length"
      [] s = "filtered" -> "refusal"
      [] Failed(s) -> "none"

\* map_status: an answer with a call in it is "tool_calls", however it ended.
map_status(s, any) ==
    IF any THEN "tool_calls"
    ELSE CASE s = "completed" -> "stop"
           [] s = "incomplete" -> "length"
           [] s = "filtered" -> "content_filter"
           [] Failed(s) -> "error"

\* carry_error: what the server said, of a response that failed.
carry_error(finish, s) == IF finish = "error" THEN s ELSE "none"

\* Arguments in one piece; none are written as an empty object.
WholeCall(b) == [id |-> b.id, tool |-> b.tool, args |-> IF b.frags = <<>> THEN <<"{}">> ELSE b.frags]

Canonical(reply, finish, rid, error) ==
    [text |-> TextOf(reply), finish |-> finish, rid |-> rid, error |-> error,
     calls |-> [i \in DOMAIN Calls(reply) |-> WholeCall(Calls(reply)[i])]]

anthropic_normalize_response(reply) ==
    Canonical(reply, map_stop_reason(reply.status, Calls(reply) # <<>>), 0, "none")

\* Only a Responses answer has an id to go on from.
responses_normalize_response(reply) ==
    LET fin == map_status(reply.status, Calls(reply) # <<>>)
    IN  Canonical(reply, fin, reply.id, carry_error(fin, reply.status))

\* A chat completion is canonical as it is.
normalize_response(d, reply) ==
    CASE d = "openai" -> Canonical(reply, chat_finish(reply.status, Calls(reply) # <<>>), 0, "none")
      [] d = "anthropic" -> anthropic_normalize_response(reply)
      [] d = "responses" -> responses_normalize_response(reply)

-----------------------------------------------------------------------------
(* The same answer as events.                                               *)

\* The events of a block: a call is announced, with nothing of its arguments,
\* and the pieces follow.  at is the index they carry.
BlockEvents(b, at) ==
    (IF b.k = "call" THEN <<[k |-> "start", at |-> at, id |-> b.id, tool |-> b.tool]>> ELSE <<>>)
    \o [j \in DOMAIN b.frags |-> [k |-> b.k, at |-> at, piece |-> b.frags[j]]]

\* Chat completions count the calls, the others all blocks, from 0.
IndexOf(d, blocks, i) ==
    IF d = "openai" THEN Cardinality({j \in 1 .. i - 1 : blocks[j].k = "call"}) ELSE i - 1

\* The last event: how it ended.  A failure has an event of its own, but with
\* the Responses API comes as response.failed.
EndEvent(d, reply) ==
    IF Failed(reply.status) /\ d # "responses"
    THEN [k |-> "error", why |-> reply.status]
    ELSE [k |-> "end", status |-> reply.status, id |-> reply.id, any |-> Calls(reply) # <<>>]

\* Canonical chunks.
make_delta_chunk(piece) == [k |-> "text", piece |-> piece]
make_tool_delta_chunk(at, id, tool, args) ==
    [k |-> "tool", at |-> at, id |-> id, tool |-> tool, args |-> args]
EndChunk(finish, rid, error) == [k |-> "end", finish |-> finish, rid |-> rid, error |-> error]

\* A chunk of text or of a call: content_block_start and content_block_delta,
\* response.output_item.added and the deltas, or delta.content and
\* delta.tool_calls.
DeltaChunk(ev) ==
    CASE ev.k = "start" -> make_tool_delta_chunk(ev.at, ev.id, ev.tool, <<>>)
      [] ev.k = "call" -> make_tool_delta_chunk(ev.at, 0, "", <<ev.piece>>)
      [] ev.k = "text" -> make_delta_chunk(ev.piece)

\* message_delta says how it ended.
anthropic_normalize_stream_event(ev) ==
    IF ev.k = "end" THEN EndChunk(map_stop_reason(ev.status, ev.any), 0, "none") ELSE DeltaChunk(ev)

\* response.completed, response.incomplete or response.failed; saw is the
\* saw_tool_call of struct resp_stream_state.
responses_normalize_stream_event(ev, saw) ==
    LET fin == map_status(ev.status, saw)
    IN  IF ev.k = "end" THEN EndChunk(fin, ev.id, carry_error(fin, ev.status)) ELSE DeltaChunk(ev)

normalize_stream_event(d, ev, saw) ==
    CASE d = "anthropic" -> anthropic_normalize_stream_event(ev)
      [] d = "responses" -> responses_normalize_stream_event(ev, saw)
      [] d = "openai" -> IF ev.k = "end" THEN EndChunk(chat_finish(ev.status, ev.any), 0, "none")
                         ELSE DeltaChunk(ev)

\* What has been put together of an answer (struct clm_async_turn, after
\* turn_reset_response).
turn_reset_response ==
    [text |-> <<>>, calls |-> <<>>, finish |-> "none", error |-> "none", rid |-> 0, saw |-> FALSE]

NoCallYet == [id |-> 0, tool |-> "", args |-> <<>>]

\* stream_get_call: calls[at], and empty ones up to it.
stream_get_call(calls, at) ==
    [i \in 1 .. Max({Len(calls), at + 1}) |-> IF i <= Len(calls) THEN calls[i] ELSE NoCallYet]

\* Mutation: a piece belongs to the call announced last.
stream_merge_tool_calls_last(calls, d) ==
    LET at == IF d.id = 0 /\ calls # <<>> THEN Len(calls) ELSE d.at + 1
    IN  [stream_get_call(calls, at - 1) EXCEPT
            ![at].id = IF @ = 0 THEN d.id ELSE @,
            ![at].tool = IF @ = "" THEN d.tool ELSE @,
            ![at].args = @ \o d.args]

\* stream_merge_tool_calls: id and name the first time, arguments appended.
stream_merge_tool_calls(calls, d) ==
    [stream_get_call(calls, d.at) EXCEPT
        ![d.at + 1].id = IF @ = 0 THEN d.id ELSE @,
        ![d.at + 1].tool = IF @ = "" THEN d.tool ELSE @,
        ![d.at + 1].args = @ \o d.args]

\* stream_error_message: of an error event, before it is translated.
stream_error_message(ev) == IF ev.k = "error" THEN ev.why ELSE "none"

\* stream_note_error: an error is the end, unless an end was given.
stream_note_error(asm, why) ==
    IF why = "none" THEN asm
    ELSE [asm EXCEPT !.error = why, !.finish = IF @ = "none" THEN "error" ELSE @]

\* stream_handle_line.  The error event has nothing to merge.
stream_handle_line(d, asm, ev) ==
    IF ev.k = "error" THEN stream_note_error(asm, stream_error_message(ev))
    ELSE LET c == normalize_stream_event(d, ev, asm.saw)
         IN  CASE c.k = "end" ->
                    stream_note_error([asm EXCEPT !.finish = IF c.finish = "none" THEN @ ELSE c.finish,
                                                  !.rid = c.rid], c.error)
               [] c.k = "text" -> [asm EXCEPT !.text = Append(@, c.piece)]
               [] c.k = "tool" -> [asm EXCEPT !.calls = stream_merge_tool_calls(@, c),
                                              !.saw = @ \/ c.id # 0]

\* stream_build_tool_calls: those that have a name.
stream_build_tool_calls(asm) == SelectSeq(asm.calls, LAMBDA c : c.tool # "")
=============================================================================
