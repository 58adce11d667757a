------------------------------ MODULE History ------------------------------
(***************************************************************************)
(* The message list of libclm/history.c as operators on sequences.  The    *)
(* text of a message is abstracted to what the operations tell apart: what  *)
(* kind of body it is, how much room it takes, and a serial number.        *)
(***************************************************************************)
EXTENDS Integers, Sequences, SequencesExt, FiniteSetsExt

CONSTANTS
    Bytes      \* body -> the room such a message takes (message_bytes)

NoCall == 0
NoImage == 0

\* struct clm_message.  calls: the ids an assistant message asks for, with
\* the tool of each; of: the call a tool message answers.
Message(role, n, calls, of, tool, body, img) ==
    [role |-> role, n |-> n, calls |-> calls, of |-> of, tool |-> tool,
     body |-> body, img |-> img]

System(p) == Message("system", p, <<>>, NoCall, "", "prompt", NoImage)
User(n) == Message("user", n, <<>>, NoCall, "", "text", NoImage)
Text(n) == Message("assistant", n, <<>>, NoCall, "", "text", NoImage)
ToolCalls(n, calls) ==
    Message("assistant", n, calls, NoCall, "", "text", NoImage)
Result(n, call, img) ==
    Message("tool", n, <<>>, call.id, call.tool, "full", img)
Summary == Message("user", 0, <<>>, NoCall, "", "summary", NoImage)
Missing(call) ==
    Message("tool", 0, <<>>, call.id, call.tool, "missing", NoImage)

IsHead(m) == m.role = "assistant" /\ m.calls # <<>>

Size(m) == Bytes[m.body] + Len(m.calls)

\* The room taken by h[i] .. h[j].
SizeOf(h, i, j) == FoldSet(LAMBDA k, s : s + Size(h[k]), 0, i .. j)

-----------------------------------------------------------------------------
(* Folding.                                                                 *)

\* Mutation: any message but a result may be cut at.
is_cut_point_result(m) == m.role \in {"user", "tool"}

is_cut_point(m) == m.role = "user" \/ IsHead(m)

FirstNonSystem(h) == SelectInSeq(h, LAMBDA m : m.role # "system")

\* fold_range: [start, cut) becomes one summary.
fold_range(h, start, cut, summary) ==
    SubSeq(h, 1, start - 1) \o <<summary>> \o SubSeq(h, cut, Len(h))

\* Where clm_history_compact_within cuts, or 0 when it folds nothing.  The
\* walk back keeps cut points while they fit in half of what is there.
CutWithin(h, summary, keepBytes) ==
    LET first == FirstNonSystem(h)
        cuts == {i \in first .. Len(h) : is_cut_point(h[i])}
        keep == Min({keepBytes, SizeOf(h, first, Len(h)) \div 2})
        fits == {i \in cuts : SizeOf(h, i, Len(h)) <= keep}
        oldest == IF fits = {} THEN 0 ELSE Min(fits)
        later == cuts \ {first}
        stepped == IF oldest # first THEN oldest
                   ELSE IF later = {} THEN 0 ELSE Min(later)
        cut == IF stepped = 0 THEN Max(cuts) ELSE stepped
    IN  IF \/ first = 0 \/ cuts = {} \/ cut = first
           \/ SizeOf(h, first, cut - 1) <= Size(summary)
        THEN 0
        ELSE cut

clm_history_compact_within(h, summary, keepBytes) ==
    LET cut == CutWithin(h, summary, keepBytes)
    IN  IF cut = 0 THEN h ELSE fold_range(h, FirstNonSystem(h), cut, summary)

-----------------------------------------------------------------------------
(* Superseding the results of a volatile tool.                              *)

LastHead(h) == SelectLastInSeq(h, IsHead)

Stub(m) == [m EXCEPT !.body = "stub", !.img = NoImage]

\* Everything before the head of the newest batch, or everything when there
\* is none.
clm_history_supersede_tool(h, tool) ==
    LET end == IF LastHead(h) = 0 THEN Len(h) ELSE LastHead(h) - 1
    IN  [i \in DOMAIN h |->
            IF i <= end /\ h[i].role = "tool" /\ h[i].tool = tool
            THEN Stub(h[i]) ELSE h[i]]

-----------------------------------------------------------------------------
(* Repairing calls without a result.                                        *)

\* The last message of the run of results that follows h[i].
RunEnd(h, i) ==
    Max({j \in i .. Len(h) : \A k \in i + 1 .. j : h[k].role = "tool"})

tool_result_present(h, i, id) ==
    \E j \in i + 1 .. RunEnd(h, i) : h[j].of = id

tool_result_later(h, i, id) ==
    LET at == {j \in i + 1 .. Len(h) : h[j].role = "tool" /\ h[j].of = id}
    IN  IF at = {} THEN 0 ELSE Min(at)

\* One call of the message numbered n: a late result moves up to the run, and
\* one that never came is made up.  The ids of one message are distinct.
RepairCall(h, n, call) ==
    LET i == SelectInSeq(h, LAMBDA m : IsHead(m) /\ m.n = n)
        end == RunEnd(h, i)
        late == tool_result_later(h, end, call.id)
    IN  IF tool_result_present(h, i, call.id) THEN h
        ELSE IF late # 0
             THEN InsertAt(RemoveAt(h, late), end + 1, h[late])
             ELSE InsertAt(h, end + 1, Missing(call))

clm_history_repair_dangling_tool_calls(h) ==
    FoldLeft(LAMBDA g, m : FoldLeft(LAMBDA f, c : RepairCall(f, m.n, c),
                                    g, m.calls),
             h, h)

-----------------------------------------------------------------------------
(* What a provider insists on.                                              *)

\* Each result belongs to the run right after the message that asked for it.
ResultsFollowCalls(h) ==
    \A i \in DOMAIN h : h[i].role = "tool" =>
        \E j \in 1 .. i - 1 :
            /\ IsHead(h[j]) /\ i <= RunEnd(h, j)
            /\ \E k \in DOMAIN h[j].calls : h[j].calls[k].id = h[i].of

\* And each call but those in ids has exactly one.
CallsAnswered(h, ids) ==
    \A i \in DOMAIN h : \A k \in DOMAIN h[i].calls :
        h[i].calls[k].id \in ids
        \/ Cardinality({j \in i + 1 .. RunEnd(h, i) :
                            h[j].of = h[i].calls[k].id}) = 1
=============================================================================
