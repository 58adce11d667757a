------------------------------ MODULE HttpMux ------------------------------
(***************************************************************************)
(* The HTTP engine of libclmuv: requests multiplexed over one curl multi   *)
(* handle (http_async.c), owned by the agent's host (host_uv.c) or by an   *)
(* MCP client.  Completion callbacks run on the stack of the function that *)
(* found the transfer done, and may post, cancel and free in turn, so the  *)
(* functions that are running are kept in "frames", innermost last.        *)
(***************************************************************************)
EXTENDS Naturals, FiniteSets, SequencesExt

CONSTANTS
    Reqs,          \* requests of one behaviour
    Limit          \* CLM_HTTP_MAX_RESPONSE_BYTES, in chunks

ASSUME ReqsAssumption == IsFiniteSet(Reqs)
ASSUME LimitAssumption == Limit \in Nat

VARIABLES
    owner,         \* "host": clm_host_uv; "client": an MCP client
    mux,           \* struct clm_http_mux: open, closing, freed
    timer,         \* timer_initialized
    live,          \* live_requests
    req,           \* struct clm_http_request
    call,          \* struct host_uv_call: none, starting, open, completed
    held,          \* requests whose handle the owner has
    msgs,          \* curl's queue of finished transfers
    frames,        \* functions running
    told           \* callbacks run (history variable)

vars == <<owner, mux, timer, live, req, call, held, msgs, frames, told>>

Fresh == [mem |-> "none", state |-> "pending", mux |-> FALSE, closing |-> FALSE,
          starting |-> FALSE, received |-> 0, watched |-> FALSE]

Init ==
    /\ owner \in {"host", "client"}
    /\ mux = "open"
    /\ timer = FALSE
    /\ live = 0
    /\ req = [r \in Reqs |-> Fresh]
    /\ call = [r \in Reqs |-> "none"]
    /\ held = {}
    /\ msgs = <<>>
    /\ frames = <<>>
    /\ told = [r \in Reqs |-> 0]

-----------------------------------------------------------------------------
(* curl, as the engine uses it (external).                                  *)

Queued == {m.r : m \in Range(msgs)}
Attached == {r \in Reqs : req[r].mux /\ r \notin Queued}

\* One curl_multi_socket_action may finish any number of transfers.
Finished(S) ==
    {[i \in DOMAIN q |-> [r |-> q[i], ok |-> f[q[i]]]] :
        q \in SetToSeqs(S), f \in [S -> BOOLEAN]}

\* curl_multi_remove_handle takes the transfer's one message with it.
Without(q, r) == RemoveFirstMatch(q, LAMBDA m : m.r = r)

-----------------------------------------------------------------------------
(* Completion.                                                              *)

Top == Last(frames)
\* The owner runs: from the loop, or inside a callback.
OwnerRuns == frames # <<>> => Top.fn = "cb"

\* host_uv_http_success, host_uv_http_error: the call leaves the list; the
\* one that is being started is freed by host_uv_http_post.
host_uv_http_done(r) ==
    [call EXCEPT ![r] = IF @ = "starting" THEN "completed" ELSE "none"]

\* http_request_complete: success_cb or error_cb.
http_request_complete(r, fs) ==
    /\ told' = [told EXCEPT ![r] = @ + 1]
    /\ call' = host_uv_http_done(r)
    /\ frames' = Append(fs, [fn |-> "cb", r |-> r])

\* Mutation: the owner of a request that is being started is told at once.
http_request_teardown_early(r, state, q, fs) ==
    /\ req' = [req EXCEPT ![r].state = state, ![r].closing = TRUE, ![r].mux = FALSE]
    /\ live' = live - 1
    /\ msgs' = Without(q, r)
    /\ http_request_complete(r, fs)

\* http_request_teardown: detached before the owner is told; a request that
\* is still being started is completed by the function that starts it.
http_request_teardown(r, state, q, fs) ==
    /\ req' = [req EXCEPT ![r].state = state, ![r].closing = TRUE, ![r].mux = FALSE]
    /\ live' = live - 1
    /\ msgs' = Without(q, r)
    /\ IF req[r].starting THEN frames' = fs /\ UNCHANGED <<told, call>>
       ELSE http_request_complete(r, fs)

\* The callback returns: clm_http_request_free, and the owner's handle is gone.
CallbackReturns ==
    /\ frames # <<>> /\ Top.fn = "cb"
    /\ req' = [req EXCEPT ![Top.r].mem = "freed"]
    /\ held' = held \ {Top.r}
    /\ frames' = Front(frames)
    /\ UNCHANGED <<owner, mux, timer, live, call, msgs, told>>

\* Mutation: only the first finished transfer is reaped.
http_reap_done_first ==
    /\ frames # <<>> /\ Top.fn = "reap"
    /\ IF msgs = <<>> THEN frames' = Front(frames) /\ UNCHANGED <<live, req, call, msgs, told>>
       ELSE LET m == Head(msgs)
            IN  http_request_teardown(m.r,
                    IF req[m.r].state = "error" \/ ~m.ok \/ Top.failed THEN "error" ELSE "done",
                    Tail(msgs), Front(frames))
    /\ UNCHANGED <<owner, mux, timer, held>>

\* One turn of http_reap_done's loop, which ends when the queue is empty.
http_reap_done ==
    /\ frames # <<>> /\ Top.fn = "reap"
    /\ IF msgs = <<>> THEN frames' = Front(frames) /\ UNCHANGED <<live, req, call, msgs, told>>
       ELSE LET m == Head(msgs)
            IN  http_request_teardown(m.r,
                    IF req[m.r].state = "error" \/ ~m.ok \/ Top.failed THEN "error" ELSE "done",
                    Tail(msgs), frames)
    /\ UNCHANGED <<owner, mux, timer, held>>

-----------------------------------------------------------------------------
(* The loop.                                                                *)

Reap(failed) == frames' = <<[fn |-> "reap", failed |-> failed]>>

\* http_poll_callback: a watched socket is ready, or failed.
http_poll_callback ==
    /\ frames = <<>>
    /\ \E r \in Attached : req[r].watched
    /\ \E S \in SUBSET Attached : \E q \in Finished(S) : msgs' = msgs \o q
    /\ \E failed \in BOOLEAN : Reap(failed)
    /\ UNCHANGED <<owner, mux, timer, live, req, call, held, told>>

\* http_timer_expired: curl's own timeouts retire a transfer that nothing
\* else moves.
http_timer_expired(r) ==
    /\ frames = <<>> /\ timer /\ mux = "open"
    /\ r \in Attached
    /\ \E q \in Finished({r}) : msgs' = msgs \o q
    /\ Reap(FALSE)
    /\ UNCHANGED <<owner, mux, timer, live, req, call, held, told>>

\* http_response_buffer_write accepts a piece up to the limit.
http_response_buffer_write(r) == req[r].received < Limit

\* http_write_callback: a piece of the body.  Past the limit the request is in
\* error, and curl ends the transfer.
http_write_callback(r) ==
    /\ frames = <<>>
    /\ r \in Attached /\ req[r].watched
    /\ IF http_response_buffer_write(r)
       THEN /\ req' = [req EXCEPT ![r].received = @ + 1]
            /\ UNCHANGED <<msgs, frames>>
       ELSE /\ req' = [req EXCEPT ![r].state = "error"]
            /\ msgs' = Append(msgs, [r |-> r, ok |-> FALSE])
            /\ Reap(FALSE)
    /\ UNCHANGED <<owner, mux, timer, live, call, held, told>>

\* mux_free_now, from the timer's close callback.
mux_free_now ==
    /\ frames = <<>> /\ mux = "closing"
    /\ mux' = "freed"
    /\ UNCHANGED <<owner, timer, live, req, call, held, msgs, frames, told>>

-----------------------------------------------------------------------------
(* What the owner calls.                                                    *)

\* host_uv_http_post or mcp_http_send, refused: no memory, a bad header.
PostRefused(r) ==
    /\ OwnerRuns /\ mux = "open" /\ req[r].mem = "none"
    /\ req' = [req EXCEPT ![r].mem = "refused"]
    /\ UNCHANGED <<owner, mux, timer, live, call, held, msgs, frames, told>>

\* http_socket_callback: the socket is watched, unless that fails.
http_socket_callback == BOOLEAN

\* http_timer_callback: the first transfer starts the mux's timer.
http_timer_callback == timer' = TRUE

\* host_uv_http_post: the host lists the call before it starts the request.
host_uv_http_post(r) ==
    call' = IF owner = "host" THEN [call EXCEPT ![r] = "starting"] ELSE call

\* clm_http_async_post_len up to its http_reap_done: the first socket action
\* may finish any transfer, this one included.
clm_http_async_post(r) ==
    /\ OwnerRuns /\ mux = "open" /\ req[r].mem = "none"
    /\ \E w \in http_socket_callback :
          req' = [req EXCEPT ![r] = [Fresh EXCEPT !.mem = "used", !.state = "running",
                                        !.mux = TRUE, !.starting = TRUE, !.watched = w]]
    /\ live' = live + 1
    /\ http_timer_callback
    /\ host_uv_http_post(r)
    /\ \E S \in SUBSET (Attached \cup {r}) : \E q \in Finished(S) : msgs' = msgs \o q
    /\ frames' = frames \o <<[fn |-> "post", r |-> r], [fn |-> "reap", failed |-> FALSE]>>
    /\ UNCHANGED <<owner, mux, held, told>>

\* The rest of clm_http_async_post_len: a request that ended meanwhile is
\* completed now and freed; the owner of a running one keeps its handle, or
\* does not (a probe).
PostReturns ==
    /\ frames # <<>> /\ Top.fn = "post"
    /\ LET r == Top.r
       IN  /\ req' = [req EXCEPT ![r].starting = FALSE]
           /\ IF req[r].closing
              THEN /\ http_request_complete(r, Append(Front(frames), [fn |-> "posted", r |-> r]))
                   /\ UNCHANGED held
              ELSE /\ frames' = Front(frames)
                   /\ call' = [call EXCEPT ![r] = IF @ = "starting" THEN "open" ELSE @]
                   /\ \E keep \in BOOLEAN : held' = IF keep THEN held \cup {r} ELSE held
                   /\ UNCHANGED told
    /\ UNCHANGED <<owner, mux, timer, live, msgs>>

\* host_uv_http_post after a start that completed: the call is freed here, and
\* the owner gets no handle.
CompletedPostReturns ==
    /\ frames # <<>> /\ Top.fn = "posted"
    /\ call' = [call EXCEPT ![Top.r] = "none"]
    /\ frames' = Front(frames)
    /\ UNCHANGED <<owner, mux, timer, live, req, held, msgs, told>>

\* clm_http_async_cancel, through host_uv_http_cancel or mcp_http_cancel: the
\* error callback runs before it returns.
clm_http_async_cancel(r) ==
    /\ OwnerRuns /\ r \in held /\ ~req[r].closing
    /\ http_request_teardown(r, "error", msgs, frames)
    /\ UNCHANGED <<owner, mux, timer, held>>

\* Mutation: the mux is freed while its timer is on the loop.
clm_http_mux_free_now == mux' = "freed"

\* clm_http_mux_free.
clm_http_mux_free == mux' = IF timer THEN "closing" ELSE "freed"

\* A request has a context in the client's list until its callback has run.
Outstanding == {r \in Reqs : req[r].mem = "used" /\ told[r] = 0}

\* mcp_client_free_now, in the callback of the last request or later.
ClientFree ==
    /\ owner = "client" /\ OwnerRuns /\ mux = "open"
    /\ Outstanding = {}
    /\ clm_http_mux_free
    /\ UNCHANGED <<owner, timer, live, req, call, held, msgs, frames, told>>

\* clm_host_uv_free: after the agent is gone, no callback is run.  From the
\* loop no transfer is queued: http_reap_done empties the queue.
clm_host_uv_free ==
    /\ owner = "host" /\ frames = <<>> /\ mux = "open"
    /\ LET R == {r \in Reqs : call[r] = "open"}
       IN  /\ req' = [r \in Reqs |-> IF r \in R THEN [req[r] EXCEPT !.mux = FALSE, !.mem = "freed"]
                                     ELSE req[r]]
           /\ live' = live - Cardinality(R)
    /\ call' = [r \in Reqs |-> "none"]
    /\ held' = {}
    /\ clm_http_mux_free
    /\ UNCHANGED <<owner, timer, msgs, frames, told>>

-----------------------------------------------------------------------------
Next ==
    \/ CallbackReturns \/ http_reap_done \/ PostReturns \/ CompletedPostReturns
    \/ http_poll_callback \/ mux_free_now
    \/ ClientFree \/ clm_host_uv_free
    \/ \E r \in Reqs :
        \/ http_timer_expired(r) \/ http_write_callback(r)
        \/ PostRefused(r) \/ clm_http_async_post(r) \/ clm_http_async_cancel(r)

Spec == Init /\ [][Next]_vars

\* The loop keeps running, functions return, and curl retires every transfer:
\* CURLOPT_LOW_SPEED_TIME ends one that receives nothing, Limit one that never
\* stops.
Fairness ==
    /\ WF_vars(CallbackReturns) /\ WF_vars(http_reap_done) /\ WF_vars(PostReturns)
    /\ WF_vars(CompletedPostReturns)
    /\ \A r \in Reqs : SF_vars(http_timer_expired(r))

FairSpec == Spec /\ Fairness

-----------------------------------------------------------------------------
(* Properties.                                                              *)

\* The requests the mux counts are the ones attached to it: the assertions of
\* clm_http_mux_free and http_request_teardown never fail.
LiveExact ==
    /\ live = Cardinality({r \in Reqs : req[r].mux})
    /\ mux # "open" => live = 0

\* No function that goes on to use the mux finds it freed, although the
\* callbacks it runs may free the owner.
MuxThere ==
    mux = "freed" => \A i \in DOMAIN frames : frames[i].fn \in {"cb", "posted"}

\* The owner never has a handle to a request that is freed: one that ends
\* while it is being started is not published.
HandlesLive == \A r \in held : req[r].mem = "used"

\* Nothing freed is used, whatever the callbacks start, cancel or free from
\* inside the mux's loops: the count that lets the mux go is exact, the mux
\* outlives its frames, and the owner's handles are to live requests.
HandlesSafe == LiveExact /\ MuxThere /\ HandlesLive

\* A request as its owner sees it.
Life(r) ==
    IF told[r] > 0 THEN "settled"
    ELSE CASE req[r].mem = "none" -> "idle"
           [] req[r].mem = "refused" -> "refused"
           [] req[r].mem = "freed" -> "dropped"
           [] OTHER -> "open"

Promise == INSTANCE Completions WITH
    Ids <- Reqs, st <- [r \in Reqs |-> Life(r)], answers <- told

\* The engine keeps the promise of clm/host.h: one callback for a request it
\* took, none for one it refused, none once the host is freed.
OneAnswer == Promise!Spec

\* A request that was taken is answered, or dropped with its host.
EveryRequestEnds == \A r \in Reqs : Life(r) = "open" ~> Life(r) # "open"
=============================================================================
