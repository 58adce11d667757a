-------------------------------- MODULE Proc --------------------------------
(***************************************************************************)
(* A shell command as a child process (libclmproc/proc.c) and its four     *)
(* users: shell_exec, bg_exec and monitor_start (libclmuv/tool_*.c) and    *)
(* the terminal's "! command" (src/tui.c).  The command's processes run    *)
(* and end by themselves; the exit, the two streams, the timer and the     *)
(* closing of handles reach the loop in any order.                         *)
(***************************************************************************)
EXTENDS Naturals, Sequences, FiniteSets, SequencesExt

CONSTANTS
    Kinds,         \* which users run: "shell", "bg", "monitor", "escape"
    Script,        \* what the command prints: each byte's stream, and "x" or "nl"
    MaxKept, HeadKept,     \* clm_proc_opts.max and .head
    LineCap, BatchCap, MaxEvents   \* CLM_MON_LINE_CAP, _BATCH_CAP, _MAX_EVENTS

ASSUME SizesAssumption == MaxKept \in Nat \ {0} /\ HeadKept \in 0..MaxKept

VARIABLES
    p,             \* struct clm_proc
    job,           \* the user's side: the call, clm_bg_job or clm_mon_job
    os,            \* the command's processes and its two pipes
    read,          \* the bytes read, in order (history)
    told           \* what the agent or the terminal was told, in order

vars == <<p, job, os, read, told>>

Pipes == {"out", "err"}
Low(a, b) == IF a < b THEN a ELSE b

Init ==
    /\ p = [st |-> "none", open |-> {}, closing |-> {}, timer |-> "off",
            exited |-> FALSE, cancelled |-> FALSE, timed_out |-> FALSE,
            attached |-> TRUE, buf |-> <<>>, dropped |-> 0]
    /\ \E k \in Kinds :
          job = [kind |-> k, st |-> "idle", agent |-> TRUE, stopping |-> FALSE,
                 reason |-> "none", line |-> <<>>, batch |-> <<>>, coalesce |-> FALSE,
                 events |-> 0, over |-> 0, answers |-> 0]
    /\ os = [shell |-> "none", kid |-> "none", next |-> 0, termed |-> FALSE,
             out |-> <<>>, err |-> <<>>, shut |-> {}]
    /\ read = <<>>
    /\ told = <<>>

-----------------------------------------------------------------------------
(* The collected output.                                                    *)

\* keep_head: buffer q with as much of data as max leaves room for.
keep_head(q, data) ==
    LET take == Low(IF Len(q.buf) >= MaxKept THEN 0 ELSE MaxKept - Len(q.buf), Len(data))
    IN  [q EXCEPT !.buf = @ \o SubSeq(data, 1, take), !.dropped = @ + Len(data) - take]

\* keep_ends, past the head: evict the oldest bytes after it.
KeepTail(q, data) ==
    LET room  == MaxKept - HeadKept
        over  == IF Len(data) > room THEN Len(data) - room ELSE 0
        d     == SubSeq(data, over + 1, Len(data))
        evict == IF Len(q.buf) + Len(d) > MaxKept THEN Len(q.buf) + Len(d) - MaxKept ELSE 0
    IN  [q EXCEPT !.buf = SubSeq(@, 1, HeadKept) \o SubSeq(@, HeadKept + evict + 1, Len(@)) \o d,
                  !.dropped = @ + over + evict]

\* Mutation: the head is filled by the first chunk only.
keep_ends_first(q, data) ==
    IF q.buf = <<>> THEN keep_head(q, SubSeq(data, 1, Low(HeadKept, Len(data)))) ELSE KeepTail(q, data)

keep_ends(q, data) ==
    IF Len(q.buf) < HeadKept
    THEN LET take == Low(HeadKept - Len(q.buf), Len(data))
             h    == keep_head(q, SubSeq(data, 1, take))
         IN  IF take = Len(data) THEN h ELSE KeepTail(h, SubSeq(data, take + 1, Len(data)))
    ELSE KeepTail(q, data)

-----------------------------------------------------------------------------
(* Handles and signals.                                                     *)

\* shut and shut_pipe, for each handle of S.
shut(q, S) == [q EXCEPT !.open = @ \ S, !.closing = @ \cup (S \cap q.open)]

close_pipes(q) == shut(q, {"out", "err", "in"})

\* signal_group: an exited shell's group is only known by an open pipe.
SignalReaches(q) == ~q.exited \/ q.open \cap Pipes # {}

\* What a signal does: SIGTERM may be ignored, SIGKILL ends every member.
Signalled(q, sig) ==
    IF ~SignalReaches(q) THEN os
    ELSE IF sig = "term" THEN [os EXCEPT !.termed = TRUE]
    ELSE [os EXCEPT !.shell = IF @ = "run" THEN "dead" ELSE @,
                    !.kid = IF @ = "member" THEN "dead" ELSE @]

\* Mutation: the timer is stopped, and nothing follows the first signal.
clm_proc_cancel_no_grace(q) == [q EXCEPT !.cancelled = TRUE, !.timer = "off"]

\* clm_proc_cancel: the timer becomes the grace before SIGKILL.
clm_proc_cancel(q) ==
    IF q.cancelled THEN q
    ELSE [q EXCEPT !.cancelled = TRUE, !.timer = IF "timer" \in q.open THEN "kill" ELSE @]

CancelSignal(q) == IF q.cancelled THEN os ELSE Signalled(q, "term")

\* clm_proc_stop_output; its signal is sent while the pipes are still open.
clm_proc_stop_output(q) == clm_proc_cancel(close_pipes(q))

\* clm_proc_kill.
clm_proc_kill(q) == close_pipes([q EXCEPT !.cancelled = TRUE])

\* clm_proc_detach.
clm_proc_detach(q) == [q EXCEPT !.attached = FALSE]

-----------------------------------------------------------------------------
(* The monitor.                                                             *)

\* clm_agent_notify.
Notify(j, t, m) == IF j.agent THEN Append(t, m) ELSE t

\* mon_flush: the batched lines as one message.  The rate window may have
\* passed (fresh).
Flushes(j) == j.batch # <<>> /\ j.agent
mon_flush(j, fresh) ==
    IF ~Flushes(j) THEN j
    ELSE [j EXCEPT !.batch = <<>>, !.events = IF fresh THEN 1 ELSE @ + 1]
FlushTold(j, t) == IF Flushes(j) THEN Append(t, [what |-> "lines", lines |-> j.batch]) ELSE t

\* mon_line: one complete line, unless the batch is full.
mon_line(j, s) ==
    IF Len(j.batch) >= BatchCap THEN [j EXCEPT !.over = @ + 1]
    ELSE [j EXCEPT !.batch = Append(@, SubSeq(s, 1, Low(Len(s), LineCap))),
                   !.coalesce = @ \/ ~j.stopping]

\* mon_feed: the lines of data; the rest of the job is as it was.
mon_feed(j, data) ==
    LET a == FoldLeft(LAMBDA c, b : IF Script[b].ch = "nl" THEN [mon_line(c, c.line) EXCEPT !.line = <<>>]
                                    ELSE IF Len(c.line) >= LineCap THEN c
                                    ELSE [c EXCEPT !.line = Append(@, b)],
                      j, data)
    IN  [j EXCEPT !.line = a.line, !.batch = a.batch, !.coalesce = a.coalesce, !.over = a.over]

\* mon_stop's own part; what is batched was flushed before.
Stopping(j, reason) == [j EXCEPT !.stopping = TRUE, !.reason = reason, !.coalesce = FALSE]

\* mon_stop: the batch is delivered, then the output stopped.
mon_stop(j, q, reason) ==
    IF j.stopping THEN job' = j /\ p' = q /\ UNCHANGED <<os, told>>
    ELSE /\ \E fresh \in BOOLEAN : job' = mon_flush(Stopping(j, reason), fresh)
         /\ told' = FlushTold(j, told)
         /\ p' = IF q.st = "live" THEN clm_proc_stop_output(q) ELSE q
         /\ os' = IF q.st = "live" THEN CancelSignal(q) ELSE os

\* mon_on_coalesce; a monitor that floods is stopped.
mon_on_coalesce ==
    /\ job.coalesce
    /\ \E fresh \in BOOLEAN :
          LET j == mon_flush([job EXCEPT !.coalesce = FALSE], fresh)
          IN  /\ told' = FlushTold(job, told)
              /\ IF Flushes(job) /\ j.events > MaxEvents /\ ~j.stopping
                 THEN /\ job' = Stopping(j, "too many events")
                      /\ p' = IF p.st = "live" THEN clm_proc_stop_output(p) ELSE p
                      /\ os' = IF p.st = "live" THEN CancelSignal(p) ELSE os
                 ELSE job' = j /\ UNCHANGED <<p, os>>
    /\ UNCHANGED read

\* tool_monitor_stop.
tool_monitor_stop ==
    /\ job.kind = "monitor" /\ job.st = "running" /\ ~job.stopping
    /\ mon_stop(job, p, "stopped on request")
    /\ UNCHANGED read

\* mon_freed: the coalesce timer is closed.
mon_freed ==
    /\ job.st = "closing"
    /\ job' = [job EXCEPT !.st = "freed"]
    /\ UNCHANGED <<p, os, read, told>>

-----------------------------------------------------------------------------
(* Starting.                                                                *)

Handles(stdin) == {"proc", "out", "err", "timer"} \cup (IF stdin THEN {"in"} ELSE {})

\* clm_proc_spawn: the command runs, with a timeout or without.
clm_proc_spawn(stdin, timer) ==
    /\ p' = [p EXCEPT !.st = "live", !.open = Handles(stdin), !.timer = timer]
    /\ os' = [os EXCEPT !.shell = "run"]
    /\ job' = [job EXCEPT !.st = "running"]
    /\ UNCHANGED <<read, told>>

\* The spawn fails: the handles are closed, the call fails, done never runs.
SpawnFails(stdin) ==
    /\ p' = [p EXCEPT !.st = "failed", !.closing = Handles(stdin)]
    /\ job' = [job EXCEPT !.st = "refused"]
    /\ UNCHANGED <<os, read, told>>

\* The arguments are refused before anything is started.
BadArguments ==
    /\ job.st = "idle"
    /\ job' = [job EXCEPT !.st = "refused"]
    /\ UNCHANGED <<p, os, read, told>>

\* The core's tool timeout is the only one that shell_exec has.
tool_shell_exec ==
    /\ job.kind = "shell" /\ job.st = "idle"
    /\ \E stdin \in BOOLEAN : clm_proc_spawn(stdin, "off") \/ SpawnFails(stdin)
tool_bg_exec ==
    /\ job.kind = "bg" /\ job.st = "idle"
    /\ clm_proc_spawn(FALSE, "off") \/ SpawnFails(FALSE)
tool_monitor_start ==
    /\ job.kind = "monitor" /\ job.st = "idle"
    /\ clm_proc_spawn(FALSE, "timeout") \/ SpawnFails(FALSE)
run_shell_escape ==
    /\ job.kind = "escape" /\ job.st = "idle"
    /\ clm_proc_spawn(FALSE, "timeout") \/ SpawnFails(FALSE)

-----------------------------------------------------------------------------
(* The end.                                                                 *)

\* mon_done: a timeout ended it before it was stopped; the batch goes first.
mon_done(q) ==
    \E fresh \in BOOLEAN :
       LET late == ~job.stopping
           why  == IF ~late THEN job.reason
                   ELSE IF q.timed_out THEN "expired" ELSE "source ended"
       IN  /\ job' = [(IF late THEN mon_flush(job, fresh) ELSE job) EXCEPT
                         !.st = "closing", !.stopping = TRUE, !.coalesce = FALSE,
                         !.reason = why, !.answers = IF job.agent THEN @ + 1 ELSE @]
           /\ told' = Notify(job, IF late THEN FlushTold(job, told) ELSE told,
                             [what |-> "stopped", lines |-> <<>>])

\* bg_done.
bg_done ==
    /\ job' = [job EXCEPT !.st = "freed", !.answers = IF job.agent THEN @ + 1 ELSE @]
    /\ told' = Notify(job, told, [what |-> "result", lines |-> <<>>])

\* shell_done, whose call is alive until it is answered; shell_escape_done.
shell_done ==
    /\ job' = [job EXCEPT !.st = "freed", !.answers = @ + 1]
    /\ told' = Append(told, [what |-> "result", lines |-> <<>>])
shell_escape_done == shell_done

Done(q) ==
    \/ job.kind = "monitor" /\ mon_done(q)
    \/ job.kind = "bg" /\ bg_done
    \/ job.kind = "shell" /\ shell_done
    \/ job.kind = "escape" /\ shell_escape_done

\* Mutation: a command that could not be started is reported as ended.
finish_failed(q) ==
    /\ p' = [q EXCEPT !.st = "freed"]
    /\ IF q.attached THEN Done(q) ELSE UNCHANGED <<job, told>>

\* finish: the last handle is closed.
finish(q) ==
    /\ p' = [q EXCEPT !.st = "freed"]
    /\ IF q.st = "live" /\ q.attached THEN Done(q) ELSE UNCHANGED <<job, told>>

\* on_closed: when only the timer is left, nothing remains for it to guard.
on_closed(h) ==
    /\ h \in p.closing
    /\ LET q == [p EXCEPT !.closing = @ \ {h}]
       IN  IF q.open \cup q.closing = {} THEN finish(q)
           ELSE /\ p' = IF q.open \cup q.closing = {"timer"}
                        THEN [shut(q, {"timer"}) EXCEPT !.timer = "off"] ELSE q
                /\ UNCHANGED <<job, told>>
    /\ UNCHANGED <<os, read>>

-----------------------------------------------------------------------------
(* Events of the loop.                                                      *)

\* The bytes waiting in a pipe.
Waiting(fd) == IF fd = "out" THEN os.out ELSE os.err
Drained(fd, n) ==
    IF fd = "out" THEN [os EXCEPT !.out = SubSeq(@, n + 1, Len(@))]
    ELSE [os EXCEPT !.err = SubSeq(@, n + 1, Len(@))]

\* on_read with n bytes; a monitor's stderr is only counted.
on_read(fd, n) ==
    /\ fd \in p.open /\ n \in 1..Len(Waiting(fd))
    /\ LET data == SubSeq(Waiting(fd), 1, n)
       IN  /\ p' = IF job.kind = "monitor" THEN p
                   ELSE IF job.kind = "bg" THEN keep_ends(p, data) ELSE keep_head(p, data)
           /\ job' = IF job.kind = "monitor" /\ fd = "out" THEN mon_feed(job, data) ELSE job
           /\ read' = IF job.kind = "monitor" /\ fd = "err" THEN read ELSE read \o data
    /\ os' = Drained(fd, n)
    /\ UNCHANGED told

\* The end of a stream: nobody holds its other end and it is drained.
AtEnd(fd) ==
    /\ Waiting(fd) = <<>>
    /\ fd \in os.shut \/ (os.shell # "run" /\ os.kid \notin {"member", "daemon"})

\* Mutation: the unfinished last line is forgotten.
mon_output_eof_drops(j) == j

\* mon_output at the end of stdout, before mon_stop.
mon_output_eof(j) == IF j.line = <<>> THEN j ELSE [mon_line(j, j.line) EXCEPT !.line = <<>>]

\* on_read with an error or the end; mon_output stops a monitor when its
\* stdout ends, which closes both pipes.
on_read_eof(fd) ==
    /\ fd \in p.open /\ AtEnd(fd)
    /\ IF job.kind = "monitor" /\ fd = "out"
       THEN mon_stop(mon_output_eof(job), p, "source ended")
       ELSE p' = shut(p, {fd}) /\ UNCHANGED <<job, os, told>>
    /\ UNCHANGED read

\* on_exited: the timeout has nothing left to end, unless what the shell left
\* behind is to be waited out.
on_exited ==
    /\ "proc" \in p.open /\ os.shell = "dead"
    /\ LET q == [shut(p, {"proc"}) EXCEPT !.exited = TRUE]
       IN  p' = IF q.cancelled THEN q
                ELSE [q EXCEPT !.timer =
                         IF q.open \cap Pipes # {} /\ job.kind = "escape" THEN "kill" ELSE "off"]
    /\ UNCHANGED <<job, os, read, told>>

\* on_timeout.
on_timeout ==
    /\ p.timer = "timeout" /\ "timer" \in p.open
    /\ p' = clm_proc_cancel([p EXCEPT !.timed_out = TRUE, !.timer = "off"])
    /\ os' = CancelSignal(p)
    /\ UNCHANGED <<job, read, told>>

\* on_kill.
on_kill ==
    /\ p.timer = "kill" /\ "timer" \in p.open
    /\ os' = Signalled(p, "kill")
    /\ p' = [shut(close_pipes(p), {"timer"}) EXCEPT !.timer = "off"]
    /\ UNCHANGED <<job, read, told>>

\* on_written: the input was taken, or cannot be.
on_written ==
    /\ "in" \in p.open
    /\ p' = shut(p, {"in"})
    /\ UNCHANGED <<job, os, read, told>>

-----------------------------------------------------------------------------
(* The owner.                                                               *)

\* shell_cancel: the tool's timeout, a cancelled turn or the agent's end.
shell_cancel ==
    /\ job.kind = "shell" /\ job.st = "running" /\ ~p.cancelled
    /\ p' = clm_proc_cancel(p)
    /\ os' = CancelSignal(p)
    /\ UNCHANGED <<job, read, told>>

\* bg_detach: the job goes on and tells nobody.
bg_detach ==
    /\ job.kind = "bg" /\ job.st = "running" /\ job.agent
    /\ job' = [job EXCEPT !.agent = FALSE]
    /\ UNCHANGED <<p, os, read, told>>

\* mon_detach.
mon_detach ==
    /\ job.kind = "monitor" /\ job.st \in {"running", "closing"} /\ job.agent
    /\ mon_stop([job EXCEPT !.agent = FALSE], p, "agent detached")
    /\ UNCHANGED read

\* tui_run's end: a command still running must not call into a freed ui.
EscapeExit ==
    /\ job.kind = "escape" /\ job.st = "running" /\ job.agent
    /\ job' = [job EXCEPT !.agent = FALSE]
    /\ p' = clm_proc_kill(clm_proc_detach(p))
    /\ os' = Signalled(p, "kill")
    /\ UNCHANGED <<read, told>>

-----------------------------------------------------------------------------
(* The command's processes.                                                 *)

Alive == os.shell = "run" \/ os.kid \in {"member", "daemon"}

\* A process prints the next byte.
Writes ==
    /\ Alive /\ os.next < Len(Script) /\ Script[os.next + 1].fd \notin os.shut
    /\ os' = IF Script[os.next + 1].fd = "out"
             THEN [os EXCEPT !.out = Append(@, os.next + 1), !.next = @ + 1]
             ELSE [os EXCEPT !.err = Append(@, os.next + 1), !.next = @ + 1]
    /\ UNCHANGED <<p, job, read, told>>

\* The shell leaves a process behind, in its group or in one of its own.
Forks(g) ==
    /\ os.shell = "run" /\ os.kid = "none"
    /\ os' = [os EXCEPT !.kid = g]
    /\ UNCHANGED <<p, job, read, told>>

\* The processes redirect a stream, so that nobody holds it.
Redirects(fd) ==
    /\ Alive /\ fd \notin os.shut
    /\ os' = [os EXCEPT !.shut = @ \cup {fd}]
    /\ UNCHANGED <<p, job, read, told>>

\* The shell, or the process it left, ends.
ShellEnds ==
    /\ os.shell = "run"
    /\ os' = [os EXCEPT !.shell = "dead"]
    /\ UNCHANGED <<p, job, read, told>>
KidEnds ==
    /\ os.kid \in {"member", "daemon"}
    /\ os' = [os EXCEPT !.kid = "dead"]
    /\ UNCHANGED <<p, job, read, told>>

-----------------------------------------------------------------------------
Reads(fd) == on_read_eof(fd) \/ \E n \in 1..Len(Script) : on_read(fd, n)

Next ==
    \/ tool_shell_exec \/ tool_bg_exec \/ tool_monitor_start \/ run_shell_escape
    \/ BadArguments \/ on_exited \/ on_timeout \/ on_kill \/ on_written
    \/ mon_on_coalesce \/ tool_monitor_stop \/ mon_freed
    \/ shell_cancel \/ bg_detach \/ mon_detach \/ EscapeExit
    \/ \E h \in {"proc", "out", "err", "in", "timer"} : on_closed(h)
    \/ \E fd \in Pipes : Reads(fd) \/ Redirects(fd)
    \/ \E g \in {"member", "daemon"} : Forks(g)
    \/ Writes \/ ShellEnds \/ KidEnds

Spec == Init /\ [][Next]_vars

\* The loop runs the callbacks it has; nothing is assumed of the command.
Fairness ==
    /\ WF_vars(on_exited) /\ WF_vars(on_timeout) /\ WF_vars(on_kill)
    /\ WF_vars(mon_on_coalesce) /\ WF_vars(mon_freed)
    /\ \A fd \in Pipes : WF_vars(Reads(fd))
    /\ \A h \in {"proc", "out", "err", "in", "timer"} : WF_vars(on_closed(h))

FairSpec == Spec /\ Fairness

-----------------------------------------------------------------------------
(* Properties.                                                              *)

Kept(s) ==
    IF Len(s) <= MaxKept THEN s
    ELSE IF job.kind = "bg" THEN SubSeq(s, 1, HeadKept) \o SubSeq(s, Len(s) - (MaxKept - HeadKept) + 1, Len(s))
    ELSE SubSeq(s, 1, MaxKept)

\* However the output was cut into chunks, what is kept is its first max bytes,
\* or its first head and its newest bytes, and the rest is what was counted as
\* dropped.
KeptRight ==
    job.kind # "monitor" => p.buf = Kept(read) /\ p.dropped = Len(read) - Len(p.buf)

\* The lines of what was read from stdout, cut at the cap, and what is left of
\* it after the last newline.
LinesOf(s) ==
    FoldLeft(LAMBDA a, b : IF Script[b].ch = "nl"
                           THEN [all |-> Append(a.all, SubSeq(a.rest, 1, Low(Len(a.rest), LineCap))),
                                 rest |-> <<>>]
                           ELSE [a EXCEPT !.rest = Append(@, b)],
             [all |-> <<>>, rest |-> <<>>], s)

Delivered == FoldLeft(LAMBDA a, m : a \o m.lines, <<>>, told)
Stops == {i \in DOMAIN told : told[i].what = "stopped"}

\* A monitor's lines reach the agent in order, none twice, and none is lost
\* but for a full batch; an unfinished line is delivered when stdout ended by
\* itself; the closing notice comes once, after them all.
MonitorOrder ==
    job.kind = "monitor" =>
       /\ Stops \subseteq {Len(told)}
       /\ job.over = 0 => IsPrefix(Delivered, LinesOf(read).all
                                     \o (IF LinesOf(read).rest = <<>> THEN <<>>
                                         ELSE <<SubSeq(LinesOf(read).rest, 1,
                                                       Low(Len(LinesOf(read).rest), LineCap))>>))
       /\ Stops # {} =>
             Len(Delivered) + job.over =
                Len(LinesOf(read).all)
                   + (IF job.reason = "source ended" /\ LinesOf(read).rest # <<>> THEN 1 ELSE 0)

Promise == INSTANCE Completions WITH
    Ids <- {"job"}, answers <- [i \in {"job"} |-> job.answers],
    st <- [i \in {"job"} |-> IF job.answers > 0 THEN "settled"
                             ELSE IF job.st \in {"idle", "refused"} THEN job.st
                             ELSE IF job.agent THEN "open" ELSE "dropped"]

\* A command that was started is reported exactly once, when every handle is
\* closed; one that was refused never; and none to an owner that has gone.
ReportedOnce == Promise!Spec

\* proc.h: after a cancel, by its owner or by the timeout, the command always
\* comes to its end, whatever its processes do with the signal and whoever
\* holds the pipes.
CancelEnds == p.cancelled ~> p.st = "freed"

=============================================================================
