---------------------------- MODULE Proc_proofs ----------------------------
(***************************************************************************)
(* Proofs about Proc: what is kept of a command's output, and that the     *)
(* command is reported to its owner exactly once.                          *)
(*                                                                         *)
(* Most steps are quiet: they move handles, timers and processes and leave *)
(* alone the buffer, what was read and what the owner is owed (QuietSteps).*)
(* The others start, read, end or detach, one lemma each.  The inductive   *)
(* invariant IInv adds to the types that the buffer has the elements it    *)
(* should (BufferOK, KeptRight element by element) and how a job's state   *)
(* goes with its process's (JobOK).  The lines of a monitor are computed   *)
(* by a fold, so the types of line and batch are left open: JobShape only  *)
(* says which fields a job has.                                            *)
(***************************************************************************)
EXTENDS Proc, Integers, SequenceTheorems, FiniteSetTheorems, TLAPS

-----------------------------------------------------------------------------
(* The sequences of the output that is kept.                               *)

\* The elements from m to n of a sequence.
LEMMA PartFacts ==
    ASSUME NEW S, NEW s \in Seq(S), NEW m \in Nat, NEW n \in Nat,
           1 <= m, m <= n + 1, n <= Len(s)
    PROVE  /\ SubSeq(s, m, n) \in Seq(S) /\ Len(SubSeq(s, m, n)) = n - m + 1
           /\ \A i \in 1 .. n - m + 1 : SubSeq(s, m, n)[i] = s[m + i - 1]
<1>1. \A i \in m .. n : s[i] \in S
  <2>1. \A i \in m .. n : i \in 1 .. Len(s)
    OBVIOUS
  <2> QED BY <2>1, ElementOfSeq
<1>2. /\ SubSeq(s, m, n) \in Seq(S)
      /\ Len(SubSeq(s, m, n)) = IF m <= n THEN n - m + 1 ELSE 0
      /\ \A i \in 1 .. n - m + 1 : SubSeq(s, m, n)[i] = s[m + i - 1]
  <2>1. m \in Int /\ n \in Int
    OBVIOUS
  <2> QED BY <1>1, <2>1, SubSeqProperties
<1>3. ~(m <= n) => n - m + 1 = 0
  OBVIOUS
<1> QED BY <1>2, <1>3

\* Two sequences one after the other.
LEMMA JoinFacts ==
    ASSUME NEW S, NEW a \in Seq(S), NEW b \in Seq(S)
    PROVE  /\ a \o b \in Seq(S) /\ Len(a \o b) = Len(a) + Len(b)
           /\ \A i \in 1 .. Len(a) : (a \o b)[i] = a[i]
           /\ \A i \in 1 .. Len(b) : (a \o b)[Len(a) + i] = b[i]
<1>1. /\ a \o b \in Seq(S) /\ Len(a \o b) = Len(a) + Len(b)
      /\ \A i \in 1 .. Len(a) + Len(b) :
           (a \o b)[i] = IF i <= Len(a) THEN a[i] ELSE b[i - Len(a)]
  BY ConcatProperties
<1>2. Len(a) \in Nat /\ Len(b) \in Nat
  OBVIOUS
<1>3. ASSUME NEW i \in 1 .. Len(a) PROVE (a \o b)[i] = a[i]
  <2>1. i \in 1 .. Len(a) + Len(b) /\ i <= Len(a)
    BY <1>2
  <2> QED BY <1>1, <2>1
<1>4. ASSUME NEW i \in 1 .. Len(b) PROVE (a \o b)[Len(a) + i] = b[i]
  <2>1. Len(a) + i \in 1 .. Len(a) + Len(b) /\ ~(Len(a) + i <= Len(a)) /\ Len(a) + i - Len(a) = i
    BY <1>2
  <2> QED BY <1>1, <2>1
<1> QED BY <1>1, <1>3, <1>4

-----------------------------------------------------------------------------
\* The fields of a job.
JobShape(j) ==
    DOMAIN j = {"kind", "st", "agent", "stopping", "reason", "line", "batch",
                "coalesce", "events", "over", "answers"}

\* What a job's owner sees of it, unchanged from j to k.
SameJob(j, k) ==
    /\ JobShape(k)
    /\ k.kind = j.kind /\ k.st = j.st /\ k.agent = j.agent /\ k.answers = j.answers

\* What a monitor does with its lines does not change what its owner is owed.
LEMMA FlushSame ==
    ASSUME NEW j, NEW fresh, JobShape(j)
    PROVE  SameJob(j, mon_flush(j, fresh))
BY DEF JobShape, SameJob, mon_flush

LEMMA LineSame ==
    ASSUME NEW j, NEW s, JobShape(j)
    PROVE  SameJob(j, mon_line(j, s))
BY DEF JobShape, SameJob, mon_line

LEMMA FeedSame ==
    ASSUME NEW j, NEW s, JobShape(j)
    PROVE  SameJob(j, mon_feed(j, s))
BY DEF JobShape, SameJob, mon_feed

LEMMA EofSame ==
    ASSUME NEW j, JobShape(j)
    PROVE  SameJob(j, mon_output_eof(j))
BY LineSame DEF JobShape, SameJob, mon_output_eof

LEMMA StoppingSame ==
    ASSUME NEW j, NEW s, JobShape(j)
    PROVE  SameJob(j, Stopping(j, s))
BY DEF JobShape, SameJob, Stopping

AllHandles == {"proc", "out", "err", "in", "timer"}

ProcType ==
    [st : {"none", "live", "failed", "freed"}, open : SUBSET AllHandles, closing : SUBSET AllHandles,
     timer : {"off", "timeout", "kill"}, exited : BOOLEAN, cancelled : BOOLEAN, timed_out : BOOLEAN,
     attached : BOOLEAN, buf : Seq(Nat), dropped : Int]

OsType ==
    [shell : {"none", "run", "dead"}, kid : {"none", "member", "daemon", "dead"}, next : Nat,
     termed : BOOLEAN, out : Seq(Nat), err : Seq(Nat), shut : SUBSET Pipes]

\* What is kept of the output, and who is told, unchanged from q to r.
SameProc(q, r) ==
    /\ r \in ProcType
    /\ r.st = q.st /\ r.attached = q.attached /\ r.buf = q.buf /\ r.dropped = q.dropped

\* Closing handles, cancelling and signalling leave the collected output alone.
LEMMA ShutSame ==
    ASSUME NEW q \in ProcType, NEW S
    PROVE  SameProc(q, shut(q, S)) /\ SameProc(q, close_pipes(q))
BY DEF ProcType, SameProc, shut, close_pipes

LEMMA CancelSame ==
    ASSUME NEW q \in ProcType
    PROVE  SameProc(q, clm_proc_cancel(q))
BY DEF ProcType, SameProc, clm_proc_cancel

LEMMA StopSame ==
    ASSUME NEW q \in ProcType
    PROVE  SameProc(q, clm_proc_stop_output(q))
<1>1. SameProc(q, close_pipes(q)) /\ close_pipes(q) \in ProcType
  BY ShutSame DEF SameProc
<1>2. SameProc(close_pipes(q), clm_proc_cancel(close_pipes(q)))
  BY <1>1, CancelSame
<1> QED BY <1>1, <1>2 DEF SameProc, clm_proc_stop_output

LEMMA SignalType ==
    ASSUME os \in OsType, NEW q, NEW sig
    PROVE  Signalled(q, sig) \in OsType /\ CancelSignal(q) \in OsType
<1>1. [os EXCEPT !.termed = TRUE] \in OsType
  BY DEF OsType
<1>2. [os EXCEPT !.shell = IF @ = "run" THEN "dead" ELSE @,
                 !.kid = IF @ = "member" THEN "dead" ELSE @] \in OsType
  BY DEF OsType
<1> QED BY <1>1, <1>2 DEF Signalled, CancelSignal

-----------------------------------------------------------------------------
\* The type invariant.
TypeOK ==
    /\ p \in ProcType
    /\ JobShape(job) /\ job.agent \in BOOLEAN /\ job.answers \in Nat
    /\ os \in OsType
    /\ read \in Seq(Nat)

\* A step that leaves alone what was read, what is kept and what is owed.
Quiet ==
    /\ SameProc(p, p') /\ SameJob(job, job')
    /\ os' \in OsType /\ UNCHANGED read

\* mon_stop, from a job j.
LEMMA StopQuiet ==
    ASSUME p \in ProcType, os \in OsType, NEW j, JobShape(j), NEW reason,
           mon_stop(j, p, reason)
    PROVE  SameProc(p, p') /\ SameJob(j, job') /\ os' \in OsType
<1>0. SameProc(p, p)
  BY DEF SameProc
<1>1. CASE j.stopping
  BY <1>0, <1>1 DEF mon_stop, SameJob
<1>2. CASE ~j.stopping
  <2>1. PICK fresh \in BOOLEAN : job' = mon_flush(Stopping(j, reason), fresh)
    BY <1>2 DEF mon_stop
  <2>2. SameJob(j, job')
    BY <2>1, StoppingSame, FlushSame DEF SameJob
  <2>3. SameProc(p, p')
    BY <1>0, <1>2, StopSame DEF mon_stop
  <2>4. os' \in OsType
    BY <1>2, SignalType DEF mon_stop
  <2> QED BY <2>2, <2>3, <2>4
<1> QED BY <1>1, <1>2

\* The steps of the loop, of the owner and of the command that are quiet.
LEMMA QuietSteps ==
    ASSUME TypeOK,
           \/ on_exited \/ on_timeout \/ on_kill \/ on_written \/ mon_on_coalesce
           \/ tool_monitor_stop \/ shell_cancel \/ Writes \/ ShellEnds \/ KidEnds
           \/ \E fd \in Pipes : on_read_eof(fd) \/ Redirects(fd)
           \/ \E g \in {"member", "daemon"} : Forks(g)
    PROVE  Quiet
<1>0. /\ p \in ProcType /\ os \in OsType /\ JobShape(job)
      /\ SameProc(p, p) /\ SameJob(job, job)
  BY DEF TypeOK, SameProc, SameJob
<1>1. CASE on_exited
  <2>1. SameProc(p, shut(p, {"proc"})) /\ shut(p, {"proc"}) \in ProcType
    BY <1>0, ShutSame DEF SameProc
  <2>2. SameProc(p, p')
    BY <1>1, <2>1 DEF on_exited, SameProc, ProcType
  <2> QED BY <1>0, <1>1, <2>2 DEF on_exited, Quiet
<1>2. CASE on_timeout
  <2> DEFINE q == [p EXCEPT !.timed_out = TRUE, !.timer = "off"]
  <2>1. SameProc(p, q) /\ q \in ProcType
    BY <1>0 DEF SameProc, ProcType
  <2> HIDE DEF q
  <2>2. SameProc(q, clm_proc_cancel(q))
    BY <2>1, CancelSame
  <2>3. p' = clm_proc_cancel(q)
    BY <1>2 DEF on_timeout, q
  <2> QED BY <1>0, <1>2, <2>1, <2>2, <2>3, SignalType DEF on_timeout, Quiet, SameProc
<1>3. CASE on_kill
  <2> DEFINE q == close_pipes(p)
             r == shut(q, {"timer"})
  <2>1. SameProc(p, q) /\ q \in ProcType
    BY <1>0, ShutSame DEF SameProc
  <2>2. SameProc(p, r) /\ r \in ProcType
    BY <2>1, ShutSame DEF SameProc
  <2> HIDE DEF q, r
  <2>3. p' = [r EXCEPT !.timer = "off"]
    BY <1>3 DEF on_kill, q, r
  <2>4. SameProc(p, p')
    BY <2>2, <2>3 DEF SameProc, ProcType
  <2> QED BY <1>0, <1>3, <2>4, SignalType DEF on_kill, Quiet
<1>4. CASE on_written
  BY <1>0, <1>4, ShutSame DEF on_written, Quiet
<1>5. CASE mon_on_coalesce
  <2> DEFINE j0 == [job EXCEPT !.coalesce = FALSE]
  <2>1. SameJob(job, j0)
    BY <1>0 DEF SameJob, JobShape
  <2>2. PICK fresh \in BOOLEAN :
          LET j == mon_flush(j0, fresh)
          IN  IF Flushes(job) /\ j.events > MaxEvents /\ ~j.stopping
              THEN /\ job' = Stopping(j, "too many events")
                   /\ p' = IF p.st = "live" THEN clm_proc_stop_output(p) ELSE p
                   /\ os' = IF p.st = "live" THEN CancelSignal(p) ELSE os
              ELSE job' = j /\ UNCHANGED <<p, os>>
    BY <1>5 DEF mon_on_coalesce
  <2> DEFINE j == mon_flush(j0, fresh)
  <2> HIDE DEF j0
  <2>3. SameJob(job, j)
    BY <2>1, FlushSame DEF SameJob
  <2>4. SameJob(job, Stopping(j, "too many events"))
    BY <2>3, StoppingSame DEF SameJob
  <2>5. read' = read
    BY <1>5 DEF mon_on_coalesce
  <2> HIDE DEF j
  <2>6. SameJob(job, job') /\ SameProc(p, p') /\ os' \in OsType
    BY <1>0, <2>2, <2>3, <2>4, StopSame, SignalType DEF j
  <2> QED BY <2>5, <2>6 DEF Quiet
<1>6. CASE tool_monitor_stop
  BY <1>0, <1>6, StopQuiet DEF tool_monitor_stop, Quiet
<1>7. CASE shell_cancel
  BY <1>0, <1>7, CancelSame, SignalType DEF shell_cancel, Quiet
<1>8. CASE Writes
  <2>1. os.next + 1 \in Nat /\ Append(os.out, os.next + 1) \in Seq(Nat)
        /\ Append(os.err, os.next + 1) \in Seq(Nat)
    BY <1>0 DEF OsType
  <2>2. os' \in OsType
    BY <1>0, <1>8, <2>1 DEF Writes, OsType
  <2> QED BY <1>0, <1>8, <2>2 DEF Writes, Quiet
<1>9. CASE ShellEnds \/ KidEnds
  BY <1>0, <1>9 DEF ShellEnds, KidEnds, Quiet, OsType
<1>10. ASSUME NEW fd \in Pipes, on_read_eof(fd) PROVE Quiet
  <2>1. CASE job.kind = "monitor" /\ fd = "out"
    <3>1. SameJob(job, mon_output_eof(job)) /\ JobShape(mon_output_eof(job))
      BY <1>0, EofSame DEF SameJob
    <3>2. mon_stop(mon_output_eof(job), p, "source ended") /\ UNCHANGED read
      BY <1>10, <2>1 DEF on_read_eof
    <3>3. SameProc(p, p') /\ SameJob(mon_output_eof(job), job') /\ os' \in OsType
      BY <1>0, <3>1, <3>2, StopQuiet
    <3> QED BY <3>1, <3>2, <3>3 DEF Quiet, SameJob
  <2>2. CASE ~(job.kind = "monitor" /\ fd = "out")
    BY <1>0, <1>10, <2>2, ShutSame DEF on_read_eof, Quiet
  <2> QED BY <2>1, <2>2
<1>11. ASSUME NEW fd \in Pipes, Redirects(fd) PROVE Quiet
  BY <1>0, <1>11 DEF Redirects, Quiet, OsType
<1>12. ASSUME NEW g \in {"member", "daemon"}, Forks(g) PROVE Quiet
  BY <1>0, <1>12 DEF Forks, Quiet, OsType
<1> QED BY <1>1, <1>2, <1>3, <1>4, <1>5, <1>6, <1>7, <1>8, <1>9, <1>10, <1>11, <1>12

-----------------------------------------------------------------------------
(* The collected output.                                                    *)

\* The bytes from m to n, and two pieces one after the other.
LEMMA Part ==
    ASSUME NEW s \in Seq(Nat), NEW m \in Nat, NEW n \in Nat,
           1 <= m, m <= n + 1, n <= Len(s)
    PROVE  /\ SubSeq(s, m, n) \in Seq(Nat) /\ Len(SubSeq(s, m, n)) = n - m + 1
           /\ \A i \in 1 .. n - m + 1 : SubSeq(s, m, n)[i] = s[m + i - 1]
<1> DEFINE S == Nat
<1>1. s \in Seq(S)
  OBVIOUS
<1> HIDE DEF S
<1>2. /\ SubSeq(s, m, n) \in Seq(S) /\ Len(SubSeq(s, m, n)) = n - m + 1
      /\ \A i \in 1 .. n - m + 1 : SubSeq(s, m, n)[i] = s[m + i - 1]
  BY <1>1, PartFacts
<1> QED BY <1>2 DEF S

LEMMA Joined ==
    ASSUME NEW a \in Seq(Nat), NEW b \in Seq(Nat)
    PROVE  /\ a \o b \in Seq(Nat) /\ Len(a \o b) = Len(a) + Len(b)
           /\ \A i \in 1 .. Len(a) : (a \o b)[i] = a[i]
           /\ \A i \in 1 .. Len(b) : (a \o b)[Len(a) + i] = b[i]
<1> DEFINE S == Nat
<1>1. a \in Seq(S) /\ b \in Seq(S)
  OBVIOUS
<1> HIDE DEF S
<1>2. /\ a \o b \in Seq(S) /\ Len(a \o b) = Len(a) + Len(b)
      /\ \A i \in 1 .. Len(a) : (a \o b)[i] = a[i]
      /\ \A i \in 1 .. Len(b) : (a \o b)[Len(a) + i] = b[i]
  BY <1>1, JoinFacts
<1> QED BY <1>2 DEF S

\* b is what is kept of r: its first h bytes, and its newest ones up to max.
IsKept(b, r, h) ==
    /\ b \in Seq(Nat) /\ Len(b) = Low(MaxKept, Len(r))
    /\ \A i \in 1 .. Len(b) :
         b[i] = r[IF i <= h THEN i ELSE Len(r) - Len(b) + i]

\* The part of KeptRight for a buffer q and what was read of the command.
Keeps(q, r, h) == IsKept(q.buf, r, h) /\ q.dropped = Len(r) - Len(q.buf)

\* keep_head, and keep_ends past the head, keep what they should of one chunk more.
LEMMA HeadKeeps ==
    ASSUME NEW q \in ProcType, NEW r \in Seq(Nat), NEW data \in Seq(Nat), Keeps(q, r, MaxKept)
    PROVE  /\ keep_head(q, data) \in ProcType
           /\ keep_head(q, data).st = q.st /\ keep_head(q, data).attached = q.attached
           /\ Keeps(keep_head(q, data), r \o data, MaxKept)
<1> DEFINE b == q.buf
           n == Len(b)
           k == Len(r)
           l == Len(data)
           take == Low(IF n >= MaxKept THEN 0 ELSE MaxKept - n, l)
           d == SubSeq(data, 1, take)
           c == b \o d
           g == keep_head(q, data)
<1>0. /\ MaxKept \in Nat /\ n \in Nat /\ k \in Nat /\ l \in Nat /\ b \in Seq(Nat)
      /\ q.dropped = k - n /\ n = Low(MaxKept, k)
      /\ \A i \in 1 .. n : b[i] = r[IF i <= MaxKept THEN i ELSE k - n + i]
  BY SizesAssumption DEF Keeps, IsKept
<1>1. g = [q EXCEPT !.buf = c, !.dropped = @ + l - take]
  BY DEF keep_head
<1> HIDE DEF n, k, l, b, g
<1>2. take \in Nat /\ take <= l /\ n <= k /\ n <= MaxKept /\ n + take = Low(MaxKept, k + l)
      /\ (take > 0 => n = k)
  BY <1>0 DEF Low
<1> HIDE DEF take
<1>3. d \in Seq(Nat) /\ Len(d) = take /\ \A i \in 1 .. take : d[i] = data[i]
  <2>1. /\ d \in Seq(Nat) /\ Len(d) = take - 1 + 1
        /\ \A i \in 1 .. take - 1 + 1 : d[i] = data[1 + i - 1]
    BY <1>2, Part DEF l
  <2> QED BY <1>2, <2>1
<1> HIDE DEF d
<1>4. /\ c \in Seq(Nat) /\ Len(c) = n + take
      /\ \A i \in 1 .. n : c[i] = b[i]
      /\ \A i \in 1 .. take : c[n + i] = d[i]
  BY <1>0, <1>3, Joined DEF n
<1>5. /\ Len(r \o data) = k + l
      /\ \A i \in 1 .. k : (r \o data)[i] = r[i]
      /\ \A i \in 1 .. l : (r \o data)[k + i] = data[i]
  BY Joined DEF k, l
<1> HIDE DEF c
<1>6. /\ g \in ProcType /\ g.st = q.st /\ g.attached = q.attached /\ g.buf = c
      /\ g.dropped = q.dropped + l - take
  <2>1. q.dropped + l - take \in Int
    BY <1>0, <1>2
  <2> QED BY <1>1, <1>4, <2>1 DEF ProcType
<1>7. ASSUME NEW i \in 1 .. Len(c)
      PROVE  c[i] = (r \o data)[IF i <= MaxKept THEN i ELSE Len(r \o data) - Len(c) + i]
  <2>1. i \in Nat /\ i >= 1 /\ i <= n + take /\ i <= MaxKept
    BY <1>0, <1>2, <1>4 DEF Low
  <2>2. CASE i <= n
    <3>1. i \in 1 .. n /\ i \in 1 .. k
      BY <1>0, <1>2, <2>1, <2>2
    <3> QED BY <1>0, <1>4, <1>5, <2>1, <3>1
  <2>3. CASE ~(i <= n)
    <3>1. PICK m \in 1 .. take : i = n + m
      <4>1. i - n \in 1 .. take /\ i = n + (i - n)
        BY <1>0, <1>2, <2>1, <2>3
      <4> QED BY <4>1
    <3>2. m \in 1 .. l /\ n = k
      BY <1>0, <1>2, <3>1
    <3> QED BY <1>3, <1>4, <1>5, <2>1, <3>1, <3>2
  <2> QED BY <2>2, <2>3
<1>8. g.dropped = Len(r \o data) - Len(c)
  BY <1>0, <1>2, <1>4, <1>5, <1>6
<1>9. Len(c) = Low(MaxKept, Len(r \o data))
  BY <1>2, <1>4, <1>5
<1> QED BY <1>4, <1>6, <1>7, <1>8, <1>9 DEF Keeps, IsKept, g

LEMMA TailKeeps ==
    ASSUME NEW q \in ProcType, NEW r \in Seq(Nat), NEW data \in Seq(Nat),
           Keeps(q, r, HeadKept), Len(q.buf) >= HeadKept
    PROVE  /\ KeepTail(q, data) \in ProcType
           /\ KeepTail(q, data).st = q.st /\ KeepTail(q, data).attached = q.attached
           /\ Keeps(KeepTail(q, data), r \o data, HeadKept)
<1> DEFINE b == q.buf
           n == Len(b)
           k == Len(r)
           l == Len(data)
           room == MaxKept - HeadKept
           over == IF l > room THEN l - room ELSE 0
           d == SubSeq(data, over + 1, l)
           m == Len(d)
           evict == IF n + m > MaxKept THEN n + m - MaxKept ELSE 0
           a == SubSeq(b, 1, HeadKept)
           z == SubSeq(b, HeadKept + evict + 1, n)
           c == (a \o z) \o d
           g == KeepTail(q, data)
<1>0. /\ MaxKept \in Nat /\ HeadKept \in Nat /\ HeadKept <= MaxKept
      /\ n \in Nat /\ k \in Nat /\ l \in Nat /\ n >= HeadKept
  BY SizesAssumption DEF Keeps, IsKept
<1>b. /\ b \in Seq(Nat) /\ q.dropped = k - n /\ n = Low(MaxKept, k)
      /\ \A i \in 1 .. n : b[i] = r[IF i <= HeadKept THEN i ELSE k - n + i]
  BY DEF Keeps, IsKept
<1>1. g = [q EXCEPT !.buf = c, !.dropped = @ + over + evict]
  BY DEF KeepTail
<1> HIDE DEF n, k, l, b, g
<1>2. over \in Nat /\ over <= l
  BY <1>0
<1>3. /\ d \in Seq(Nat) /\ m = l - over
      /\ \A i \in 1 .. m : d[i] = data[over + i]
  <2>1. /\ d \in Seq(Nat) /\ Len(d) = l - (over + 1) + 1
        /\ \A i \in 1 .. l - (over + 1) + 1 : d[i] = data[over + 1 + i - 1]
    <3>1. over + 1 \in Nat /\ 1 <= over + 1 /\ over + 1 <= l + 1 /\ l <= Len(data)
      BY <1>0, <1>2 DEF l
    <3> HIDE DEF over
    <3> QED BY <1>0, <3>1, Part
  <2> HIDE DEF over, d
  <2>2. m = l - over
    BY <1>0, <1>2, <2>1
  <2>3. ASSUME NEW i \in 1 .. m PROVE d[i] = data[over + i]
    <3>1. i \in 1 .. l - (over + 1) + 1 /\ over + 1 + i - 1 = over + i
      BY <1>0, <1>2, <2>2
    <3>2. d[i] = data[over + 1 + i - 1]
      BY <2>1, <3>1
    <3> QED BY <3>1, <3>2
  <2> QED BY <2>1, <2>2, <2>3
<1>4. /\ m \in Nat /\ (over = 0 => m = l) /\ (over > 0 => m = room)
      /\ m <= room
  <2> HIDE DEF d, m
  <2> QED BY <1>0, <1>2, <1>3
<1> HIDE DEF d, m
<1>e. m = l - over
  BY <1>3
<1>5. /\ evict \in Nat /\ evict + HeadKept <= n /\ n <= k
      /\ (over > 0 => evict + HeadKept = n)
  <2>1. n <= k /\ n <= MaxKept
    BY <1>0, <1>b DEF Low
  <2> QED BY <1>0, <1>2, <1>4, <2>1
<1>f. n - evict + m = Low(MaxKept, k + l)
  <2>1. n = Low(MaxKept, k)
    BY <1>b
  <2> QED BY <1>0, <1>2, <1>e, <1>4, <2>1 DEF Low
<1> HIDE DEF over, evict, room
<1>6. a \in Seq(Nat) /\ Len(a) = HeadKept /\ \A i \in 1 .. HeadKept : a[i] = b[i]
  <2>1. /\ a \in Seq(Nat) /\ Len(a) = HeadKept - 1 + 1
        /\ \A i \in 1 .. HeadKept - 1 + 1 : a[i] = b[1 + i - 1]
    <3>1. b \in Seq(Nat) /\ HeadKept <= Len(b) /\ 1 \in Nat /\ 1 <= 1 /\ 1 <= HeadKept + 1
      BY <1>0, <1>b DEF n
    <3> QED BY <1>0, <3>1, Part
  <2> QED BY <1>0, <2>1
<1>7. /\ z \in Seq(Nat) /\ Len(z) = n - HeadKept - evict
      /\ \A i \in 1 .. n - HeadKept - evict : z[i] = b[HeadKept + evict + i]
  <2>0. HeadKept + evict + 1 \in Nat /\ 1 <= HeadKept + evict + 1 /\ HeadKept + evict + 1 <= n + 1
        /\ n <= Len(b)
    BY <1>0, <1>5 DEF n
  <2>1. /\ z \in Seq(Nat) /\ Len(z) = n - (HeadKept + evict + 1) + 1
        /\ \A i \in 1 .. n - (HeadKept + evict + 1) + 1 : z[i] = b[(HeadKept + evict + 1) + i - 1]
    <3> DEFINE e == HeadKept + evict + 1
    <3>1. b \in Seq(Nat) /\ e \in Nat /\ 1 <= e /\ e <= n + 1
      BY <1>b, <2>0
    <3> HIDE DEF e
    <3>2. /\ SubSeq(b, e, n) \in Seq(Nat) /\ Len(SubSeq(b, e, n)) = n - e + 1
          /\ \A i \in 1 .. n - e + 1 : SubSeq(b, e, n)[i] = b[e + i - 1]
      BY <1>0, <2>0, <3>1, Part
    <3> QED BY <3>2 DEF e
  <2> HIDE DEF z
  <2>2. Len(z) = n - HeadKept - evict
    BY <1>0, <1>5, <2>1
  <2>3. ASSUME NEW i \in 1 .. n - HeadKept - evict PROVE z[i] = b[HeadKept + evict + i]
    <3>1. /\ i \in 1 .. n - (HeadKept + evict + 1) + 1
          /\ (HeadKept + evict + 1) + i - 1 = HeadKept + evict + i
      BY <1>0, <1>5
    <3>2. z[i] = b[(HeadKept + evict + 1) + i - 1]
      BY <2>1, <3>1
    <3> QED BY <3>1, <3>2
  <2> QED BY <2>1, <2>2, <2>3
<1> HIDE DEF a, z
<1>8. /\ a \o z \in Seq(Nat) /\ Len(a \o z) = n - evict
      /\ \A i \in 1 .. HeadKept : (a \o z)[i] = a[i]
      /\ \A i \in 1 .. n - HeadKept - evict : (a \o z)[HeadKept + i] = z[i]
  <2>1. /\ a \o z \in Seq(Nat) /\ Len(a \o z) = Len(a) + Len(z)
        /\ \A i \in 1 .. Len(a) : (a \o z)[i] = a[i]
        /\ \A i \in 1 .. Len(z) : (a \o z)[Len(a) + i] = z[i]
    BY <1>6, <1>7, Joined
  <2>2. HeadKept + (n - HeadKept - evict) = n - evict
    BY <1>0, <1>5
  <2> QED BY <1>6, <1>7, <2>1, <2>2
<1>9. /\ c \in Seq(Nat) /\ Len(c) = n - evict + m
      /\ \A i \in 1 .. n - evict : c[i] = (a \o z)[i]
      /\ \A i \in 1 .. m : c[n - evict + i] = d[i]
  <2>1. /\ c \in Seq(Nat) /\ Len(c) = Len(a \o z) + Len(d)
        /\ \A i \in 1 .. Len(a \o z) : c[i] = (a \o z)[i]
        /\ \A i \in 1 .. Len(d) : c[Len(a \o z) + i] = d[i]
    BY <1>3, <1>8, Joined
  <2> QED BY <1>8, <2>1 DEF m
<1> HIDE DEF c
<1>10. /\ Len(r \o data) = k + l
       /\ \A i \in 1 .. k : (r \o data)[i] = r[i]
       /\ \A i \in 1 .. l : (r \o data)[k + i] = data[i]
  BY Joined DEF k, l
<1>11. /\ g \in ProcType /\ g.st = q.st /\ g.attached = q.attached /\ g.buf = c
       /\ g.dropped = q.dropped + over + evict
  <2>1. q.dropped + over + evict \in Int
    <3>1. q.dropped = k - n
      BY <1>b
    <3> QED BY <1>0, <1>2, <1>5, <3>1
  <2> QED BY <1>1, <1>9, <2>1 DEF ProcType
<1>12. ASSUME NEW i \in 1 .. Len(c)
       PROVE  c[i] = (r \o data)[IF i <= HeadKept THEN i ELSE Len(r \o data) - Len(c) + i]
  <2>1. i \in Nat /\ i >= 1 /\ i <= n - evict + m
    <3>1. Len(c) = n - evict + m
      BY <1>9
    <3> QED BY <1>0, <1>4, <1>5, <3>1
  <2>2. CASE i <= HeadKept
    <3>1. i \in 1 .. HeadKept /\ i \in 1 .. n - evict /\ i \in 1 .. n /\ i \in 1 .. k
      BY <1>0, <1>5, <2>1, <2>2
    <3>2. c[i] = b[i]
      BY <1>6, <1>8, <1>9, <3>1
    <3> QED BY <1>b, <1>10, <2>2, <3>1, <3>2
  <2>3. CASE ~(i <= HeadKept) /\ i <= n - evict
    <3>1. PICK j \in 1 .. n - HeadKept - evict : i = HeadKept + j
      <4>1. i - HeadKept \in 1 .. n - HeadKept - evict /\ i = HeadKept + (i - HeadKept)
        BY <1>0, <1>5, <2>1, <2>3
      <4> QED BY <4>1
    <3>2. c[i] = b[HeadKept + evict + j]
      <4>1. i \in 1 .. n - evict
        BY <1>0, <1>5, <2>1, <2>3
      <4> QED BY <1>7, <1>8, <1>9, <3>1, <4>1
    <3>3. /\ HeadKept + evict + j \in 1 .. n /\ ~(HeadKept + evict + j <= HeadKept)
          /\ k - n + (HeadKept + evict + j) \in 1 .. k
      BY <1>0, <1>5, <3>1
    <3>4. c[i] = (r \o data)[k - n + (HeadKept + evict + j)]
      BY <1>b, <1>10, <3>2, <3>3
    <3>5. over = 0
      BY <1>0, <1>2, <1>5, <3>1
    <3>6. k + l - (n - evict + m) + i = k - n + (HeadKept + evict + j)
      BY <1>0, <1>4, <1>5, <3>1, <3>5
    <3>7. Len(r \o data) - Len(c) + i = k - n + (HeadKept + evict + j)
      <4>1. Len(r \o data) = k + l /\ Len(c) = n - evict + m
        BY <1>9, <1>10
      <4> QED BY <1>0, <1>2, <1>4, <1>5, <2>1, <3>1, <3>6, <4>1
    <3> QED BY <2>3, <3>4, <3>7
  <2>4. CASE ~(i <= HeadKept) /\ ~(i <= n - evict)
    <3>1. PICK j \in 1 .. m : i = n - evict + j
      <4>1. i - (n - evict) \in 1 .. m /\ i = n - evict + (i - (n - evict))
        BY <1>0, <1>4, <1>5, <2>1, <2>4
      <4> QED BY <4>1
    <3>2. c[i] = data[over + j]
      BY <1>3, <1>9, <3>1
    <3>3. over + j \in 1 .. l
      BY <1>0, <1>2, <1>e, <1>4, <3>1
    <3>4. c[i] = (r \o data)[k + (over + j)]
      BY <1>10, <3>2, <3>3
    <3>5. k + l - (n - evict + m) + i = k + (over + j)
      BY <1>0, <1>2, <1>e, <1>4, <1>5, <3>1
    <3>6. Len(r \o data) - Len(c) + i = k + (over + j)
      <4>1. Len(r \o data) = k + l /\ Len(c) = n - evict + m
        BY <1>9, <1>10
      <4> QED BY <1>0, <1>2, <1>4, <1>5, <2>1, <3>1, <3>5, <4>1
    <3> QED BY <2>4, <3>4, <3>6
  <2> QED BY <2>2, <2>3, <2>4
<1>13. g.dropped = Len(r \o data) - Len(c)
  <2>1. /\ q.dropped = k - n /\ g.dropped = q.dropped + over + evict
        /\ Len(r \o data) = k + l /\ Len(c) = n - evict + m
    BY <1>b, <1>9, <1>10, <1>11
  <2> QED BY <1>0, <1>2, <1>e, <1>4, <1>5, <2>1
<1>14. Len(c) = Low(MaxKept, Len(r \o data))
  BY <1>f, <1>9, <1>10
<1> QED BY <1>9, <1>11, <1>12, <1>13, <1>14 DEF Keeps, IsKept, g

\* keep_ends, whose chunk may both fill the head and reach past it.
LEMMA EndsKeeps ==
    ASSUME NEW q \in ProcType, NEW r \in Seq(Nat), NEW data \in Seq(Nat), Keeps(q, r, HeadKept)
    PROVE  /\ keep_ends(q, data) \in ProcType
           /\ keep_ends(q, data).st = q.st /\ keep_ends(q, data).attached = q.attached
           /\ Keeps(keep_ends(q, data), r \o data, HeadKept)
<1>0. /\ MaxKept \in Nat /\ HeadKept \in Nat /\ HeadKept <= MaxKept
      /\ q.buf \in Seq(Nat) /\ Len(q.buf) \in Nat /\ Len(data) \in Nat /\ Len(r) \in Nat
  BY SizesAssumption DEF ProcType
<1>1. CASE Len(q.buf) < HeadKept
  <2> DEFINE n == Len(q.buf)
             l == Len(data)
             take == Low(HeadKept - n, l)
             d == SubSeq(data, 1, take)
             e == SubSeq(data, take + 1, l)
             g == keep_head(q, d)
             s == r \o d
  <2>1. Len(r) = n
    BY <1>0, <1>1 DEF Keeps, IsKept, Low
  <2>2. Keeps(q, r, MaxKept)
    <3>1. ASSUME NEW i \in 1 .. n PROVE q.buf[i] = r[IF i <= MaxKept THEN i ELSE Len(r) - n + i]
      <4>1. i <= HeadKept /\ i <= MaxKept /\ i \in Nat
        BY <1>0, <1>1
      <4> QED BY <4>1 DEF Keeps, IsKept
    <3> QED BY <3>1 DEF Keeps, IsKept
  <2>3. take \in Nat /\ take <= l /\ n + take <= HeadKept /\ (take # l => n + take = HeadKept)
    <3>1. n \in Nat /\ l \in Nat /\ n < HeadKept
      BY <1>0, <1>1
    <3> HIDE DEF n, l
    <3> QED BY <1>0, <3>1 DEF Low
  <2> HIDE DEF take
  <2>4. d \in Seq(Nat) /\ Len(d) = take
    <3>1. 1 \in Nat /\ 1 <= 1 /\ 1 <= take + 1 /\ take <= Len(data)
      BY <2>3
    <3>2. d \in Seq(Nat) /\ Len(d) = take - 1 + 1
      BY <2>3, <3>1, Part
    <3> QED BY <2>3, <3>2
  <2> HIDE DEF d
  <2>5. /\ g \in ProcType /\ g.st = q.st /\ g.attached = q.attached /\ Keeps(g, s, MaxKept)
    BY <2>2, <2>4, HeadKeeps
  <2>6. s \in Seq(Nat) /\ Len(s) = n + take
    BY <2>1, <2>4, Joined
  <2> HIDE DEF g, s
  <2>7. Len(g.buf) = n + take
    <3>1. Len(g.buf) = Low(MaxKept, n + take)
      BY <2>5, <2>6 DEF Keeps, IsKept
    <3> HIDE DEF n
    <3>2. n \in Nat
      BY <1>0 DEF n
    <3> QED BY <1>0, <2>3, <3>1, <3>2 DEF Low
  <2>8. Keeps(g, s, HeadKept)
    <3>1. ASSUME NEW i \in 1 .. Len(g.buf)
          PROVE  g.buf[i] = s[IF i <= HeadKept THEN i ELSE Len(s) - Len(g.buf) + i]
      <4>1. i <= HeadKept /\ i <= MaxKept /\ i \in Nat
        <5> HIDE DEF n
        <5>1. n \in Nat
          BY <1>0 DEF n
        <5> QED BY <1>0, <2>3, <2>7, <5>1
      <4> QED BY <2>5, <4>1 DEF Keeps, IsKept
    <3> QED BY <2>5, <3>1 DEF Keeps, IsKept
  <2>9. CASE take = l
    <3>1. d = data
      BY <2>9, SubSeqFull DEF d
    <3>2. keep_ends(q, data) = g
      BY <1>1, <2>9 DEF keep_ends, take, g, d
    <3> QED BY <2>5, <2>8, <3>1, <3>2 DEF s
  <2>10. CASE take # l
    <3>1. keep_ends(q, data) = KeepTail(g, e)
      BY <1>1, <2>10 DEF keep_ends, take, g, d
    <3>2. /\ e \in Seq(Nat) /\ Len(e) = l - take
          /\ \A i \in 1 .. l - take : e[i] = data[take + i]
      <4>1. /\ l \in Nat /\ take + 1 \in Nat /\ 1 <= take + 1 /\ take + 1 <= l + 1 /\ l <= Len(data)
        BY <1>0, <2>3
      <4> DEFINE f == take + 1
      <4> HIDE DEF f
      <4>2. f = take + 1 /\ f \in Nat /\ 1 <= f /\ f <= l + 1
        BY <4>1 DEF f
      <4>3. /\ SubSeq(data, f, l) \in Seq(Nat) /\ Len(SubSeq(data, f, l)) = l - f + 1
            /\ \A i \in 1 .. l - f + 1 : SubSeq(data, f, l)[i] = data[f + i - 1]
        BY <4>1, <4>2, Part
      <4>4. l - f + 1 = l - take /\ \A i \in Nat : f + i - 1 = take + i
        <5> HIDE DEF l
        <5> QED BY <2>3, <4>1, <4>2
      <4>5. ASSUME NEW i \in 1 .. l - take PROVE SubSeq(data, f, l)[i] = data[take + i]
        <5>1. i \in Nat /\ i \in 1 .. l - f + 1
          BY <4>4
        <5>2. SubSeq(data, f, l)[i] = data[f + i - 1]
          BY <4>3, <5>1
        <5> QED BY <4>4, <5>1, <5>2
      <4> QED BY <4>2, <4>3, <4>4, <4>5
    <3> HIDE DEF e
    <3>3. d \o e = data
      <4>1. \A i \in 1 .. take : d[i] = data[i]
        <5>1. 1 \in Nat /\ 1 <= 1 /\ 1 <= take + 1 /\ take <= Len(data)
          BY <2>3
        <5>2. \A i \in 1 .. take - 1 + 1 : d[i] = data[1 + i - 1]
          BY <2>3, <5>1, Part DEF d
        <5> QED BY <2>3, <5>2
      <4>2. /\ d \o e \in Seq(Nat) /\ Len(d \o e) = Len(d) + Len(e)
            /\ \A i \in 1 .. Len(d) : (d \o e)[i] = d[i]
            /\ \A i \in 1 .. Len(e) : (d \o e)[Len(d) + i] = e[i]
        BY <2>4, <3>2, Joined
      <4> DEFINE x == d \o e
      <4> HIDE DEF x
      <4>3. /\ x \in Seq(Nat) /\ Len(x) = take + (l - take)
            /\ \A i \in 1 .. take : x[i] = data[i]
            /\ \A i \in 1 .. l - take : x[take + i] = data[take + i]
        BY <2>4, <3>2, <4>1, <4>2 DEF x
      <4>4. Len(x) = l
        <5>1. Len(x) = take + (l - take) /\ l \in Nat
          BY <1>0, <4>3
        <5> HIDE DEF l
        <5> QED BY <2>3, <5>1
      <4>5. ASSUME NEW i \in 1 .. l PROVE x[i] = data[i]
        <5>1. l \in Nat /\ i \in 1 .. l
          BY <1>0
        <5> HIDE DEF l
        <5>2. i \in 1 .. take \/ (i - take \in 1 .. l - take /\ i = take + (i - take))
          BY <2>3, <5>1
        <5>3. CASE i \in 1 .. take
          BY <4>3, <5>3
        <5>4. CASE i - take \in 1 .. l - take /\ i = take + (i - take)
          <6>1. x[take + (i - take)] = data[take + (i - take)]
            BY <4>3, <5>4
          <6> QED BY <5>4, <6>1
        <5> QED BY <5>2, <5>3, <5>4
      <4>6. x = data
        BY <4>3, <4>4, <4>5, SeqEqual
      <4> QED BY <4>6 DEF x
    <3>4. r \o data = s \o e
      <4>1. (r \o d) \o e = r \o (d \o e)
        <5> DEFINE S == Nat
        <5>1. r \in Seq(S) /\ d \in Seq(S) /\ e \in Seq(S)
          BY <2>4, <3>2
        <5> HIDE DEF S
        <5> QED BY <5>1, ConcatAssociative
      <4> QED BY <3>3, <4>1 DEF s
    <3>5. Len(g.buf) >= HeadKept
      BY <1>0, <2>3, <2>7, <2>10
    <3>6. /\ KeepTail(g, e) \in ProcType
          /\ KeepTail(g, e).st = g.st /\ KeepTail(g, e).attached = g.attached
          /\ Keeps(KeepTail(g, e), s \o e, HeadKept)
      BY <2>5, <2>6, <2>8, <3>2, <3>5, TailKeeps
    <3> QED BY <2>5, <3>1, <3>4, <3>6
  <2> QED BY <2>9, <2>10
<1>2. CASE ~(Len(q.buf) < HeadKept)
  <2>1. keep_ends(q, data) = KeepTail(q, data)
    BY <1>2 DEF keep_ends
  <2>2. Len(q.buf) >= HeadKept
    BY <1>0, <1>2
  <2> QED BY <2>1, <2>2, TailKeeps
<1> QED BY <1>1, <1>2

-----------------------------------------------------------------------------
(* The inductive invariant.                                                 *)

\* How many of the first bytes the user of the command keeps.
HeadOf == IF job.kind = "bg" THEN HeadKept ELSE MaxKept

BufferOK == job.kind # "monitor" => Keeps(p, read, HeadOf)

\* A command that runs has a job that runs; a job that was not answered yet,
\* or never will be, counts no answer; the owner that cannot leave is there,
\* and the terminal leaves its command as it detaches from it.
JobOK ==
    /\ job.st \in {"idle", "running", "refused", "closing", "freed"}
    /\ job.st \in {"idle", "running", "refused"} => job.answers = 0
    /\ p.st = "live" => job.st = "running"
    /\ job.st = "idle" => job.agent
    /\ job.kind = "shell" => job.agent
    /\ job.kind = "escape" => (p.attached <=> job.agent)

IInv == TypeOK /\ BufferOK /\ JobOK

LEMMA InitInv == Init => IInv
<1> SUFFICES ASSUME Init PROVE IInv
  OBVIOUS
<1>1. PICK k \in Kinds :
          job = [kind |-> k, st |-> "idle", agent |-> TRUE, stopping |-> FALSE,
                 reason |-> "none", line |-> <<>>, batch |-> <<>>, coalesce |-> FALSE,
                 events |-> 0, over |-> 0, answers |-> 0]
  BY DEF Init
<1>2. JobShape(job) /\ job.agent = TRUE /\ job.answers = 0 /\ job.st = "idle" /\ job.kind = k
  BY <1>1 DEF JobShape
<1>3. p \in ProcType /\ p.st = "none" /\ p.attached = TRUE /\ p.buf = <<>> /\ p.dropped = 0
  BY DEF Init, ProcType, AllHandles
<1>4. os \in OsType /\ read = <<>> /\ read \in Seq(Nat)
  BY DEF Init, OsType
<1>5. BufferOK
  <2>1. Len(p.buf) = 0 /\ Len(read) = 0 /\ MaxKept \in Nat
    BY <1>3, <1>4, SizesAssumption
  <2>2. Low(MaxKept, 0) = 0
    BY <2>1 DEF Low
  <2>3. p.buf \in Seq(Nat) /\ p.dropped = 0 - 0 /\ 1 .. 0 = {}
    BY <1>3
  <2>4. Keeps(p, read, HeadOf)
    BY <2>1, <2>2, <2>3 DEF Keeps, IsKept
  <2> QED BY <2>4 DEF BufferOK
<1>6. TypeOK
  <2>1. job.agent \in BOOLEAN
    BY <1>2
  <2>2. job.answers \in Nat
    BY <1>2
  <2> QED BY <1>2, <1>3, <1>4, <2>1, <2>2 DEF TypeOK
<1>7. JobOK
  <2>1. p.attached /\ job.agent /\ p.st # "live"
    BY <1>2, <1>3
  <2>2. job.st = "idle" /\ job.answers = 0
    BY <1>2
  <2> QED BY <2>1, <2>2 DEF JobOK
<1> QED BY <1>5, <1>6, <1>7 DEF IInv

\* A quiet step keeps the invariant.
LEMMA QuietInv ==
    ASSUME IInv, Quiet
    PROVE  IInv'
BY DEF IInv, TypeOK, BufferOK, HeadOf, Keeps, JobOK, Quiet, SameProc, SameJob

\* A command starts, or is refused.
LEMMA StartInv ==
    ASSUME IInv,
           \/ tool_shell_exec \/ tool_bg_exec \/ tool_monitor_start \/ run_shell_escape
           \/ BadArguments
    PROVE  /\ IInv' /\ job.st = "idle" /\ job'.st \in {"running", "refused"}
           /\ job'.agent = job.agent /\ job'.answers = job.answers
<1>1. job.st = "idle"
  BY DEF tool_shell_exec, tool_bg_exec, tool_monitor_start, run_shell_escape, BadArguments
<1>2. p \in ProcType /\ JobShape(job) /\ os \in OsType /\ p.st # "live"
  BY <1>1 DEF IInv, TypeOK, JobOK
<1>3. ASSUME NEW stdin \in BOOLEAN, NEW timer \in {"off", "timeout"}, clm_proc_spawn(stdin, timer)
      PROVE  IInv' /\ job'.st = "running" /\ job'.agent = job.agent /\ job'.answers = job.answers
  <2>1. /\ p' \in ProcType /\ p'.attached = p.attached /\ p'.buf = p.buf /\ p'.dropped = p.dropped
    <3>1. Handles(stdin) \subseteq AllHandles
      BY DEF Handles, AllHandles
    <3> QED BY <1>2, <1>3, <3>1 DEF clm_proc_spawn, ProcType
  <2>2. /\ JobShape(job') /\ job'.st = "running" /\ job'.agent = job.agent
        /\ job'.answers = job.answers /\ job'.kind = job.kind
    BY <1>2, <1>3 DEF clm_proc_spawn, JobShape
  <2>3. os' \in OsType /\ read' = read
    BY <1>2, <1>3 DEF clm_proc_spawn, OsType
  <2> QED BY <1>1, <2>1, <2>2, <2>3
          DEF IInv, TypeOK, BufferOK, HeadOf, Keeps, JobOK
<1>4. ASSUME NEW stdin \in BOOLEAN, SpawnFails(stdin)
      PROVE  IInv' /\ job'.st = "refused" /\ job'.agent = job.agent /\ job'.answers = job.answers
  <2>1. /\ p' \in ProcType /\ p'.attached = p.attached /\ p'.buf = p.buf /\ p'.dropped = p.dropped
        /\ p'.st = "failed"
    <3>1. Handles(stdin) \subseteq AllHandles
      BY DEF Handles, AllHandles
    <3> QED BY <1>2, <1>4, <3>1 DEF SpawnFails, ProcType
  <2>2. /\ JobShape(job') /\ job'.st = "refused" /\ job'.agent = job.agent
        /\ job'.answers = job.answers /\ job'.kind = job.kind
    BY <1>2, <1>4 DEF SpawnFails, JobShape
  <2>3. os' = os /\ read' = read
    BY <1>4 DEF SpawnFails
  <2> QED BY <1>1, <2>1, <2>2, <2>3
          DEF IInv, TypeOK, BufferOK, HeadOf, Keeps, JobOK
<1>5. CASE BadArguments
  <2>1. /\ JobShape(job') /\ job'.st = "refused" /\ job'.agent = job.agent
        /\ job'.answers = job.answers /\ job'.kind = job.kind /\ UNCHANGED <<p, os, read>>
    BY <1>2, <1>5 DEF BadArguments, JobShape
  <2> QED BY <1>1, <1>2, <2>1 DEF IInv, TypeOK, BufferOK, HeadOf, Keeps, JobOK
<1> QED BY <1>1, <1>3, <1>4, <1>5
        DEF tool_shell_exec, tool_bg_exec, tool_monitor_start, run_shell_escape

\* The owner leaves.
LEMMA DetachInv ==
    ASSUME IInv, bg_detach \/ mon_detach \/ EscapeExit
    PROVE  /\ IInv' /\ job.agent /\ ~job'.agent
           /\ job'.st = job.st /\ job'.answers = job.answers
           /\ job.st \notin {"idle", "refused"}
<1>0. p \in ProcType /\ JobShape(job) /\ os \in OsType /\ SameProc(p, p)
  BY DEF IInv, TypeOK, SameProc
<1> DEFINE j == [job EXCEPT !.agent = FALSE]
<1>1. /\ JobShape(j) /\ j.agent = FALSE /\ j.st = job.st /\ j.answers = job.answers
      /\ j.kind = job.kind
  BY <1>0 DEF JobShape
<1> HIDE DEF j
<1>2. CASE bg_detach \/ mon_detach
  <2>1. job.kind \in {"bg", "monitor"} /\ job.agent /\ job.st \in {"running", "closing"}
    BY <1>2 DEF bg_detach, mon_detach
  <2>2. SameJob(j, job') /\ SameProc(p, p') /\ os' \in OsType /\ read' = read
    <3>1. CASE bg_detach
      BY <1>0, <1>1, <3>1 DEF bg_detach, SameJob, j
    <3>2. CASE mon_detach
      <4>1. mon_stop(j, p, "agent detached") /\ read' = read
        BY <3>2 DEF mon_detach, j
      <4> QED BY <1>0, <1>1, <4>1, StopQuiet
    <3> QED BY <1>2, <3>1, <3>2
  <2> QED BY <1>1, <2>1, <2>2
          DEF IInv, TypeOK, BufferOK, HeadOf, Keeps, JobOK, SameJob, SameProc
<1>3. CASE EscapeExit
  <2>1. /\ job.kind = "escape" /\ job.agent /\ job.st = "running" /\ job' = j
        /\ p' = clm_proc_kill(clm_proc_detach(p)) /\ os' = Signalled(p, "kill") /\ read' = read
    BY <1>3 DEF EscapeExit, j
  <2> DEFINE q == [clm_proc_detach(p) EXCEPT !.cancelled = TRUE]
  <2>2. /\ q \in ProcType /\ q.st = p.st /\ q.attached = FALSE /\ q.buf = p.buf
        /\ q.dropped = p.dropped
    BY <1>0 DEF clm_proc_detach, ProcType
  <2>3. p' = close_pipes(q)
    BY <2>1 DEF clm_proc_kill
  <2> HIDE DEF q
  <2>4. SameProc(q, p')
    BY <2>2, <2>3, ShutSame
  <2>5. os' \in OsType
    BY <1>0, <2>1, SignalType
  <2> QED BY <1>1, <2>1, <2>2, <2>4, <2>5
          DEF IInv, TypeOK, BufferOK, HeadOf, Keeps, JobOK, SameProc
<1> QED BY <1>2, <1>3

\* Bytes are read.
LEMMA ReadInv ==
    ASSUME IInv, NEW fd \in Pipes, NEW n \in 1 .. Len(Script), on_read(fd, n)
    PROVE  IInv' /\ SameJob(job, job')
<1>0. p \in ProcType /\ JobShape(job) /\ os \in OsType /\ read \in Seq(Nat)
  BY DEF IInv, TypeOK
<1> DEFINE w == Waiting(fd)
           data == SubSeq(w, 1, n)
<1>1. w \in Seq(Nat) /\ n \in 1 .. Len(w)
  BY <1>0 DEF on_read, Waiting, OsType
<1> HIDE DEF w
<1>2. data \in Seq(Nat)
  <2>1. 1 \in Nat /\ n \in Nat /\ 1 <= 1 /\ 1 <= n + 1 /\ n <= Len(w)
    BY <1>1
  <2> QED BY <1>1, <2>1, Part
<1>3. os' \in OsType
  <2>1. SubSeq(w, n + 1, Len(w)) \in Seq(Nat)
    <3>1. n + 1 \in Nat /\ Len(w) \in Nat /\ 1 <= n + 1 /\ n + 1 <= Len(w) + 1
      BY <1>1
    <3> QED BY <1>1, <3>1, Part
  <2> QED BY <1>0, <2>1 DEF on_read, Drained, Waiting, OsType, w
<1>4. /\ p' = IF job.kind = "monitor" THEN p
               ELSE IF job.kind = "bg" THEN keep_ends(p, data) ELSE keep_head(p, data)
      /\ job' = IF job.kind = "monitor" /\ fd = "out" THEN mon_feed(job, data) ELSE job
      /\ read' = IF job.kind = "monitor" /\ fd = "err" THEN read ELSE read \o data
  BY DEF on_read, w
<1> HIDE DEF data
<1>5. SameJob(job, job')
  BY <1>0, <1>4, FeedSame DEF SameJob
<1>6. read' \in Seq(Nat)
  BY <1>0, <1>2, <1>4, Joined
<1>7. /\ p' \in ProcType /\ p'.st = p.st /\ p'.attached = p.attached
      /\ job.kind # "monitor" => Keeps(p', read', HeadOf)
  <2>1. CASE job.kind = "monitor"
    BY <1>0, <1>4, <2>1
  <2>2. CASE job.kind = "bg"
    <3>1. Keeps(p, read, HeadKept) /\ HeadOf = HeadKept
      BY <2>2 DEF IInv, BufferOK, HeadOf
    <3> QED BY <1>0, <1>2, <1>4, <2>2, <3>1, EndsKeeps
  <2>3. CASE job.kind \notin {"monitor", "bg"}
    <3>1. Keeps(p, read, MaxKept) /\ HeadOf = MaxKept
      BY <2>3 DEF IInv, BufferOK, HeadOf
    <3> QED BY <1>0, <1>2, <1>4, <2>3, <3>1, HeadKeeps
  <2> QED BY <2>1, <2>2, <2>3
<1> QED BY <1>3, <1>5, <1>6, <1>7 DEF IInv, TypeOK, BufferOK, HeadOf, JobOK, SameJob

\* A command comes to its end: its owner is told, if it is there.
LEMMA DoneTells ==
    ASSUME IInv, NEW q, Done(q), p.st = "live", p.attached
    PROVE  /\ JobShape(job') /\ job'.kind = job.kind /\ job'.agent = job.agent
           /\ job'.st \in {"closing", "freed"}
           /\ job.st = "running" /\ job.answers = 0
           /\ job'.answers = IF job.agent THEN 1 ELSE 0
<1>0. JobShape(job) /\ job.answers = 0 /\ job.st = "running"
  BY DEF IInv, TypeOK, JobOK
<1>1. CASE job.kind = "monitor" /\ mon_done(q)
  <2>1. PICK fresh \in BOOLEAN :
          LET late == ~job.stopping
              why  == IF ~late THEN job.reason
                      ELSE IF q.timed_out THEN "expired" ELSE "source ended"
          IN  job' = [(IF late THEN mon_flush(job, fresh) ELSE job) EXCEPT
                         !.st = "closing", !.stopping = TRUE, !.coalesce = FALSE,
                         !.reason = why, !.answers = IF job.agent THEN @ + 1 ELSE @]
    BY <1>1 DEF mon_done
  <2> DEFINE j == IF ~job.stopping THEN mon_flush(job, fresh) ELSE job
  <2>2. SameJob(job, j)
    BY <1>0, FlushSame DEF SameJob
  <2>3. PICK why :
          job' = [j EXCEPT !.st = "closing", !.stopping = TRUE, !.coalesce = FALSE,
                           !.reason = why, !.answers = IF job.agent THEN @ + 1 ELSE @]
    BY <2>1
  <2> HIDE DEF j
  <2> QED BY <1>0, <2>2, <2>3 DEF SameJob, JobShape
<1>2. CASE job.kind = "bg" /\ bg_done
  BY <1>0, <1>2 DEF bg_done, JobShape
<1>3. CASE \/ job.kind = "shell" /\ shell_done
           \/ job.kind = "escape" /\ shell_escape_done
  <2>1. job.agent
    BY <1>3 DEF IInv, JobOK
  <2>2. job' = [job EXCEPT !.st = "freed", !.answers = 1]
    BY <1>0, <1>3 DEF shell_done, shell_escape_done
  <2> QED BY <1>0, <2>1, <2>2 DEF JobShape
<1> QED BY <1>1, <1>2, <1>3 DEF Done

\* A handle is closed: the last one ends the command.
LEMMA ClosedInv ==
    ASSUME IInv, NEW h, on_closed(h)
    PROVE  /\ IInv'
           /\ \/ SameJob(job, job')
              \/ /\ job'.st \in {"closing", "freed"} /\ job'.agent = job.agent
                 /\ job.st = "running" /\ job.answers = 0
                 /\ job'.answers = IF job.agent THEN 1 ELSE 0
<1> DEFINE q == [p EXCEPT !.closing = @ \ {h}]
<1>0. p \in ProcType /\ JobShape(job) /\ os \in OsType /\ SameJob(job, job)
  BY DEF IInv, TypeOK, SameJob
<1>1. SameProc(p, q) /\ q \in ProcType
  BY <1>0 DEF ProcType, SameProc
<1>2. /\ UNCHANGED <<os, read>>
      /\ IF q.open \cup q.closing = {} THEN finish(q)
         ELSE /\ p' = IF q.open \cup q.closing = {"timer"}
                      THEN [shut(q, {"timer"}) EXCEPT !.timer = "off"] ELSE q
              /\ UNCHANGED <<job, told>>
  BY DEF on_closed
<1> HIDE DEF q
<1>3. CASE q.open \cup q.closing # {}
  <2>1. SameProc(p, shut(q, {"timer"})) /\ shut(q, {"timer"}) \in ProcType
    BY <1>1, ShutSame DEF SameProc
  <2>2. SameProc(p, [shut(q, {"timer"}) EXCEPT !.timer = "off"])
    BY <2>1 DEF SameProc, ProcType
  <2>3. Quiet
    BY <1>0, <1>1, <1>2, <1>3, <2>2 DEF Quiet
  <2> QED BY <2>3, QuietInv DEF Quiet
<1>4. CASE q.open \cup q.closing = {}
  <2>1. /\ p' = [q EXCEPT !.st = "freed"]
        /\ IF q.st = "live" /\ q.attached THEN Done(q) ELSE UNCHANGED <<job, told>>
    BY <1>2, <1>4 DEF finish
  <2>2. /\ p' \in ProcType /\ p'.st = "freed" /\ p'.attached = p.attached /\ p'.buf = p.buf
        /\ p'.dropped = p.dropped
    BY <1>1, <2>1 DEF ProcType, SameProc
  <2>3. CASE q.st = "live" /\ q.attached
    <3>1. /\ JobShape(job') /\ job'.kind = job.kind /\ job'.agent = job.agent
          /\ job'.st \in {"closing", "freed"}
          /\ job.st = "running" /\ job.answers = 0
          /\ job'.answers = IF job.agent THEN 1 ELSE 0
      BY <1>1, <2>1, <2>3, DoneTells DEF SameProc
    <3>2. job'.answers \in Nat
      BY <3>1
    <3> QED BY <1>2, <2>2, <3>1, <3>2
            DEF IInv, TypeOK, BufferOK, HeadOf, Keeps, JobOK
  <2>4. CASE ~(q.st = "live" /\ q.attached)
    <3>1. job' = job
      BY <2>1, <2>4
    <3> QED BY <1>0, <1>2, <2>2, <3>1
            DEF IInv, TypeOK, BufferOK, HeadOf, Keeps, JobOK
  <2> QED BY <2>3, <2>4
<1> QED BY <1>3, <1>4

\* A monitor is freed once its own timer is closed.
LEMMA FreedInv ==
    ASSUME IInv, mon_freed
    PROVE  /\ IInv' /\ job.st = "closing" /\ job'.st = "freed"
           /\ job'.agent = job.agent /\ job'.answers = job.answers
<1>1. /\ JobShape(job') /\ job.st = "closing" /\ job'.st = "freed" /\ job'.kind = job.kind
      /\ job'.agent = job.agent /\ job'.answers = job.answers /\ UNCHANGED <<p, os, read>>
  BY DEF mon_freed, IInv, TypeOK, JobShape
<1> QED BY <1>1 DEF IInv, TypeOK, BufferOK, HeadOf, Keeps, JobOK

LEMMA NextInv == IInv /\ [Next]_vars => IInv'
<1> SUFFICES ASSUME IInv, [Next]_vars PROVE IInv'
  OBVIOUS
<1>0. CASE UNCHANGED vars
  BY <1>0 DEF vars, IInv, TypeOK, BufferOK, HeadOf, Keeps, IsKept, JobOK, JobShape
<1>1. CASE tool_shell_exec \/ tool_bg_exec \/ tool_monitor_start \/ run_shell_escape \/ BadArguments
  BY <1>1, StartInv
<1>2. CASE \/ on_exited \/ on_timeout \/ on_kill \/ on_written \/ mon_on_coalesce
           \/ tool_monitor_stop \/ shell_cancel \/ Writes \/ ShellEnds \/ KidEnds
           \/ \E fd \in Pipes : on_read_eof(fd) \/ Redirects(fd)
           \/ \E g \in {"member", "daemon"} : Forks(g)
  <2>1. TypeOK
    BY DEF IInv
  <2> QED BY <1>2, <2>1, QuietSteps, QuietInv
<1>3. CASE bg_detach \/ mon_detach \/ EscapeExit
  BY <1>3, DetachInv
<1>4. ASSUME NEW fd \in Pipes, NEW n \in 1 .. Len(Script), on_read(fd, n) PROVE IInv'
  BY <1>4, ReadInv
<1>5. ASSUME NEW h, on_closed(h) PROVE IInv'
  BY <1>5, ClosedInv
<1>6. CASE mon_freed
  BY <1>6, FreedInv
<1> QED BY <1>0, <1>1, <1>2, <1>3, <1>4, <1>5, <1>6 DEF Next, Reads

-----------------------------------------------------------------------------
(* The theorems.                                                            *)

\* Element by element what KeptRight says of the whole buffer.
LEMMA KeptIsExact == IInv => KeptRight
<1> SUFFICES ASSUME IInv, job.kind # "monitor"
             PROVE  p.buf = Kept(read) /\ p.dropped = Len(read) - Len(p.buf)
  BY DEF KeptRight
<1> DEFINE b == p.buf
           n == Len(b)
           k == Len(read)
<1>0. read \in Seq(Nat) /\ Keeps(p, read, HeadOf)
  BY DEF IInv, TypeOK, BufferOK
<1>1. /\ MaxKept \in Nat /\ HeadKept \in Nat /\ HeadKept <= MaxKept /\ n \in Nat /\ k \in Nat
      /\ HeadOf = IF job.kind = "bg" THEN HeadKept ELSE MaxKept
  BY <1>0, SizesAssumption DEF HeadOf, Keeps, IsKept
<1>2. /\ b \in Seq(Nat) /\ n = Low(MaxKept, k)
      /\ \A i \in 1 .. n : b[i] = read[IF i <= HeadOf THEN i ELSE k - n + i]
  BY <1>0 DEF Keeps, IsKept
<1>3. p.dropped = k - n
  BY <1>0 DEF Keeps
<1> HIDE DEF b, n, k
<1>4. b = Kept(read)
  <2>1. CASE k <= MaxKept
    <3>1. n = k
      BY <1>1, <1>2, <2>1 DEF Low
    <3>2. ASSUME NEW i \in 1 .. n PROVE b[i] = read[i]
      <4>1. k - n + i = i
        BY <1>1, <3>1
      <4> QED BY <1>2, <4>1
    <3>3. b = read
      BY <1>0, <1>2, <3>1, <3>2, SeqEqual DEF n, k
    <3> QED BY <2>1, <3>3 DEF Kept, k
  <2>2. CASE ~(k <= MaxKept) /\ job.kind # "bg"
    <3>1. n = MaxKept /\ HeadOf = MaxKept
      BY <1>1, <1>2, <2>2 DEF Low
    <3> DEFINE t == SubSeq(read, 1, MaxKept)
    <3>2. t \in Seq(Nat) /\ Len(t) = MaxKept /\ \A i \in 1 .. MaxKept : t[i] = read[i]
      <4>1. 1 \in Nat /\ 1 <= 1 /\ 1 <= MaxKept + 1 /\ MaxKept <= Len(read)
        BY <1>1, <2>2 DEF k
      <4>2. /\ t \in Seq(Nat) /\ Len(t) = MaxKept - 1 + 1
            /\ \A i \in 1 .. MaxKept - 1 + 1 : t[i] = read[1 + i - 1]
        BY <1>0, <1>1, <4>1, Part
      <4> QED BY <1>1, <4>2
    <3> HIDE DEF t
    <3>3. ASSUME NEW i \in 1 .. n PROVE b[i] = t[i]
      BY <1>1, <1>2, <3>1, <3>2
    <3>4. b = t
      BY <1>2, <3>1, <3>2, <3>3, SeqEqual DEF n
    <3> QED BY <2>2, <3>4 DEF Kept, k, t
  <2>3. CASE ~(k <= MaxKept) /\ job.kind = "bg"
    <3>1. n = MaxKept /\ HeadOf = HeadKept
      BY <1>1, <1>2, <2>3 DEF Low
    <3> DEFINE f == k - (MaxKept - HeadKept) + 1
               a == SubSeq(read, 1, HeadKept)
               z == SubSeq(read, f, k)
    <3>2. a \in Seq(Nat) /\ Len(a) = HeadKept /\ \A i \in 1 .. HeadKept : a[i] = read[i]
      <4>1. 1 \in Nat /\ 1 <= 1 /\ 1 <= HeadKept + 1 /\ HeadKept <= Len(read)
        BY <1>1, <2>3 DEF k
      <4>2. /\ a \in Seq(Nat) /\ Len(a) = HeadKept - 1 + 1
            /\ \A i \in 1 .. HeadKept - 1 + 1 : a[i] = read[1 + i - 1]
        BY <1>0, <1>1, <4>1, Part
      <4> QED BY <1>1, <4>2
    <3>3. /\ f \in Nat /\ 1 <= f /\ f <= k + 1 /\ k - f + 1 = MaxKept - HeadKept
      BY <1>1, <2>3
    <3>f. f = k - (MaxKept - HeadKept) + 1
      OBVIOUS
    <3> HIDE DEF a, f
    <3>4. /\ z \in Seq(Nat) /\ Len(z) = MaxKept - HeadKept
          /\ \A i \in 1 .. MaxKept - HeadKept : z[i] = read[f + i - 1]
      <4>1. k <= Len(read)
        BY <1>1 DEF k
      <4>2. /\ z \in Seq(Nat) /\ Len(z) = k - f + 1
            /\ \A i \in 1 .. k - f + 1 : z[i] = read[f + i - 1]
        BY <1>0, <1>1, <3>3, <4>1, Part
      <4> QED BY <3>3, <4>2
    <3> HIDE DEF z
    <3> DEFINE t == a \o z
    <3>5. /\ t \in Seq(Nat) /\ Len(t) = HeadKept + (MaxKept - HeadKept)
          /\ \A i \in 1 .. HeadKept : t[i] = a[i]
          /\ \A i \in 1 .. MaxKept - HeadKept : t[HeadKept + i] = z[i]
      <4>1. /\ t \in Seq(Nat) /\ Len(t) = Len(a) + Len(z)
            /\ \A i \in 1 .. Len(a) : t[i] = a[i]
            /\ \A i \in 1 .. Len(z) : t[Len(a) + i] = z[i]
        BY <3>2, <3>4, Joined
      <4> QED BY <3>2, <3>4, <4>1
    <3> HIDE DEF t
    <3>6. Len(t) = n
      <4>1. Len(t) = HeadKept + (MaxKept - HeadKept)
        BY <3>5
      <4> QED BY <1>1, <3>1, <4>1
    <3>7. ASSUME NEW i \in 1 .. n PROVE b[i] = t[i]
      <4>1. CASE i <= HeadKept
        <5>1. i \in 1 .. HeadKept
          BY <1>1, <4>1
        <5>2. b[i] = read[i]
          BY <1>2, <3>1, <4>1
        <5> QED BY <3>2, <3>5, <5>1, <5>2
      <4>2. CASE ~(i <= HeadKept)
        <5>1. PICK j \in 1 .. MaxKept - HeadKept : i = HeadKept + j
          <6>1. i - HeadKept \in 1 .. MaxKept - HeadKept /\ i = HeadKept + (i - HeadKept)
            BY <1>1, <3>1, <4>2
          <6> QED BY <6>1
        <5>2. b[i] = read[k - n + i]
          BY <1>2, <3>1, <4>2
        <5>3. t[i] = read[f + j - 1]
          BY <3>4, <3>5, <5>1
        <5>4. f + j - 1 = k - n + i
          BY <1>1, <3>1, <3>f, <5>1
        <5> QED BY <5>2, <5>3, <5>4
      <4> QED BY <4>1, <4>2
    <3>8. b = t
      BY <1>2, <3>5, <3>6, <3>7, SeqEqual DEF n
    <3> QED BY <2>3, <3>8 DEF Kept, k, t, a, z, f
  <2> QED BY <2>1, <2>2, <2>3
<1> QED BY <1>3, <1>4 DEF b, n, k

\* However the loop cuts a command's output into chunks, what the program keeps
\* of it is its first bytes, or its head and its newest bytes, and it counts
\* every byte it dropped: for any output and any sizes of the two parts.
THEOREM OutputKeptRight == Spec => []KeptRight
<1> QED BY InitInv, NextInv, KeptIsExact, PTL DEF Spec

\* What the owner of the job is owed.
Life(j) ==
    IF j.answers > 0 THEN "settled"
    ELSE IF j.st \in {"idle", "refused"} THEN j.st
    ELSE IF j.agent THEN "open" ELSE "dropped"

\* A start is an Accept or a Refuse, an end a Settle, a leaving owner a DropAll.
LEMMA NextRefines == IInv /\ [Next]_vars => [Promise!Next]_(Promise!vars)
<1> SUFFICES ASSUME IInv, [Next]_vars
             PROVE  Promise!Next \/ UNCHANGED Promise!vars
  BY DEF Promise!vars
<1> DEFINE One == {"job"}
<1>T. job.answers \in Nat /\ job.agent \in BOOLEAN /\ JobOK
  BY DEF IInv, TypeOK
<1>S. ASSUME Life(job') = Life(job), job'.answers = job.answers
      PROVE  UNCHANGED Promise!vars
  BY <1>S DEF Promise!vars, Life
<1>Q. ASSUME SameJob(job, job') PROVE UNCHANGED Promise!vars
  <2>1. Life(job') = Life(job) /\ job'.answers = job.answers
    BY <1>Q DEF SameJob, Life
  <2> QED BY <2>1, <1>S
<1>0. CASE UNCHANGED vars
  <2>1. Life(job') = Life(job) /\ job'.answers = job.answers
    BY <1>0 DEF vars, Life
  <2> QED BY <2>1, <1>S
<1>1. CASE tool_shell_exec \/ tool_bg_exec \/ tool_monitor_start \/ run_shell_escape \/ BadArguments
  <2>1. /\ job.st = "idle" /\ job'.st \in {"running", "refused"}
        /\ job'.agent = job.agent /\ job'.answers = job.answers
    BY <1>1, StartInv
  <2>2. job.answers = 0 /\ job.agent /\ Life(job) = "idle"
    BY <1>T, <2>1 DEF JobOK, Life
  <2>3. CASE job'.st = "running"
    <3>1. Life(job') = "open"
      BY <2>1, <2>2, <2>3 DEF Life
    <3>2. Promise!Accept("job")
      BY <2>1, <2>2, <3>1 DEF Promise!Accept, Life
    <3> QED BY <3>2 DEF Promise!Next
  <2>4. CASE job'.st = "refused"
    <3>1. Life(job') = "refused"
      BY <2>1, <2>2, <2>4 DEF Life
    <3>2. Promise!Refuse("job")
      BY <2>1, <2>2, <3>1 DEF Promise!Refuse, Life
    <3> QED BY <3>2 DEF Promise!Next
  <2> QED BY <2>1, <2>3, <2>4
<1>2. CASE \/ on_exited \/ on_timeout \/ on_kill \/ on_written \/ mon_on_coalesce
           \/ tool_monitor_stop \/ shell_cancel \/ Writes \/ ShellEnds \/ KidEnds
           \/ \E fd \in Pipes : on_read_eof(fd) \/ Redirects(fd)
           \/ \E g \in {"member", "daemon"} : Forks(g)
  <2>1. TypeOK
    BY DEF IInv
  <2>2. SameJob(job, job')
    BY <1>2, <2>1, QuietSteps DEF Quiet
  <2> QED BY <1>Q, <2>2
<1>3. CASE bg_detach \/ mon_detach \/ EscapeExit
  <2>1. /\ job.agent /\ ~job'.agent /\ job'.st = job.st /\ job'.answers = job.answers
        /\ job.st \notin {"idle", "refused"}
    BY <1>3, DetachInv
  <2>2. Life(job') = IF Life(job) = "open" THEN "dropped" ELSE Life(job)
    BY <1>T, <2>1 DEF Life
  <2>3. Promise!DropAll
    BY <2>1, <2>2 DEF Promise!DropAll, Life
  <2> QED BY <2>3 DEF Promise!Next
<1>4. ASSUME NEW fd \in Pipes, NEW n \in 1 .. Len(Script), on_read(fd, n)
      PROVE  UNCHANGED Promise!vars
  BY <1>4, <1>Q, ReadInv
<1>5. ASSUME NEW h, on_closed(h)
      PROVE  Promise!Next \/ UNCHANGED Promise!vars
  <2>1. CASE SameJob(job, job')
    BY <1>Q, <2>1
  <2>2. CASE /\ job'.st \in {"closing", "freed"} /\ job'.agent = job.agent
             /\ job.st = "running" /\ job.answers = 0
             /\ job'.answers = IF job.agent THEN 1 ELSE 0
    <3>1. CASE job.agent
      <4>1. Life(job) = "open" /\ Life(job') = "settled" /\ job'.answers = 1
        BY <2>2, <3>1 DEF Life
      <4>2. Promise!Settle(One)
        BY <2>2, <4>1 DEF Promise!Settle, Life
      <4> QED BY <4>2 DEF Promise!Next
    <3>2. CASE ~job.agent
      <4>1. Life(job') = Life(job) /\ job'.answers = job.answers
        BY <2>2, <3>2 DEF Life
      <4> QED BY <1>S, <4>1
    <3> QED BY <3>1, <3>2
  <2> QED BY <1>5, <2>1, <2>2, ClosedInv
<1>6. CASE mon_freed
  <2>1. /\ job.st = "closing" /\ job'.st = "freed"
        /\ job'.agent = job.agent /\ job'.answers = job.answers
    BY <1>6, FreedInv
  <2>2. Life(job') = Life(job) /\ job'.answers = job.answers
    BY <2>1 DEF Life
  <2> QED BY <1>S, <2>2
<1> QED BY <1>0, <1>1, <1>2, <1>3, <1>4, <1>5, <1>6 DEF Next, Reads

LEMMA InitRefines == Init => Promise!Init
<1> SUFFICES ASSUME Init PROVE Promise!Init
  OBVIOUS
<1>1. PICK k \in Kinds :
          job = [kind |-> k, st |-> "idle", agent |-> TRUE, stopping |-> FALSE,
                 reason |-> "none", line |-> <<>>, batch |-> <<>>, coalesce |-> FALSE,
                 events |-> 0, over |-> 0, answers |-> 0]
  BY DEF Init
<1>2. job.answers = 0 /\ job.st = "idle"
  BY <1>1
<1> QED BY <1>2 DEF Promise!Init

\* The promise of clm/host.h, kept for commands: one that was started is
\* reported once, when its last handle is closed, however its exit, its
\* streams, its timer and its owner's leaving interleave; one that was refused
\* never is, and none after its owner has gone.
THEOREM CommandsReportedOnce == Spec => ReportedOnce
<1>1. IInv /\ [Next]_vars => [Promise!Next]_(Promise!vars)
  BY NextRefines
<1> QED BY <1>1, InitInv, NextInv, InitRefines, PTL DEF Spec, ReportedOnce, Promise!Spec
=============================================================================
