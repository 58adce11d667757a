------------------------------ MODULE Session ------------------------------
(***************************************************************************)
(* The session log of libclmsession/session.c: one append-only file of     *)
(* records, its backup, and the images beside it, written by the agent of  *)
(* one process as its history grows, rewritten when the history is folded, *)
(* and replayed by the next process.  A process may die between any two    *)
(* file operations, and in the middle of a write.                          *)
(*                                                                         *)
(* A file is a sequence of records; a last record "torn" is a line without *)
(* its newline, and "junk" is a line that does not parse.                  *)
(***************************************************************************)
EXTENDS History, TLC

CONSTANTS
    None,          \* no file, no session
    Models,        \* names a session may be started with or switched to
    Prompts,       \* system prompts the configuration may hold
    Batches,       \* sequences of tools that an answer may ask for
    Volatile,      \* tools whose older results are superseded
    Imaging,       \* tools that answer with an image
    Large,         \* tools whose output is cut, and spooled whole
    KeepBytes,     \* room of the tail that a fold keeps
    MaxMsgs,       \* messages numbered in one behaviour (bound)
    MaxLog,        \* records in the log when the model is switched (bound)
    MaxCrashes,    \* crashes (bound)
    MaxFails       \* file operations that fail (bound)

VARIABLES
    up,            \* a process runs
    hist,          \* its agent's history
    busy,          \* a turn is in flight
    open,          \* calls of the current batch that have no result yet
    sess,          \* struct clm_session, or None
    job,           \* the session call in progress
    disk,          \* the session's files
    next, crashes, fails,      \* bounds
    \* History variables.
    written,       \* messages whose line was written whole, oldest first
    used,          \* the model last recorded
    tears          \* writes that stopped in the middle of a line

vars == <<up, hist, busy, open, sess, job, disk, next, crashes, fails, written,
          used, tears>>

Idle == [op |-> "idle"]

Meta(m) == [k |-> "meta", model |-> m]
PromptRec(p) == [k |-> "prompt", p |-> p]
ModelRec(m) == [k |-> "model", model |-> m]
MsgRec(m) == [k |-> "msg", m |-> m]
Torn == [k |-> "torn"]
Junk(img) == [k |-> "junk", img |-> img]

Image(rec) == CASE rec.k = "msg" -> rec.m.img
                [] rec.k = "junk" -> rec.img
                [] OTHER -> NoImage

Images(file) == {Image(file[i]) : i \in DOMAIN file} \ {NoImage}

EndsTorn(file) == file # <<>> /\ Last(file).k = "torn"

\* write_line: one write at the end of the file.  After a line that was cut
\* short the record continues that line, and neither parses.
write_line(file, rec) ==
    IF EndsTorn(file) THEN Append(Front(file), Junk(Image(rec)))
    ELSE Append(file, rec)

\* The same write, stopped before its newline.
Tear(file) == IF EndsTorn(file) THEN file ELSE Append(file, Torn)

-----------------------------------------------------------------------------
(* Reading a log.                                                           *)

\* session_parse_line over the file: what is not a message adds nothing.
Messages(file) ==
    LET recs == SelectSeq(file, LAMBDA r : r.k = "msg")
    IN  [i \in DOMAIN recs |-> recs[i].m]

\* A file that is there is whole: blob_write renames it into place.
blob_read(img, blobs) == img \in blobs

\* load_attachments: an image that is gone leaves a note in the text.
load_attachments(m, blobs) ==
    IF m.img = NoImage \/ blob_read(m.img, blobs) THEN m
    ELSE [m EXCEPT !.img = NoImage]

clm_session_load(file, blobs) ==
    LET ms == Messages(file)
    IN  [i \in DOMAIN ms |-> load_attachments(ms[i], blobs)]

\* The model a reader of the log sees: the last switch wins over the first
\* meta record, and counts only after it.
LoadedModel(file) ==
    LET at == SelectInSeq(file, LAMBDA r : r.k = "meta")
        i == SelectLastInSeq(file, LAMBDA r : r.k \in {"meta", "model"})
    IN  IF at = 0 THEN "" ELSE IF file[i].k = "meta" THEN file[at].model
        ELSE file[i].model

HasMeta(file) == file # <<>> /\ Head(file).k = "meta"

\* The first thing the user said, or what stands for it after a fold; 0 for
\* none.
FirstUser(ms) ==
    LET i == SelectInSeq(ms, LAMBDA m : m.role = "user")
    IN  IF i = 0 THEN 0 ELSE ms[i].n

\* The row by which a log is shown to one who picks a session.
info_fill(file) ==
    [model |-> LoadedModel(file), first_user |-> FirstUser(Messages(file))]

clm_session_list(d) == IF d.log = None THEN {} ELSE {info_fill(d.log)}

last_prompt_hash(file) ==
    LET i == SelectLastInSeq(file, LAMBDA r : r.k = "prompt")
    IN  IF i = 0 THEN 0 ELSE file[i].p

last_model_line(file) ==
    LET i == SelectLastInSeq(file, LAMBDA r : r.k = "model")
    IN  IF i = 0 THEN "" ELSE file[i].model

-----------------------------------------------------------------------------
(* Images.                                                                  *)

\* Mutation of blob_gc: the backup's images are not asked for.
blob_gc_log_only(d) ==
    [d EXCEPT !.blobs = @ \cap Images(d.log), !.blobTmp = FALSE]

\* blob_gc: what neither the log nor its backup names goes.
blob_gc(d) ==
    [d EXCEPT !.blobs = @ \cap (Images(d.log) \cup
                                IF d.bak = None THEN {} ELSE Images(d.bak)),
              !.blobTmp = FALSE]

-----------------------------------------------------------------------------
(* Starting, resuming, ending.                                              *)

NoFiles == [log |-> None, bak |-> None, tmp |-> None, blobs |-> {},
            blobTmp |-> FALSE, spool |-> {}]

Init ==
    /\ up = FALSE /\ hist = <<>> /\ busy = FALSE /\ open = <<>>
    /\ sess = None /\ job = Idle /\ disk = NoFiles
    /\ next = 1 /\ crashes = 0 /\ fails = 0
    /\ written = <<>> /\ used = "" /\ tears = 0

session_alloc(hasMsgs, prompt) ==
    [hasMsgs |-> hasMsgs, prompt |-> prompt, model |-> ""]

\* The agent appends its system message; a prompt record is due when it is
\* not the one recorded last.
EmitSystem(s, p) ==
    IF s = None \/ s.prompt = p THEN Idle
    ELSE [op |-> "append", rec |-> PromptRec(p), at |-> "line", then |-> Idle]

\* clm_session_create, then the agent.  A file that cannot be made, or whose
\* meta line cannot be written, is removed and the session goes unlogged.
Create(m, p) ==
    /\ ~up /\ disk.log = None
    /\ up' = TRUE /\ hist' = <<System(p)>>
    /\ \/ /\ disk' = [NoFiles EXCEPT !.log = <<Meta(m)>>]
          /\ sess' = session_alloc(FALSE, 0)
          /\ used' = m /\ fails' = fails
       \/ /\ fails < MaxFails /\ fails' = fails + 1
          /\ sess' = None
          /\ UNCHANGED <<disk, used>>
    /\ job' = EmitSystem(sess', p)
    /\ UNCHANGED <<busy, open, next, crashes, written, tears>>

\* A crash inside clm_session_create, before its meta line is whole.
CreateDies ==
    /\ ~up /\ disk.log = None /\ crashes < MaxCrashes
    /\ \E f \in {<<>>, <<Torn>>} : disk' = [NoFiles EXCEPT !.log = f]
    /\ tears' = IF disk'.log = <<>> THEN tears ELSE tears + 1
    /\ crashes' = crashes + 1
    /\ UNCHANGED <<up, hist, busy, open, sess, job, next, fails, written,
                   used>>

\* Mutation: a resumed history keeps every result whole.
SupersedeNothing(h) == h

\* clm_agent_restore_history: the images do not pass through the JSON form.
WithoutImages(h) == [i \in DOMAIN h |-> [h[i] EXCEPT !.img = NoImage]]

SupersedeVolatile(h) ==
    FoldSet(LAMBDA t, g : clm_history_supersede_tool(g, t), h, Volatile)

clm_agent_restore_history(p, h) ==
    SupersedeVolatile(<<System(p)>> \o WithoutImages(h))

\* main's --resume: load, repair, clm_session_open, and the history restored
\* into a new agent.
Resume(p) ==
    /\ ~up /\ disk.log # None
    /\ up' = TRUE
    /\ hist' = clm_agent_restore_history(p,
                   clm_history_repair_dangling_tool_calls(
                       clm_session_load(disk.log, disk.blobs)))
    /\ sess' = session_alloc(TRUE, last_prompt_hash(disk.log))
    /\ disk' = blob_gc(disk)
    /\ job' = EmitSystem(sess', p)
    /\ UNCHANGED <<busy, open, next, crashes, fails, written, used, tears>>

clm_session_is_empty == ~sess.hasMsgs

clm_session_discard(d) == [NoFiles EXCEPT !.tmp = d.tmp]

\* tui_run's end: a session nothing was said in is deleted.
Exit ==
    /\ up /\ job = Idle
    /\ up' = FALSE /\ hist' = <<>> /\ busy' = FALSE /\ open' = <<>>
    /\ sess' = None
    /\ IF sess # None /\ clm_session_is_empty
       THEN /\ disk' = clm_session_discard(disk)
            /\ written' = <<>> /\ used' = ""
       ELSE UNCHANGED <<disk, written, used>>
    /\ UNCHANGED <<job, next, crashes, fails, tears>>

\* The system prompt alone stays.
clm_agent_clear_history == <<hist[1]>>

\* /clear: the old log is kept for a later resume or discarded, and a new one
\* is begun; the files followed from here on are the new session's, if it can
\* be made.
cmd_clear(m) ==
    /\ up /\ job = Idle /\ ~busy
    /\ hist' = clm_agent_clear_history
    /\ \/ sess = None /\ UNCHANGED <<disk, sess, written, used, fails>>
       \/ /\ sess # None
          /\ disk' = [NoFiles EXCEPT !.log = <<Meta(m)>>]
          /\ sess' = session_alloc(FALSE, 0)
          /\ written' = <<>> /\ used' = m /\ fails' = fails
       \/ /\ sess # None /\ fails < MaxFails /\ fails' = fails + 1
          /\ sess' = None
          /\ IF clm_session_is_empty
             THEN /\ disk' = clm_session_discard(disk)
                  /\ written' = <<>> /\ used' = ""
             ELSE UNCHANGED <<disk, written, used>>
    /\ UNCHANGED <<up, busy, open, job, next, crashes, tears>>

\* clm_session_gc of a later start: files by age, and an image or spool
\* directory with its log.  A backup is older than its log.
Gc(old) ==
    /\ ~up /\ old # {}
    /\ "log" \in old => "bak" \in old
    /\ LET d == [disk EXCEPT !.log = IF "log" \in old THEN None ELSE @,
                             !.bak = IF "bak" \in old THEN None ELSE @,
                             !.tmp = IF "tmp" \in old THEN None ELSE @]
       IN  disk' = IF d.log = None
                   THEN [d EXCEPT !.blobs = {}, !.spool = {},
                                  !.blobTmp = FALSE]
                   ELSE d
    /\ disk' # disk
    /\ IF disk'.log = None THEN written' = <<>> /\ used' = ""
       ELSE UNCHANGED <<written, used>>
    /\ UNCHANGED <<up, hist, busy, open, sess, job, next, crashes, fails,
                   tears>>

-----------------------------------------------------------------------------
(* What the agent says to on_message.                                       *)

\* cb_message: without a session nothing is logged.  The images come first.
Emit(m) ==
    job' = IF sess = None THEN Idle
           ELSE [op |-> "append", rec |-> MsgRec(m),
                 at |-> IF m.img = NoImage THEN "line" ELSE "blob",
                 then |-> Idle]

Speak(h, m) ==
    /\ hist' = Append(h, m) /\ Emit(m) /\ next' = next + 1
    /\ UNCHANGED <<up, sess, disk, crashes, fails, written, used, tears>>

Ready == up /\ job = Idle /\ next <= MaxMsgs

ModelsTurn == busy /\ open = <<>>

\* A turn that fails writes nothing and leaves the history as a resume finds
\* it, so only turns that end well are followed here.
Submit ==
    /\ Ready /\ ~busy /\ busy' = TRUE
    /\ Speak(hist, User(next)) /\ UNCHANGED open

Answer ==
    /\ Ready /\ ModelsTurn /\ busy' = FALSE
    /\ Speak(hist, Text(next)) /\ UNCHANGED open

\* An answer with tool calls, logged before the batch runs.
AskTools(tools) ==
    /\ Ready /\ ModelsTurn
    /\ LET calls == [i \in DOMAIN tools |->
                        [id |-> 10 * next + i, tool |-> tools[i]]]
       IN  Speak(hist, ToolCalls(next, calls)) /\ open' = calls
    /\ UNCHANGED busy

\* inv_finalize: older results of a volatile tool are superseded, then the
\* new one is added.  A result too large for the context is spooled first.
RecordResult(i) ==
    /\ Ready
    /\ LET c == open[i]
           h == IF c.tool \in Volatile
                THEN clm_history_supersede_tool(hist, c.tool) ELSE hist
           m == Result(next, c, IF c.tool \in Imaging THEN next ELSE NoImage)
       IN  /\ hist' = Append(h, m) /\ Emit(m) /\ next' = next + 1
           /\ disk' = IF c.tool \in Large /\ sess # None
                      THEN [disk EXCEPT !.spool = @ \cup {c.id}] ELSE disk
    /\ open' = RemoveAt(open, i)
    /\ UNCHANGED <<up, busy, sess, crashes, fails, written, used, tears>>

\* A summary came back and the history was folded: session_after_compact.
Fold ==
    /\ up /\ job = Idle /\ open = <<>>
    /\ CutWithin(hist, Summary, KeepBytes) # 0
    /\ hist' = clm_history_compact_within(hist, Summary, KeepBytes)
    /\ job' = IF sess = None THEN Idle ELSE [op |-> "rewrite", at |-> "tmp"]
    /\ UNCHANGED <<up, busy, open, sess, disk, next, crashes, fails, written,
                   used, tears>>

\* note_model_switch: nothing to do without a session.
NoteModel(m) == IF sess = None THEN Idle ELSE [op |-> "model", model |-> m]

\* /model and /provider, between turns.
cmd_model(m) ==
    /\ up /\ job = Idle /\ ~busy /\ sess # None /\ m # used
    /\ Len(disk.log) < MaxLog
    /\ job' = NoteModel(m)
    /\ UNCHANGED <<up, hist, busy, open, sess, disk, next, crashes, fails,
                   written, used, tears>>

\* /agent, at any time: another agent with no history takes the place of this
\* one, whose turn and tools are given up.  The log goes on.
cmd_agent(m, p) ==
    /\ up /\ job = Idle /\ sess # None /\ m # used
    /\ Len(disk.log) < MaxLog
    /\ hist' = <<System(p)>> /\ busy' = FALSE /\ open' = <<>>
    /\ job' = LET first == EmitSystem(sess, p)
              IN  IF first = Idle THEN NoteModel(m)
                  ELSE [first EXCEPT !.then = NoteModel(m)]
    /\ UNCHANGED <<up, sess, disk, next, crashes, fails, written, used, tears>>

\* A failure to record the model is ignored, and may leave a line cut short
\* in a log that goes on being written.
clm_session_log_model ==
    /\ job.op = "model"
    /\ \/ /\ disk' = [disk EXCEPT !.log = write_line(@, ModelRec(job.model))]
          /\ sess' = [sess EXCEPT !.model = job.model]
          /\ used' = job.model
          /\ UNCHANGED <<fails, tears>>
       \/ /\ fails < MaxFails /\ fails' = fails + 1
          /\ disk' = [disk EXCEPT !.log = Tear(@)]
          /\ tears' = tears + 1
          /\ UNCHANGED <<sess, used>>
    /\ job' = Idle
    /\ UNCHANGED <<up, hist, busy, open, next, crashes, written>>

-----------------------------------------------------------------------------
(* clm_session_append.                                                      *)

\* The frontends close a session that could not be written.
Disable == sess' = None /\ job' = Idle

JobRest == UNCHANGED <<up, hist, busy, open, next, crashes>>

\* store_attachments and blob_write: temporary name, fsync, rename.
AppendBlob ==
    /\ job.op = "append" /\ job.at = "blob"
    /\ \/ /\ disk' = [disk EXCEPT !.blobs = @ \cup {job.rec.m.img}]
          /\ job' = [job EXCEPT !.at = "line"]
          /\ UNCHANGED <<sess, fails>>
       \/ /\ fails < MaxFails /\ fails' = fails + 1
          /\ Disable /\ UNCHANGED disk
    /\ JobRest /\ UNCHANGED <<written, used, tears>>

\* What the finished line says of the session.
Wrote(s, rec) ==
    CASE rec.k = "prompt" -> [s EXCEPT !.prompt = rec.p]
      [] rec.k = "msg" ->
            [s EXCEPT !.hasMsgs = @ \/ rec.m.role \in {"user", "assistant"}]

Recorded(rec) ==
    written' = IF rec.k = "msg" THEN Append(written, rec.m) ELSE written

AppendLine ==
    /\ job.op = "append" /\ job.at = "line"
    /\ disk' = [disk EXCEPT !.log = write_line(@, job.rec)]
    /\ sess' = Wrote(sess, job.rec)
    /\ Recorded(job.rec)
    /\ job' = job.then
    /\ JobRest /\ UNCHANGED <<fails, used, tears>>

\* The write fails, or falls short and leaves a line without its end.
AppendFails ==
    /\ job.op = "append" /\ job.at = "line" /\ fails < MaxFails
    /\ \/ UNCHANGED <<disk, tears>>
       \/ disk' = [disk EXCEPT !.log = Tear(@)] /\ tears' = tears + 1
    /\ fails' = fails + 1 /\ Disable
    /\ JobRest /\ UNCHANGED <<written, used>>

-----------------------------------------------------------------------------
(* clm_session_rewrite.                                                     *)

\* read_meta_line: the first line, whatever it holds.
read_meta_line(file) == IF Head(file).k = "torn" THEN Junk(NoImage)
                        ELSE Head(file)

ActiveModel == IF sess.model # "" THEN sess.model ELSE last_model_line(disk.log)

NonSystem(h) == SelectSeq(h, LAMBDA m : m.role # "system")

NewLog ==
    <<read_meta_line(disk.log)>>
    \o (IF ActiveModel = "" THEN <<>> ELSE <<ModelRec(ActiveModel)>>)
    \o [i \in DOMAIN hist |->
           IF hist[i].role = "system" THEN PromptRec(hist[i].n)
           ELSE MsgRec(hist[i])]

RewriteStep(at) == job.op = "rewrite" /\ job.at = at

\* The whole of the temporary file, with the images it names, up to fsync.
\* A log without a first line cannot be rewritten.
RewriteTmp ==
    /\ RewriteStep("tmp") /\ disk.log # <<>>
    /\ disk' = [disk EXCEPT !.tmp = NewLog,
                            !.blobs = @ \cup Images(NewLog)]
    /\ sess' = [sess EXCEPT !.prompt = hist[1].n]
    /\ job' = [job EXCEPT !.at = "unlink"]
    /\ JobRest /\ UNCHANGED <<fails, written, used, tears>>

\* Any step before the rename is over fails: the temporary file goes.
RewriteFails ==
    /\ job.op = "rewrite" /\ job.at \in {"tmp", "rename"}
    /\ \/ fails < MaxFails /\ fails' = fails + 1
       \/ job.at = "tmp" /\ disk.log = <<>> /\ UNCHANGED fails
    /\ disk' = [disk EXCEPT !.tmp = None]
    /\ Disable
    /\ JobRest /\ UNCHANGED <<written, used, tears>>

\* The backup: unlink the old one, link the log.  A link may be refused.
RewriteUnlink ==
    /\ RewriteStep("unlink")
    /\ disk' = [disk EXCEPT !.bak = None]
    /\ job' = [job EXCEPT !.at = "link"]
    /\ JobRest /\ UNCHANGED <<sess, fails, written, used, tears>>

RewriteLink ==
    /\ RewriteStep("link")
    /\ \/ disk' = [disk EXCEPT !.bak = disk.log] /\ UNCHANGED fails
       \/ fails < MaxFails /\ fails' = fails + 1 /\ UNCHANGED disk
    /\ job' = [job EXCEPT !.at = "rename"]
    /\ JobRest /\ UNCHANGED <<sess, written, used, tears>>

RewriteRename ==
    /\ RewriteStep("rename")
    /\ disk' = [disk EXCEPT !.log = disk.tmp, !.tmp = None]
    /\ sess' = [sess EXCEPT !.hasMsgs = \E i \in DOMAIN hist :
                                hist[i].role \in {"user", "assistant"}]
    /\ written' = NonSystem(hist)
    /\ job' = [job EXCEPT !.at = "gc"]
    /\ JobRest /\ UNCHANGED <<fails, used, tears>>

RewriteGc ==
    /\ RewriteStep("gc")
    /\ disk' = blob_gc(disk)
    /\ job' = Idle
    /\ JobRest /\ UNCHANGED <<sess, fails, written, used, tears>>

-----------------------------------------------------------------------------
\* The process dies.  A write under way reached the file not at all, in part
\* or whole; a temporary file stays as it is.
Crash ==
    /\ up /\ crashes < MaxCrashes /\ crashes' = crashes + 1
    /\ up' = FALSE /\ hist' = <<>> /\ busy' = FALSE /\ open' = <<>>
    /\ sess' = None /\ job' = Idle
    /\ \/ UNCHANGED <<disk, written, used, tears>>
       \/ /\ job.op = "model" /\ UNCHANGED written
          /\ \/ /\ disk' = [disk EXCEPT !.log = Tear(@)]
                /\ tears' = tears + 1 /\ UNCHANGED used
             \/ /\ disk' = [disk EXCEPT !.log = write_line(@, ModelRec(job.model))]
                /\ used' = job.model /\ UNCHANGED tears
       \/ /\ job.op = "append" /\ job.at = "line" /\ UNCHANGED used
          /\ \/ /\ disk' = [disk EXCEPT !.log = Tear(@)]
                /\ tears' = tears + 1 /\ UNCHANGED written
             \/ /\ disk' = [disk EXCEPT !.log = write_line(@, job.rec)]
                /\ Recorded(job.rec) /\ UNCHANGED tears
       \/ /\ job.op = "append" /\ job.at = "blob"
          /\ disk' = [disk EXCEPT !.blobTmp = TRUE]
          /\ UNCHANGED <<written, used, tears>>
       \/ /\ RewriteStep("tmp")
          /\ disk' = [disk EXCEPT !.tmp = <<Torn>>]
          /\ UNCHANGED <<written, used, tears>>
    /\ UNCHANGED <<next, fails>>

Next ==
    \/ \E m \in Models, p \in Prompts : Create(m, p)
    \/ CreateDies
    \/ \E p \in Prompts : Resume(p)
    \/ Exit
    \/ \E m \in Models : cmd_clear(m)
    \/ \E old \in SUBSET {"log", "bak", "tmp"} : Gc(old)
    \/ Submit \/ Answer
    \/ \E tools \in Batches : AskTools(tools)
    \/ \E i \in DOMAIN open : RecordResult(i)
    \/ Fold
    \/ \E m \in Models : cmd_model(m)
    \/ \E m \in Models, p \in Prompts : cmd_agent(m, p)
    \/ clm_session_log_model
    \/ AppendBlob \/ AppendLine \/ AppendFails
    \/ RewriteTmp \/ RewriteFails \/ RewriteUnlink \/ RewriteLink
    \/ RewriteRename \/ RewriteGc
    \/ Crash

Spec == Init /\ [][Next]_vars
-----------------------------------------------------------------------------
(* Properties.                                                              *)

\* A resume replays what was written, in order and nothing else, whatever
\* step of an append or a rewrite the process died in; each line cut short
\* costs at most the one record written onto it.  With no line cut short, and
\* a meta line that clm_session_create lived to write, the list shows it under
\* the model recorded last and the first thing said.
Replayable ==
    disk.log # None =>
        LET ms == Messages(disk.log)
        IN  /\ ms = SelectSeq(written, LAMBDA m : Contains(ms, m))
            /\ Len(written) - Len(ms) <= tears
            /\ tears = 0 /\ HasMeta(disk.log) =>
                   clm_session_list(disk) = {[model |-> used, first_user |-> FirstUser(written)]}

\* An image that the log or its backup names is on disk: store_attachments
\* before write_line, and blob_gc only of what neither file names.
ImagesThere ==
    \A f \in {disk.log, disk.bak} \ {None} : Images(f) \subseteq disk.blobs

\* Exit and /clear delete a log only when nothing was said in it: has_msgs is
\* never behind the file.
EmptyIsEmpty ==
    sess # None /\ clm_session_is_empty =>
        \A i \in DOMAIN disk.log :
            disk.log[i].k = "msg" => disk.log[i].m.role = "tool"

\* A session can be resumed with all that was said in it, whenever the process
\* dies and whatever was rewritten, collected or deleted: clm_session_list and
\* clm_session_resume find every message (Replayable), every image they name
\* (ImagesThere), and no log was deleted that holds a message (EmptyIsEmpty).
Resumable == Replayable /\ ImagesThere /\ EmptyIsEmpty

\* What is sent to a provider: a fold never cuts between a call and its
\* result, and a history replayed after a crash has a result for each call.
ToolPairs == ResultsFollowCalls(hist)
             /\ CallsAnswered(hist, {open[i].id : i \in DOMAIN open})

\* inv_finalize and clm_agent_restore_history: results of a volatile tool
\* that are still whole belong to one batch.
OneLiveSnapshot ==
    \A i, j \in DOMAIN hist :
        /\ i < j /\ hist[i].tool = hist[j].tool /\ hist[i].tool \in Volatile
        /\ hist[i].body = "full" /\ hist[j].body = "full"
        => ~\E k \in i .. j : IsHead(hist[k])

=============================================================================
