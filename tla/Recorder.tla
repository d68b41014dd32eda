------------------------------ MODULE Recorder ------------------------------
(***************************************************************************)
(* The recorder of a session (session/recording.rs), the worker thread     *)
(* that owns the file system (recording/worker.rs) and the recording files *)
(* it leaves behind (recording/file.rs).                                   *)
(*                                                                         *)
(* The coordinator calls the recorder synchronously; the recorder and the  *)
(* worker talk over two unbounded channels, so a file failure is noticed   *)
(* by the recorder some time after commands were recorded into it.         *)
(* The coordinator calls of this module are operators on a recorder        *)
(* record, so that a handler of the coordinator can make several of them.  *)
(* RecorderSpec drives them with any caller that keeps the coordinator's   *)
(* calling discipline; Coordinator.tla is shown to be such a caller.       *)
(***************************************************************************)
EXTENDS SessionBase, SequencesExt

CONSTANT DiskFaults   \* may a file operation fail?

ASSUME DiskFaultsAssumption == DiskFaults \in BOOLEAN

VARIABLES
    recorder,   \* the Recorder, and the operations it sent to the worker
    worker,     \* the worker thread and the replies it sent back
    files       \* every recording file created, in order

recorderVars == <<recorder, worker, files>>

-----------------------------------------------------------------------------
(* State *)

Entry(id) == [id |-> id, outcome |-> "open"]

(***************************************************************************)
(* state, id (of the pending transition), path and entries are the         *)
(* Recorder's; over says that end() was called.  A path is represented by  *)
(* the id of the command that asked for it.  Two fields are history:       *)
(* sections has, for each recording that became active, the id that        *)
(* started it, the id that stopped it (0: none) and what was sent to the   *)
(* game meanwhile; lost has the paths of the failures made known.          *)
(***************************************************************************)
NewRecorder == [state |-> "idle", id |-> 0, path |-> 0, entries |-> << >>,
                operations |-> << >>, over |-> FALSE,
                sections |-> << >>, lost |-> << >>]

NewWorker == [active |-> 0, count |-> 0, replies |-> << >>, ended |-> FALSE]

NoFooter      == [outcome |-> "none", count |-> 0]
NewFile(path) == [path |-> path, lines |-> << >>, footer |-> NoFooter]

Operation(op, path, lines) == [op |-> op, path |-> path, lines |-> lines]
Reply(kind, path, ok)      == [kind |-> kind, path |-> path, ok |-> ok]

Busy(r)          == r.state # "idle"
Transitioning(r) == r.state \in {"starting", "stopping"}

-----------------------------------------------------------------------------
(* Calls of the coordinator *)

\* control() refuses everything else, without any effect.
MayControl(r, kind, pending) ==
    /\ ~pending
    /\ \/ kind = "recordingStart" /\ r.state = "idle"
       \/ kind = "recordingStop"  /\ r.state = "active"

Control(r, id, kind) ==
    IF kind = "recordingStart"
    THEN [r EXCEPT !.state = "starting", !.id = id,
                   !.operations = Append(@, Operation("start", id, << >>))]
    ELSE [r EXCEPT !.state = "stopping", !.id = id,
                   !.operations = Append(@, Operation("stop", r.path, << >>))]

Record(r, id, kind) ==
    IF r.state = "active" /\ IsRecordable(kind)
    THEN [r EXCEPT !.entries = Append(@, Entry(id)),
                   !.sections[Len(r.sections)].sent = Append(@, Entry(id))]
    ELSE r

\* The first entry of that id takes the outcome (ids do not repeat).
Answered(entries, id, outcome) ==
    [i \in DOMAIN entries |->
        IF entries[i].id = id THEN [entries[i] EXCEPT !.outcome = outcome]
                              ELSE entries[i]]

\* Mutation of ReadyCount: flushes entries that have no outcome yet.
WholeBuffer(entries) == Len(entries)

\* How many entries at the front of the buffer have their outcome.
ReadyCount(entries) ==
    CHOOSE n \in 0 .. Len(entries) :
        /\ \A i \in 1 .. n : entries[i].outcome # "open"
        /\ n < Len(entries) => entries[n + 1].outcome = "open"

\* What happened to a command does not depend on what was recorded of it.
Witnessed(sections, id, outcome) ==
    [s \in DOMAIN sections |->
        [sections[s] EXCEPT !.sent = Answered(@, id, outcome)]]

Terminal(r, id, outcome) ==
    LET entries == Answered(r.entries, id, outcome)
        n       == ReadyCount(entries)
    IN  [r EXCEPT !.entries = SubSeq(entries, n + 1, Len(entries)),
                  !.operations =
                      IF n = 0 THEN @
                      ELSE Append(@, Operation("append", r.path, SubSeq(entries, 1, n))),
                  !.sections = Witnessed(@, id, outcome)]

\* end(): whatever is still buffered goes into the file, answered or not.
EndRecorder(r) ==
    [r EXCEPT !.entries = << >>,
              !.over = TRUE,
              !.operations = Append(@, Operation("end", r.path, r.entries))]

(***************************************************************************)
(* reply(): the state after one reply, and the notice it makes.  A reply   *)
(* the state does not expect is unreachable!() in the code: "panicked".    *)
(***************************************************************************)
\* Mutation of Started: the path of an earlier recording stays.
StartedWithoutPath(r) ==
    [r EXCEPT !.state = "active", !.id = 0,
              !.sections = Append(@, [start |-> r.id, stop |-> 0, sent |-> << >>])]

Started(r) ==
    [r EXCEPT !.state = "active", !.id = 0, !.path = r.id,
              !.sections = Append(@, [start |-> r.id, stop |-> 0, sent |-> << >>])]

Stopped(r, ok) ==
    [r EXCEPT !.state = "idle", !.id = 0,
              !.sections[Len(r.sections)].stop = r.id,
              !.lost = IF ok THEN @ ELSE Append(@, r.path)]

\* Mutations of Failed: a transition is given up too; nobody is told.
FailedAnyway(r, path) ==
    [r EXCEPT !.state = "idle", !.entries = << >>, !.lost = Append(@, path)]

FailedSilently(r, path) ==
    [r EXCEPT !.state = IF @ = "active" THEN "idle" ELSE @, !.entries = << >>]

Failed(r, path) ==
    [r EXCEPT !.state = IF @ = "active" THEN "idle" ELSE @,
              !.entries = << >>,
              !.lost = Append(@, path)]

Replied(r, reply) ==
    CASE reply.kind = "started" /\ r.state = "starting" ->
            IF reply.ok THEN Started(r) ELSE [r EXCEPT !.state = "idle", !.id = 0]
      [] reply.kind = "stopped" /\ r.state = "stopping" -> Stopped(r, reply.ok)
      [] reply.kind = "failed"  -> Failed(r, reply.path)
      [] reply.kind = "ended"   -> r
      [] OTHER                  -> [r EXCEPT !.state = "panicked"]

\* The command a reply settles (0: none) and its outcome.
SettledBy(r, reply) == IF reply.kind \in {"started", "stopped"} THEN r.id ELSE 0
OutcomeOf(reply)    == IF reply.ok THEN "ok" ELSE "failed"

-----------------------------------------------------------------------------
(* The worker thread *)

Operations     == recorder.operations
Sends(replies) == worker.replies \o replies

Takes(op) ==
    /\ ~worker.ended
    /\ Operations # << >>
    /\ Head(Operations).op = op
    /\ recorder' = [recorder EXCEPT !.operations = Tail(@)]

\* A start that fails removes the file it created, or fails to.
WorkerStart ==
    /\ Takes("start")
    /\ LET path    == Head(Operations).path
           created == Append(files, NewFile(path))
       IN  \/ /\ files' = created
              /\ worker' = [worker EXCEPT !.active = Len(created), !.count = 0,
                                          !.replies = Sends(<<Reply("started", path, TRUE)>>)]
           \/ /\ DiskFaults
              /\ files' \in {files, created}
              /\ worker' = [worker EXCEPT !.replies = Sends(<<Reply("started", path, FALSE)>>)]

Written(file, lines) == [file EXCEPT !.lines = @ \o lines]

Footed(file, outcome, count) ==
    [file EXCEPT !.footer = [outcome |-> outcome, count |-> count]]

\* What a failed append leaves: some of the lines.
Torn(f, lines) ==
    {[files EXCEPT ![f] = Written(@, SubSeq(lines, 1, n))] : n \in 0 .. Len(lines)}

\* Appends for a recording that failed are dropped.
WorkerAppend ==
    /\ Takes("append")
    /\ LET f     == worker.active
           lines == Head(Operations).lines
       IN  \/ /\ f = 0
              /\ UNCHANGED <<worker, files>>
           \/ /\ f # 0
              /\ files' = [files EXCEPT ![f] = Written(@, lines)]
              /\ worker' = [worker EXCEPT !.count = @ + Len(lines)]
           \/ /\ f # 0 /\ DiskFaults
              /\ files' \in Torn(f, lines)
              /\ worker' = [worker EXCEPT
                               !.active = 0,
                               !.replies = Sends(<<Reply("failed", files[f].path, FALSE)>>)]

\* finish() may fail before or after the footer reached the file.
WorkerStop ==
    /\ Takes("stop")
    /\ LET f      == worker.active
           path   == Head(Operations).path
           footed == [files EXCEPT ![f] = Footed(@, "stopped", worker.count)]
           Answer(ok) ==
               worker' = [worker EXCEPT !.active = 0,
                                        !.replies = Sends(<<Reply("stopped", path, ok)>>)]
       IN  \/ f # 0 /\ files' = footed /\ Answer(TRUE)
           \/ f # 0 /\ DiskFaults /\ files' \in {files, footed} /\ Answer(FALSE)
           \/ f = 0 /\ UNCHANGED files /\ Answer(FALSE)

\* The last operation: append, then footer; a failure of either is reported.
WorkerEnd ==
    /\ Takes("end")
    /\ LET f     == worker.active
           lines == Head(Operations).lines
           whole == [files EXCEPT ![f] = Footed(Written(@, lines), "session_ended",
                                                worker.count + Len(lines))]
           Finish(replies) ==
               worker' = [worker EXCEPT
                             !.active = 0, !.ended = TRUE,
                             !.replies = Sends(replies \o <<Reply("ended", 0, TRUE)>>)]
       IN  \/ f = 0 /\ UNCHANGED files /\ Finish(<< >>)
           \/ f # 0 /\ files' = whole /\ Finish(<< >>)
           \/ /\ f # 0 /\ DiskFaults
              /\ files' \in Torn(f, lines) \cup {whole}
              /\ Finish(<<Reply("failed", files[f].path, FALSE)>>)

Work == WorkerStart \/ WorkerAppend \/ WorkerStop \/ WorkerEnd

-----------------------------------------------------------------------------
(***************************************************************************)
(* The recorder under any caller with the coordinator's discipline: it     *)
(* sends commands in ascending order and never during a transition, tells  *)
(* control() whether commands are pending, and reports each answer once.   *)
(***************************************************************************)
RecorderInit ==
    /\ recorder = NewRecorder
    /\ worker = NewWorker
    /\ files = << >>
    /\ active = {}
    /\ wire = << >>

\* A control command is younger than everything sent before it.
CallControl(id, kind, pending) ==
    /\ ~recorder.over
    /\ active # {} => pending
    /\ NextOnWire(id)
    /\ \A s \in DOMAIN recorder.sections : recorder.sections[s].stop < id
    /\ \A f \in DOMAIN files : files[f].path < id
    /\ MayControl(recorder, kind, pending)
    /\ recorder' = Control(recorder, id, kind)
    /\ UNCHANGED <<worker, files, baseVars>>

MaySend(id) ==
    /\ ~recorder.over
    /\ ~Transitioning(recorder)
    /\ NextOnWire(id)
    /\ wire' = Append(wire, id)
    /\ UNCHANGED <<worker, files>>

CallSend(id, kind) ==
    /\ MaySend(id)
    /\ active' = active \cup {id}
    /\ recorder' = Record(recorder, id, kind)

\* The writer is gone: the command is recorded and settled at once.
CallSendFailed(id, kind) ==
    /\ MaySend(id)
    /\ recorder' = Terminal(Record(recorder, id, kind), id, "io")
    /\ UNCHANGED active

CallTerminal(id, outcome) ==
    /\ ~recorder.over
    /\ id \in active
    /\ active' = active \ {id}
    /\ recorder' = Terminal(recorder, id, outcome)
    /\ UNCHANGED <<worker, files, wire>>

PollReply ==
    /\ worker.replies # << >>
    /\ recorder' = Replied(recorder, Head(worker.replies))
    /\ worker' = [worker EXCEPT !.replies = Tail(@)]
    /\ UNCHANGED <<files, baseVars>>

CallEnd ==
    /\ ~recorder.over
    /\ recorder' = EndRecorder(recorder)
    /\ UNCHANGED <<worker, files, baseVars>>

\* The recorder tells only the shutdown, of all commands that are sent, apart.
KindOnWire(id) == IF id = LastId THEN "shutdown" ELSE "game"

RecorderNext ==
    \/ \E id \in NormalIds, kind \in RecordKinds, pending \in BOOLEAN :
          CallControl(id, kind, pending)
    \/ \E id \in Ids :
          \/ CallSend(id, KindOnWire(id))
          \/ CallSendFailed(id, KindOnWire(id))
          \/ \E outcome \in Answers : CallTerminal(id, outcome)
    \/ PollReply
    \/ CallEnd
    \/ Work /\ UNCHANGED baseVars

RecorderSpec == RecorderInit /\ [][RecorderNext]_<<recorderVars, baseVars>>

-----------------------------------------------------------------------------
(* Properties *)

(***************************************************************************)
(* A reply of the worker always finds the transition it belongs to: the    *)
(* two unreachable!() of reply() are unreachable, whatever files fail and  *)
(* however long replies stay in the channel.                               *)
(***************************************************************************)
RepliesMatch == recorder.state # "panicked"

\* What was sent to the game while the recording of that path was active.
SentDuring(path) ==
    LET S == {s \in DOMAIN recorder.sections : recorder.sections[s].start = path}
    IN  IF S = {} THEN << >> ELSE recorder.sections[CHOOSE s \in S : TRUE].sent

(***************************************************************************)
(* A footer is a promise: a file that has one lists exactly the commands   *)
(* sent to the game while its recording was active, each once, in order    *)
(* and with its own outcome, and counts them; a footer "stopped" leaves    *)
(* none unanswered.  So a failed or torn recording never looks complete,   *)
(* and everything the recorder completes is what the replay loader takes.  *)
(***************************************************************************)
FooterMeansComplete ==
    \A f \in DOMAIN files :
        LET file == files[f] IN
        file.footer # NoFooter =>
            /\ file.lines = SentDuring(file.path)
            /\ file.footer.count = Len(file.lines)
            /\ file.footer.outcome = "stopped" =>
                  \A i \in DOMAIN file.lines : file.lines[i].outcome # "open"

Quiet == worker.ended /\ worker.replies = << >>

(***************************************************************************)
(* No recording is lost silently: once the recorder has ended, each one    *)
(* that was acknowledged as started has its footer or was reported, as a   *)
(* RecordingFailed event or as the failure of its stop.                    *)
(***************************************************************************)
LossIsReported ==
    Quiet => \A s \in DOMAIN recorder.sections :
                 LET path == recorder.sections[s].start IN
                 \/ \E f \in DOMAIN files :
                       files[f].path = path /\ files[f].footer # NoFooter
                 \/ \E i \in DOMAIN recorder.lost : recorder.lost[i] = path

(***************************************************************************)
(* A late failure never hits the wrong recording: when RecordingFailed     *)
(* takes an active recording down, it is the one the file belonged to.     *)
(***************************************************************************)
FailureHitsItsRecording ==
    [][(recorder.state = "active" /\ recorder'.state = "idle")
          => recorder'.lost = Append(recorder.lost, recorder.path)]_recorder
=============================================================================
