---------------------------- MODULE Coordinator ----------------------------
(***************************************************************************)
(* The private coordinator of a session after the Ready handshake          *)
(* (session/coordinator.rs, run), with the recorder and the replay engine  *)
(* it drives, the game process and its pipes (session/process.rs), and the *)
(* client at the other end of the operation channel (session/mod.rs).      *)
(*                                                                         *)
(* The coordinator is one thread.  pc names the segment of its loop it is  *)
(* in; one action is one message it takes from a channel, or one command   *)
(* it hands on, so that every other thread may run in between.             *)
(***************************************************************************)
EXTENDS Recorder, Replay

CONSTANTS
    Offered,    \* the kinds of command the client submits
    Faults,     \* what may go wrong outside, see AllFaults
    EventCap,   \* 256 events wait for the client at most
    Batch       \* 64 commands are handed on in one segment at most

(***************************************************************************)
(* exit: the game exits by itself; eof: it closes a pipe while running;    *)
(* reader: reading one fails; writer: writing stdin fails; wait: the       *)
(* process cannot be waited for; stray: lines that answer nothing; marker: *)
(* failures on stderr; cancel: the session is dropped or aborted.          *)
(***************************************************************************)
AllFaults == {"exit", "eof", "reader", "writer", "wait", "stray", "marker", "cancel"}

ASSUME OfferedAssumption == Offered \subseteq Kinds
ASSUME FaultsAssumption  == Faults \subseteq AllFaults
ASSUME BoundsAssumption  == EventCap \in Nat \ {0} /\ Batch \in Nat \ {0}

VARIABLES
    pc,         \* the segment of the loop
    budget,     \* what is left of the batch of that segment
    commands,   \* the kinds of the commands accepted so far; next is its length + 1
    deferred,   \* ids that wait for a file transition
    outcomes,   \* for each id "open" or what complete() was told
    stopping,   \* was shutdown accepted?
    shutdown,   \* the answer of the game to it
    reason,     \* the end reason
    eof,        \* "waiting" from the first closed pipe on, "late" after its deadline
    closed,     \* how many Closed events were handled
    exitStatus, \* the status try_wait() returned first
    cleanup,    \* intentional_cleanup
    process,    \* the child, its pipes, and the writer of its stdin; condemned is history:
                \* did it run when the coordinator decided to terminate it?
    waiting,    \* is a submitter waiting for the reply to its operation?
    cancel,     \* the flag of Session::drop and of a forced stop
    events,     \* the session events waiting for the client
    exitFailure \* history: was a process_exit failure made?

loopVars    == <<pc, budget>>
acceptVars  == <<commands, deferred, outcomes>>
stopVars    == <<stopping, shutdown>>
endVars     == <<reason, eof, closed, exitStatus, cleanup, exitFailure>>
outsideVars == <<process, waiting, cancel, events>>
vars == <<loopVars, acceptVars, stopVars, endVars, outsideVars,
          baseVars, recorderVars, replayVars>>

-----------------------------------------------------------------------------
(* Helpers of the loop *)

NextId == Len(commands) + 1

Exhausted == NextId = LastId

\* complete(), for each notice that settles a command.
Completed(notices) ==
    [id \in Ids |->
        LET told == {i \in DOMAIN notices : notices[i].id = id}
        IN  IF told = {} THEN outcomes[id] ELSE notices[CHOOSE i \in told : TRUE].outcome]

(***************************************************************************)
(* push_event(): a full queue loses the event and ends the session, unless *)
(* it is ending already.                                                   *)
(***************************************************************************)
Overflows == Len(events) >= EventCap
Queued(event)     == IF Overflows THEN events ELSE Append(events, event)
ReasonAfterPush   == IF Overflows /\ reason = "none" THEN "overflow" ELSE reason
OrReason(because) == IF reason = "none" THEN because ELSE reason

Pushes(event) == events' = Queued(event) /\ reason' = ReasonAfterPush

\* A game told to shut down exits, and so may any other.
Exits == {[process EXCEPT !.child = status] : status \in
             IF process.child = "running" /\ (shutdown = "ok" \/ "exit" \in Faults)
             THEN {"success", "failure"} ELSE {}}

\* terminate() kills the group of a running child and drops the writer.
Terminated(p) == [p EXCEPT !.child = IF @ = "running" THEN "killed" ELSE @,
                           !.writer = FALSE]

(***************************************************************************)
(* send_game(): the writer thread still takes the line, or is gone.  Once  *)
(* terminate() took the sender there is nothing left to unwrap.            *)
(***************************************************************************)
SendsGame(id, kind) ==
    /\ process.stdin # "gone"
    /\ active' = active \cup {id}
    /\ wire' = Append(wire, id)
    /\ recorder' = Record(recorder, id, kind)
    /\ UNCHANGED reason

\* Mutation of SendGameFails: the command stays in active.
SendGameFailsActive(id, kind) ==
    /\ process.stdin # "open"
    /\ wire' = Append(wire, id)
    /\ recorder' = Record(recorder, id, kind)
    /\ reason' = "transport_closed"
    /\ active' = active \cup {id}

SendGameFails(id, kind) ==
    /\ process.stdin # "open"
    /\ wire' = Append(wire, id)
    /\ recorder' = IF id = LastId THEN Record(recorder, id, kind)
                   ELSE Terminal(Record(recorder, id, kind), id, "io")
    /\ reason' = "transport_closed"
    /\ UNCHANGED active

-----------------------------------------------------------------------------
(* Top of the loop: replies of the recording worker, then the cancel flag *)

\* A reply settles the control command that waits for it, or is an event.
TakeReply ==
    /\ worker.replies # << >>
    /\ LET reply == Head(worker.replies)
           id    == SettledBy(recorder, reply)
       IN  /\ recorder' = Replied(recorder, reply)
           /\ outcomes' = IF id = 0 THEN outcomes
                          ELSE [outcomes EXCEPT ![id] = OutcomeOf(reply)]
           /\ IF reply.kind = "failed" THEN Pushes("recordingFailed")
                                       ELSE UNCHANGED <<events, reason>>
    /\ worker' = [worker EXCEPT !.replies = Tail(@)]
    /\ UNCHANGED <<files, baseVars, replayVars, commands, deferred, stopVars, eof, closed,
                   exitStatus, cleanup, exitFailure, process, waiting, cancel>>

PollRecorder == pc = "top" /\ TakeReply /\ UNCHANGED loopVars

BeginIteration ==
    /\ pc = "top"
    /\ pc' = IF cancel THEN "end" ELSE "events"
    /\ UNCHANGED <<budget, acceptVars, stopVars, endVars, outsideVars,
                   baseVars, recorderVars, replayVars>>

-----------------------------------------------------------------------------
(* Process events.  A line, an EOF or a failure is in the channel when the *)
(* reader thread put it there; taking it is what the coordinator observes. *)

\* A response to an open command; its outcome is ours to choose.
TakeResponse ==
    /\ pc = "events" /\ process.stdout = "open"
    /\ \E id \in active \ {LastId}, outcome \in Answers :
          /\ active' = active \ {id}
          /\ recorder' = Terminal(recorder, id, outcome)
          /\ replay' = RunTerminal(replay, id, outcome)
          /\ outcomes' = [outcomes EXCEPT ![id] = outcome]
    /\ UNCHANGED <<loopVars, commands, deferred, stopVars, endVars, outsideVars,
                   wire, worker, files, loader>>

TakeShutdownResponse ==
    /\ pc = "events" /\ process.stdout = "open"
    /\ LastId \in active
    /\ active' = active \ {LastId}
    /\ shutdown' \in Answers
    /\ UNCHANGED <<loopVars, acceptVars, stopping, endVars, outsideVars,
                   wire, recorderVars, replayVars>>

\* A line without an open request, or a marker on stderr.
TakeNoise ==
    /\ pc = "events"
    /\ \/ "stray" \in Faults /\ process.stdout = "open" /\ Pushes("protocolError")
       \/ "marker" \in Faults /\ process.stderr = "open" /\ Pushes("failure")
    /\ UNCHANGED <<loopVars, acceptVars, stopVars, eof, closed, exitStatus, cleanup,
                   exitFailure, process, waiting, cancel,
                   baseVars, recorderVars, replayVars>>

\* The first EOF starts the deadline; that of stderr ends its last marker.
TakeClosed(pipe) ==
    /\ pc = "events" /\ process[pipe] = "open"
    /\ process.child # "running" \/ "eof" \in Faults
    /\ process' = [process EXCEPT ![pipe] = "closed"]
    /\ closed' = closed + 1
    /\ eof' = IF eof = "none" THEN "waiting" ELSE eof
    /\ \/ UNCHANGED <<events, reason>>
       \/ pipe = "stderr" /\ "marker" \in Faults /\ Pushes("failure")
    /\ UNCHANGED <<loopVars, acceptVars, stopVars, exitStatus, cleanup, exitFailure,
                   waiting, cancel, baseVars, recorderVars, replayVars>>

\* A reader that fails returns: its pipe never reports Closed.
TakeReaderFailed(pipe) ==
    /\ pc = "events" /\ process[pipe] = "open"
    /\ "reader" \in Faults
    /\ process' = [process EXCEPT ![pipe] = "failed"]
    /\ reason' = OrReason("transport_failed")
    /\ UNCHANGED <<loopVars, acceptVars, stopVars, eof, closed, exitStatus, cleanup,
                   exitFailure, waiting, cancel, events, baseVars, recorderVars, replayVars>>

TakeWriterFailed ==
    /\ pc = "events" /\ process.stdin = "broken"
    /\ process' = [process EXCEPT !.stdin = "gone"]
    /\ reason' = OrReason("transport_failed")
    /\ UNCHANGED <<loopVars, acceptVars, stopVars, eof, closed, exitStatus, cleanup,
                   exitFailure, waiting, cancel, events, baseVars, recorderVars, replayVars>>

TakeEvent ==
    \/ TakeResponse \/ TakeShutdownResponse \/ TakeNoise \/ TakeWriterFailed
    \/ \E pipe \in {"stdout", "stderr"} : TakeClosed(pipe) \/ TakeReaderFailed(pipe)

(***************************************************************************)
(* After the batch: a refused shutdown ends the session.  Otherwise a      *)
(* child that outlives the EOF deadline is a closed transport, and any end *)
(* reason terminates a child that has not been seen to exit.  The child    *)
(* may exit by itself between that look and terminate().  A wait that      *)
(* fails at the look fails again in WaitFails.                             *)
(***************************************************************************)
ShutdownFailed == stopping /\ shutdown \notin {"none", "ok"}

Condemned(before) ==
    [Terminated(before) EXCEPT !.condemned = @ \/ process.child = "running"]

\* Mutation of CommitsCleanup: only a child that was really killed is our own end.
CommitsKill(before) == before.child = "running"

\* The decision to end a running child counts, not how it ended after that.
CommitsCleanup(before) == process.child = "running"

EndEvents ==
    /\ pc = "events"
    /\ IF ShutdownFailed
       THEN /\ pc' = "end"
            /\ UNCHANGED <<reason, cleanup, process>>
       ELSE \E before \in {process} \cup Exits :
            LET running == process.child = "running" /\ exitStatus = "none"
                expires == eof = "late" /\ running
                ends    == exitStatus = "none" /\ (expires \/ reason # "none")
            IN  /\ pc' = "exit"
                /\ reason' = IF expires THEN OrReason("transport_closed") ELSE reason
                /\ cleanup' = (cleanup \/ (ends /\ CommitsCleanup(before)))
                /\ process' = IF ends THEN Condemned(before) ELSE process
    /\ UNCHANGED <<budget, acceptVars, stopVars, eof, closed, exitStatus, exitFailure,
                   waiting, cancel, events, baseVars, recorderVars, replayVars>>

-----------------------------------------------------------------------------
(* The exit of the child *)

HasExited == exitStatus # "none" \/ process.child # "running"
StatusNow == IF exitStatus # "none" THEN exitStatus
             ELSE IF process.child = "success" THEN "success" ELSE "failure"

\* Both pipes must drain before the exit counts.
AwaitPipes ==
    /\ pc = "exit" /\ HasExited /\ closed < 2
    /\ exitStatus' = StatusNow
    /\ process' = Terminated(process)
    /\ pc' = "top"
    /\ UNCHANGED <<budget, acceptVars, stopVars, reason, eof, closed, cleanup, exitFailure,
                   waiting, cancel, events, baseVars, recorderVars, replayVars>>

\* Mutation of ReportsExit: the kill of the EOF deadline is reported.
ReportsAnyExit(panicSeen) == ~stopping /\ ~panicSeen

\* A panic marker seen before the exit takes its place as the failure.
ReportsExit(panicSeen) == ~(stopping \/ cleanup \/ panicSeen)

Drained ==
    /\ pc = "exit" /\ HasExited /\ closed = 2
    /\ exitStatus' = StatusNow
    /\ process' = Terminated(process)
    /\ \E panicSeen \in IF "marker" \in Faults THEN BOOLEAN ELSE {FALSE} :
          LET reports  == ReportsExit(panicSeen)
              pushed   == IF reports THEN ReasonAfterPush ELSE reason
              expected == stopping /\ StatusNow = "success" /\ shutdown = "ok"
          IN  /\ exitFailure' = reports
              /\ events' = IF reports THEN Queued("failure") ELSE events
              /\ reason' = IF pushed # "none" \/ expected THEN pushed ELSE "process_exit"
    /\ pc' = "end"
    /\ UNCHANGED <<budget, acceptVars, stopVars, eof, closed, cleanup,
                   waiting, cancel, baseVars, recorderVars, replayVars>>

WaitFails ==
    /\ pc = "exit" /\ "wait" \in Faults /\ exitStatus = "none"
    /\ reason' = "transport_failed"
    /\ pc' = "end"
    /\ UNCHANGED <<budget, acceptVars, stopVars, eof, closed, exitStatus, cleanup, exitFailure,
                   outsideVars, baseVars, recorderVars, replayVars>>

\* Mutation of AfterExit: an EOF makes no difference before its deadline.
AfterExitIgnoringEof == IF reason # "none" THEN "end" ELSE "deferred"

AfterExit == IF reason # "none" THEN "end" ELSE IF eof # "none" THEN "refuse" ELSE "deferred"

StillRunning ==
    /\ pc = "exit" /\ ~HasExited
    /\ pc' = AfterExit
    /\ budget' = Batch
    /\ UNCHANGED <<acceptVars, stopVars, endVars, outsideVars,
                   baseVars, recorderVars, replayVars>>

-----------------------------------------------------------------------------
(* After an EOF: operations are refused, nothing goes to the game *)

Refuse ==
    /\ pc = "refuse"
    /\ waiting' = FALSE
    /\ pc' = "top"
    /\ UNCHANGED <<budget, acceptVars, stopVars, endVars, process, cancel, events,
                   baseVars, recorderVars, replayVars>>

-----------------------------------------------------------------------------
(* Deferred commands, then the replay engine's loader and its finish *)

MaySendDeferred == pc = "deferred" /\ ~Transitioning(recorder) /\ deferred # << >> /\ budget > 0

SendDeferred ==
    /\ MaySendDeferred
    /\ deferred' = Tail(deferred)
    /\ LET id == Head(deferred) IN
       \/ /\ SendsGame(id, commands[id])
          /\ budget' = budget - 1
          /\ UNCHANGED <<pc, outcomes>>
       \/ /\ SendGameFails(id, commands[id])
          /\ outcomes' = [outcomes EXCEPT ![id] = "io"]
          /\ pc' = "top"
          /\ UNCHANGED budget
    /\ UNCHANGED <<commands, stopVars, eof, closed, exitStatus, cleanup, exitFailure,
                   outsideVars, worker, files, replayVars>>

\* poll(): the notices of the replay settle its control commands.
PollsReplay ==
    LET polled == Polled(replay, loader, Transitioning(recorder)) IN
    /\ replay' = Told(polled)
    /\ loader' = LoaderAfter(replay, loader, Transitioning(recorder))
    /\ outcomes' = Completed(polled.notices)

EndDeferred ==
    /\ pc = "deferred" /\ ~MaySendDeferred
    /\ PollsReplay
    /\ pc' = "input"
    /\ budget' = Batch
    /\ UNCHANGED <<commands, deferred, stopVars, endVars, outsideVars,
                   baseVars, recorderVars>>

-----------------------------------------------------------------------------
(***************************************************************************)
(* One operation of the input channel.  The replay is polled before it is  *)
(* looked at, so that a stop meets a loader that has answered.             *)
(***************************************************************************)
TakeOperation ==
    /\ pc = "input" /\ waiting /\ budget > 0
    /\ PollsReplay
    /\ pc' = "accept"
    /\ budget' = budget - 1
    /\ UNCHANGED <<commands, deferred, stopVars, endVars, outsideVars,
                   baseVars, recorderVars>>

\* Mutation of Replies: a submitter is not answered.
ForgetsReply(kind) == pc = "accept" /\ kind \in Offered /\ waiting' = waiting

(***************************************************************************)
(* The submitter gets its reply and the loop turns to the next operation.  *)
(* Nobody can tell what waits in the channel before it is looked at: the   *)
(* kind of an operation is chosen here.                                    *)
(***************************************************************************)
Replies(kind) == pc = "accept" /\ kind \in Offered /\ waiting' = FALSE
Accepts(kind) == Replies(kind) /\ ~stopping /\ ~Exhausted /\ commands' = Append(commands, kind)

\* What the operation leaves alone unless it says otherwise.
Untouched == UNCHANGED <<budget, stopVars, eof, closed, exitStatus, cleanup, exitFailure,
                         process, cancel, events, worker, files>>

\* Mutation of ShutdownBlocked: a replay does not block shutdown.
ShutdownBlockedByFiles == active # {} \/ deferred # << >> \/ Busy(recorder)

ShutdownBlocked ==
    \/ active # {} \/ deferred # << >>
    \/ Busy(recorder)           \* in transition, or recording
    \/ IsBusy(replay)

RefuseOperation ==
    /\ \E kind \in Offered :
          /\ Replies(kind)
          /\ \/ stopping
             \/ kind = "shutdown" /\ ShutdownBlocked
             \/ kind # "shutdown" /\ Exhausted
    /\ pc' = "input"
    /\ Untouched
    /\ UNCHANGED <<acceptVars, reason, baseVars, recorder, replayVars>>

AcceptShutdown ==
    /\ Replies("shutdown")
    /\ ~stopping /\ ~ShutdownBlocked
    /\ stopping' = TRUE
    /\ \/ SendsGame(LastId, "shutdown") /\ pc' = "input"
       \/ SendGameFails(LastId, "shutdown") /\ pc' = "top"
    /\ UNCHANGED <<budget, acceptVars, shutdown, eof, closed, exitStatus, cleanup, exitFailure,
                   process, cancel, events, worker, files, replayVars>>

AcceptReplayControl ==
    /\ \/ Accepts("replayStart") /\ replay' = ControlStart(replay, NextId)
                                 /\ UNCHANGED loader
       \/ Accepts("replayStop")  /\ replay' = ControlStop(replay, NextId)
                                 /\ loader' = Cancelled(replay, loader)
    /\ pc' = "input"
    /\ Untouched
    /\ UNCHANGED <<deferred, outcomes, reason, baseVars, recorder>>

\* Mutation of Replaying: a replay refuses commands only until it is loaded.
ReplayLoads == replay.run.phase \in {"waiting", "preparing"}

\* Only replay.stop is allowed during replay.
Replaying == IsBusy(replay)

AcceptDuringReplay ==
    /\ \E kind \in RecordKinds \cup GameKinds : Accepts(kind)
    /\ Replaying
    /\ outcomes' = [outcomes EXCEPT ![NextId] = "failed"]
    /\ pc' = "input"
    /\ Untouched
    /\ UNCHANGED <<deferred, reason, baseVars, recorder, replayVars>>

\* Any start may be refused for its path.
AcceptRecordControl ==
    /\ ~Replaying
    /\ \E kind \in RecordKinds :
          /\ Accepts(kind)
          /\ \/ /\ MayControl(recorder, kind, active # {} \/ deferred # << >>)
                /\ recorder' = Control(recorder, NextId, kind)
                /\ UNCHANGED outcomes
             \/ /\ kind = "recordingStart"
                     \/ ~MayControl(recorder, kind, active # {} \/ deferred # << >>)
                /\ outcomes' = [outcomes EXCEPT ![NextId] = "failed"]
                /\ UNCHANGED recorder
    /\ pc' = "input"
    /\ Untouched
    /\ UNCHANGED <<deferred, reason, baseVars, replayVars>>

\* Mutations of Holds: nothing waits for a transition; commands overtake the queue.
HoldsQueueOnly      == deferred # << >>
HoldsTransitionOnly == Transitioning(recorder)

Holds == Transitioning(recorder) \/ deferred # << >>

AcceptDeferred ==
    /\ ~Replaying /\ Holds
    /\ \E kind \in GameKinds : Accepts(kind)
    /\ deferred' = Append(deferred, NextId)
    /\ pc' = "input"
    /\ Untouched
    /\ UNCHANGED <<outcomes, reason, baseVars, recorder, replayVars>>

AcceptSend ==
    /\ ~Replaying /\ ~Holds
    /\ \E kind \in GameKinds :
          /\ Accepts(kind)
          /\ \/ /\ SendsGame(NextId, kind)
                /\ pc' = "input"
                /\ UNCHANGED outcomes
             \/ /\ SendGameFails(NextId, kind)
                /\ outcomes' = [outcomes EXCEPT ![NextId] = "io"]
                /\ pc' = "top"
    /\ Untouched
    /\ UNCHANGED <<deferred, replayVars>>

Accept == \/ RefuseOperation \/ AcceptShutdown \/ AcceptReplayControl \/ AcceptDuringReplay
          \/ AcceptRecordControl \/ AcceptDeferred \/ AcceptSend

EndInput ==
    /\ pc = "input"
    /\ pc' = "plan"
    /\ budget' = Batch
    /\ UNCHANGED <<acceptVars, stopVars, endVars, outsideVars,
                   baseVars, recorderVars, replayVars>>

-----------------------------------------------------------------------------
(* Commands of the replay's plan, and the internal stop of its warp *)

\* Mutation of MaySubmit: the plan waits for the end of a recording.
MaySubmitWhenIdle ==
    pc = "plan" /\ budget > 0 /\ ~Busy(recorder) /\ deferred = << >> /\ Frees

MaySubmit ==
    /\ pc = "plan" /\ budget > 0
    /\ ~Transitioning(recorder) /\ deferred = << >>
    /\ Frees

SubmitPlan ==
    /\ MaySubmit /\ ~Exhausted
    /\ LET kind == NextKind(replay.run) IN
       /\ commands' = Append(commands, kind)
       /\ \/ /\ SendsGame(NextId, kind)
             /\ replay' = FromReplay(NextId)
             /\ budget' = budget - 1
             /\ UNCHANGED <<pc, outcomes>>
          \/ /\ SendGameFails(NextId, kind)
             /\ replay' = RunTerminal(FromReplay(NextId), NextId, "io")
             /\ outcomes' = [outcomes EXCEPT ![NextId] = "io"]
             /\ pc' = "top"
             /\ UNCHANGED budget
    /\ UNCHANGED <<deferred, stopVars, eof, closed, exitStatus, cleanup, exitFailure,
                   outsideVars, worker, files, loader>>

SubmitExhausted ==
    /\ MaySubmit /\ Exhausted
    /\ replay' = SubmissionFailed(Taken(replay))
    /\ pc' = "top"
    /\ UNCHANGED <<budget, acceptVars, stopVars, endVars, outsideVars,
                   baseVars, recorderVars, loader>>

EndPlan ==
    /\ pc = "plan" /\ ~MaySubmit
    /\ pc' = "top"
    /\ UNCHANGED <<budget, acceptVars, stopVars, endVars, outsideVars,
                   baseVars, recorderVars, replayVars>>

-----------------------------------------------------------------------------
(* The end of the session *)

\* A marker that stderr left incomplete is an event only now.
EndReplayAndRecorder ==
    /\ pc = "end"
    /\ \/ Pushes("failure") /\ "marker" \in Faults /\ process.stderr = "open"
       \/ UNCHANGED <<events, reason>>
    /\ process' = Terminated(process)
    /\ LET ended == EndReplay(replay, reason' = "transport_failed") IN
       /\ replay' = Told(ended)
       /\ outcomes' = Completed(ended.notices)
    /\ loader' = Cancelled(replay, loader)
    /\ recorder' = EndRecorder(recorder)
    /\ pc' = "drain"
    /\ UNCHANGED <<budget, commands, deferred, stopVars, eof, closed, exitStatus, cleanup,
                   exitFailure, waiting, cancel, baseVars, worker, files>>

\* Replies before the last one.
DrainRecorder ==
    /\ pc = "drain"
    /\ worker.replies # << >> => Head(worker.replies).kind # "ended"
    /\ TakeReply
    /\ UNCHANGED loopVars

\* Mutation of ShutdownOutcome: the game's answer counts whatever happened after it.
ShutdownAnswer == IF shutdown # "none" THEN shutdown ELSE "ended"

ShutdownOutcome ==
    IF reason = "none" /\ ~cancel /\ shutdown # "none" THEN shutdown ELSE "ended"

(***************************************************************************)
(* The worker's last reply, or a cancelled session that waits no longer    *)
(* for its file system; then Ended has the slot kept for it.               *)
(***************************************************************************)
FinishSession ==
    /\ pc = "drain"
    /\ \/ worker.replies # << >> /\ Head(worker.replies).kind = "ended"
       \/ worker.replies = << >> /\ cancel
    /\ outcomes' = IF ~stopping THEN outcomes
                   ELSE [outcomes EXCEPT ![LastId] = ShutdownOutcome]
    /\ events' = IF reason = "none" THEN events ELSE Append(events, "ended")
    /\ waiting' = FALSE
    /\ pc' = "done"
    /\ UNCHANGED <<budget, commands, deferred, stopVars, endVars, process, cancel,
                   baseVars, recorderVars, replayVars>>

-----------------------------------------------------------------------------
(* Everything outside the coordinator thread *)

Outside == UNCHANGED <<loopVars, acceptVars, stopVars, endVars, baseVars>>

\* The handle is not shared: a submitter waits for its reply.
Submit ==
    /\ ~waiting /\ pc # "done"
    /\ waiting' = TRUE
    /\ Outside
    /\ UNCHANGED <<process, cancel, events, recorderVars, replayVars>>

ReceiveEvent ==
    /\ events # << >>
    /\ events' = Tail(events)
    /\ Outside
    /\ UNCHANGED <<process, waiting, cancel, recorderVars, replayVars>>

Cancel ==
    /\ "cancel" \in Faults /\ ~cancel
    /\ cancel' = TRUE
    /\ Outside
    /\ UNCHANGED <<process, waiting, events, recorderVars, replayVars>>

ChildExits ==
    /\ process' \in Exits
    /\ Outside
    /\ UNCHANGED <<waiting, cancel, events, recorderVars, replayVars>>

WriterBreaks ==
    /\ "writer" \in Faults
    /\ process.stdin = "open" /\ active # {}
    /\ process' = [process EXCEPT !.stdin = "broken"]
    /\ Outside
    /\ UNCHANGED <<waiting, cancel, events, recorderVars, replayVars>>

\* Mutation of DeadlinePasses: the deadline waits for the second EOF.
DeadlineOfBoth ==
    /\ eof = "waiting" /\ closed = 2
    /\ eof' = "late"
    /\ UNCHANGED <<loopVars, acceptVars, stopVars, reason, closed, exitStatus, cleanup,
                   exitFailure, outsideVars, baseVars, recorderVars, replayVars>>

\* EOF_EXIT_TIMEOUT has passed.
DeadlinePasses ==
    /\ eof = "waiting"
    /\ eof' = "late"
    /\ UNCHANGED <<loopVars, acceptVars, stopVars, reason, closed, exitStatus, cleanup,
                   exitFailure, outsideVars, baseVars, recorderVars, replayVars>>

WorkerStep == Work /\ Outside /\ UNCHANGED <<outsideVars, replayVars>>
LoaderStep == Load /\ Outside /\ UNCHANGED <<outsideVars, recorderVars>>

-----------------------------------------------------------------------------
Init ==
    /\ RecorderInit
    /\ ReplayInit
    /\ pc = "top" /\ budget = Batch
    /\ commands = << >> /\ deferred = << >> /\ outcomes = [id \in Ids |-> "open"]
    /\ stopping = FALSE /\ shutdown = "none"
    /\ reason = "none" /\ eof = "none" /\ closed = 0
    /\ exitStatus = "none" /\ cleanup = FALSE /\ exitFailure = FALSE
    /\ process = [child |-> "running", stdout |-> "open", stderr |-> "open",
                  stdin |-> "open", writer |-> TRUE, condemned |-> FALSE]
    /\ waiting = FALSE /\ cancel = FALSE /\ events = << >>

Step == \/ PollRecorder \/ BeginIteration
        \/ TakeEvent \/ EndEvents
        \/ AwaitPipes \/ Drained \/ WaitFails \/ StillRunning
        \/ Refuse \/ SendDeferred \/ EndDeferred
        \/ TakeOperation \/ Accept \/ EndInput
        \/ SubmitPlan \/ SubmitExhausted \/ EndPlan
        \/ EndReplayAndRecorder \/ DrainRecorder \/ FinishSession

\* The threads of an ended session come to rest.
Rest == pc = "done" /\ UNCHANGED vars

Next == \/ Step
        \/ Submit \/ ReceiveEvent \/ Cancel \/ ChildExits \/ WriterBreaks \/ DeadlinePasses
        \/ WorkerStep \/ LoaderStep
        \/ Rest

(***************************************************************************)
(* The coordinator thread runs: batches are finite, so it leaves events    *)
(* and input, and every other segment by what it has to do there.  The     *)
(* worker and the loader threads run, file operations return, and the      *)
(* pipes of a dead process group close.                                    *)
(***************************************************************************)
Leaves == \/ BeginIteration \/ EndEvents \/ AwaitPipes \/ Drained \/ StillRunning
          \/ Refuse \/ SendDeferred \/ EndDeferred \/ TakeOperation \/ Accept \/ EndInput
          \/ SubmitPlan \/ SubmitExhausted \/ EndPlan
          \/ EndReplayAndRecorder \/ DrainRecorder \/ FinishSession

DeadPipeCloses ==
    \E pipe \in {"stdout", "stderr"} : process.child # "running" /\ TakeClosed(pipe)

ThreadFairness ==
    /\ WF_vars(Leaves)
    /\ SF_vars(PollRecorder)
    /\ WF_vars(WorkerStep)
    /\ WF_vars(LoaderStep)

CoordinatorFairness ==
    /\ ThreadFairness
    /\ SF_vars(DeadPipeCloses)
    /\ SF_vars(TakeWriterFailed)
    /\ SF_vars(TakeOperation)
    /\ WF_vars(DeadlinePasses)

SafetySpec == Init /\ [][Next]_vars
Spec       == SafetySpec /\ CoordinatorFairness

\* The threads run, and the game answers what it was sent.
GameSpec == SafetySpec /\ ThreadFairness /\ SF_vars(TakeResponse)

-----------------------------------------------------------------------------
(* Properties *)

AcceptedIds == 1 .. Len(commands)
Ended == pc = "done"

(***************************************************************************)
(* Who keeps an accepted command: the game, the deferred queue, the        *)
(* recorder's transition, or the replay engine, as the start of its run, a *)
(* waiting stop, or a notice not yet taken.                                *)
(***************************************************************************)
Holders(id) ==
    Cardinality(active \cap {id})
      + Cardinality({i \in DOMAIN deferred : deferred[i] = id})
      + (IF recorder.id = id THEN 1 ELSE 0)
      + (IF replay.run.start = id THEN 1 ELSE 0)
      + Cardinality({i \in DOMAIN replay.run.stops : replay.run.stops[i] = id})
      + Cardinality({i \in DOMAIN replay.notices : replay.notices[i].id = id})

(***************************************************************************)
(* No accepted command is lost, and none is settled twice: while it is     *)
(* open exactly one part of the session keeps it, and once it is settled   *)
(* none does.  Every path that drops, hands on or answers a command, in    *)
(* any order of failures, keeps this balance.                              *)
(***************************************************************************)
OneHolder ==
    \A id \in AcceptedIds : Holders(id) = IF outcomes[id] = "open" THEN 1 ELSE 0

(***************************************************************************)
(* The client sees a session that keeps its contract: each command settled *)
(* once and only after its acceptance, the shutdown last; events within    *)
(* their bound, and Ended in a place of its own behind all of them.        *)
(***************************************************************************)
Contract == INSTANCE SessionContract
                WITH accepted <- Len(commands), outcome <- outcomes, ended <- Ended

KeepsContract == Contract!Spec

(***************************************************************************)
(* A successful shutdown is a clean one: the game confirmed it and exited  *)
(* with success, both pipes were drained, and no other end reason came in. *)
(***************************************************************************)
CleanShutdown ==
    outcomes[LastId] = "ok" =>
        /\ shutdown = "ok" /\ exitStatus = "success" /\ closed = 2
        /\ reason = "none" /\ ~exitFailure

(***************************************************************************)
(* After the first EOF nothing is accepted and nothing goes to the game,   *)
(* and no command ever goes to a writer that terminate() took away, whose  *)
(* unwrap() would panic (coordinator.rs:254-293, 306, 521).                *)
(***************************************************************************)
EofStopsWork ==
    [][/\ eof # "none" => UNCHANGED <<commands, wire, deferred>>
       /\ wire' # wire => process.writer]_vars

(***************************************************************************)
(* The end of a process the coordinator killed, or was told to shut down,  *)
(* is not reported as a failure of that process; nor is that of one which  *)
(* the coordinator had decided to end, and which exited by itself before   *)
(* the kill.                                                               *)
(***************************************************************************)
OwnKillIsNoFailure ==
    exitFailure => process.child # "killed" /\ ~process.condemned /\ ~stopping

(***************************************************************************)
(* What a finished recording contains is what went to the game between its *)
(* start and its stop: commands accepted while the file was being created  *)
(* are in it, commands accepted while it was being closed are not.         *)
(***************************************************************************)
SectionIsWireInterval ==
    \A s \in DOMAIN recorder.sections :
        LET section == recorder.sections[s] IN
        section.stop # 0 =>
            \E before \in 0 .. Len(wire) - Len(section.sent) :
                /\ \A i \in DOMAIN section.sent : section.sent[i].id = wire[before + i]
                /\ \A n \in DOMAIN wire :
                      section.start < wire[n] /\ wire[n] < section.stop
                        <=> n \in before + 1 .. before + Len(section.sent)

(***************************************************************************)
(* The session ends: any end reason, cancellation, an exited game or an    *)
(* EOF leads to the end, where every waiter is released.                   *)
(***************************************************************************)
SessionEnds ==
    (reason # "none" \/ cancel \/ eof # "none" \/ process.child # "running") ~> Ended

\* A submitter is never left waiting for its reply.
SubmitReturns == waiting ~> ~waiting

(***************************************************************************)
(* Transitions of a recording, the deferred queue and a replay wait for    *)
(* one another, and for the game; yet whatever is open, the session comes  *)
(* to a point where every accepted command is settled, or ends.  A settled *)
(* command stays settled and a run has finitely many ids, so this says as  *)
(* much as that none of its commands is open for ever.                     *)
(***************************************************************************)
AcceptedSettles ==
    (\E id \in AcceptedIds : outcomes[id] = "open")
        ~> ((\A id \in AcceptedIds : outcomes[id] # "open") \/ Ended)
=============================================================================
