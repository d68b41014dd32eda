-------------------------- MODULE CoordinatorProofs --------------------------
(***************************************************************************)
(* The coordinator, for every number of commands, every fault of the game, *)
(* its process and the disk, and every interleaving of the threads: its    *)
(* own kill is no failure, what the game closes ends its work, and every   *)
(* step of it is a step, or none, of the recorder and of the replay        *)
(* engine, so that all that is proved of those two holds within it; a      *)
(* recording is an interval of what went to the game; and a session loses  *)
(* no command and keeps its contract.                                      *)
(*                                                                         *)
(* Alive says what a dead or dying process leaves allowed.  Links relates  *)
(* what the three know of the same commands, which makes the coordinator   *)
(* call the recorder and the replay engine only as they expect.  Sectioned *)
(* and Ahead relate the wire, the recordings and what waits to be sent.    *)
(***************************************************************************)
EXTENDS Coordinator, RecorderProofs, ReplayProofs

-----------------------------------------------------------------------------
(* The life of the process *)

Processes == [child  : {"running", "killed", "success", "failure"},
              stdout : {"open", "closed", "failed"},
              stderr : {"open", "closed", "failed"},
              stdin  : {"open", "broken", "gone"},
              writer : BOOLEAN, condemned : BOOLEAN]

\* Where in its loop the coordinator hands commands on, and where it has left the loop.
Works == pc \in {"deferred", "input", "accept", "plan"}
Over  == pc \in {"drain", "done"}
AtEnd == pc = "end" \/ Over

(***************************************************************************)
(* Commands are handed on only while nothing has gone wrong; the writer is *)
(* taken away, and the child killed, only for a reason that keeps the loop *)
(* from doing so again.                                                    *)
(***************************************************************************)
Alive ==
    /\ process \in Processes
    /\ Works => eof = "none" /\ reason = "none" /\ exitStatus = "none" /\ process.writer
    /\ ~process.writer => reason # "none" \/ exitStatus # "none" \/ Over
    /\ exitStatus # "none" => process.child # "running"
    /\ process.child = "killed" => cleanup \/ Over
    /\ process.condemned => cleanup
    /\ exitFailure => /\ AtEnd /\ process.child \notin {"running", "killed"}
                      /\ ~process.condemned /\ ~stopping

LEMMA TerminatedIs ==
    ASSUME NEW p \in Processes
    PROVE  /\ Terminated(p) \in Processes
           /\ ~Terminated(p).writer
           /\ Terminated(p).condemned = p.condemned
           /\ Terminated(p).child = IF p.child = "running" THEN "killed" ELSE p.child
BY DEF Terminated, Processes

\* A running child may exit, and only a running one is condemned.
LEMMA ExitsIs ==
    ASSUME process \in Processes, NEW before \in {process} \cup Exits
    PROVE  /\ before \in Processes
           /\ before.writer = process.writer /\ before.condemned = process.condemned
           /\ before.child # process.child =>
                process.child = "running" /\ before.child \in {"success", "failure"}
           /\ Condemned(before) \in Processes
           /\ ~Condemned(before).writer
           /\ Condemned(before).condemned =
                (process.condemned \/ process.child = "running")
           /\ Condemned(before).child = IF before.child = "running" THEN "killed"
                                        ELSE before.child
<1>1. /\ before \in Processes
      /\ before.writer = process.writer /\ before.condemned = process.condemned
      /\ before.child # process.child =>
           process.child = "running" /\ before.child \in {"success", "failure"}
  BY DEF Exits, Processes
<1>2. /\ Terminated(before) \in Processes
      /\ ~Terminated(before).writer
      /\ Terminated(before).condemned = process.condemned
      /\ Terminated(before).child = IF before.child = "running" THEN "killed" ELSE before.child
  BY <1>1, TerminatedIs
<1>3. /\ Condemned(before) \in Processes
      /\ Condemned(before).writer = Terminated(before).writer
      /\ Condemned(before).child = Terminated(before).child
      /\ Condemned(before).condemned =
           (Terminated(before).condemned \/ process.child = "running")
  BY <1>2 DEF Condemned, Processes
<1> QED
  BY <1>1, <1>2, <1>3

\* push_event() sets an end reason at most, and takes none back.
LEMMA PushesIs ==
    /\ ReasonAfterPush = reason \/ ReasonAfterPush = "overflow"
    /\ reason # "none" => ReasonAfterPush = reason
BY DEF ReasonAfterPush

\* The actions that hand commands on, or refuse them.
Hands == \/ SendDeferred \/ EndDeferred
         \/ TakeOperation \/ Accept \/ EndInput
         \/ SubmitPlan \/ SubmitExhausted \/ EndPlan

\* They start and end in the working part of the loop, or leave it for the top.
LEMMA HandsIs ==
    ASSUME Hands
    PROVE  /\ Works /\ pc' \in {"deferred", "input", "accept", "plan", "top"}
           /\ reason' = reason \/ (reason' = "transport_closed" /\ pc' = "top")
           /\ stopping' = stopping \/ ~stopping
           /\ UNCHANGED <<shutdown, eof, closed, exitStatus, cleanup, exitFailure,
                          process, cancel>>
<1>. USE DEF Works, outsideVars, endVars, stopVars, loopVars, acceptVars, SendsGame, SendGameFails
<1>1. CASE SendDeferred
  BY <1>1 DEF SendDeferred, MaySendDeferred
<1>2. CASE EndDeferred
  BY <1>2 DEF EndDeferred
<1>3. CASE TakeOperation
  BY <1>3 DEF TakeOperation
<1>4. CASE Accept
  <2>. USE DEF Accepts, Replies, Untouched
  <2>1. CASE RefuseOperation
    BY <2>1 DEF RefuseOperation
  <2>2. CASE AcceptShutdown
    BY <2>2 DEF AcceptShutdown
  <2>3. CASE AcceptReplayControl
    BY <2>3 DEF AcceptReplayControl
  <2>4. CASE AcceptDuringReplay
    BY <2>4 DEF AcceptDuringReplay
  <2>5. CASE AcceptRecordControl
    BY <2>5 DEF AcceptRecordControl
  <2>6. CASE AcceptDeferred
    BY <2>6 DEF AcceptDeferred
  <2>7. CASE AcceptSend
    BY <2>7 DEF AcceptSend
  <2> QED
    BY <1>4, <2>1, <2>2, <2>3, <2>4, <2>5, <2>6, <2>7 DEF Accept
<1>5. CASE EndInput
  BY <1>5 DEF EndInput
<1>6. CASE SubmitPlan
  BY <1>6 DEF SubmitPlan, MaySubmit
<1>7. CASE SubmitExhausted
  BY <1>7 DEF SubmitExhausted, MaySubmit
<1>8. CASE EndPlan
  BY <1>8 DEF EndPlan
<1> QED
  BY <1>1, <1>2, <1>3, <1>4, <1>5, <1>6, <1>7, <1>8 DEF Hands

LEMMA AliveInit == Init => Alive
BY DEF Init, Alive, Processes, Works, Over, AtEnd

LEMMA AliveStep == Alive /\ [Next]_vars => Alive'
<1>. SUFFICES ASSUME Alive, [Next]_vars PROVE Alive'
  OBVIOUS
<1>. USE DEF Works, Over, AtEnd, loopVars, stopVars, endVars, outsideVars
<1>1. CASE Hands
  <2>1. process' \in Processes
    BY <1>1, HandsIs DEF Alive
  <2> QED
    BY <1>1, <2>1, HandsIs DEF Alive
<1>2. CASE PollRecorder \/ DrainRecorder
  <2>1. /\ reason' = reason \/ reason' = ReasonAfterPush
        /\ UNCHANGED <<pc, stopVars, eof, closed, exitStatus, cleanup, exitFailure, process>>
        /\ ~Works
    BY <1>2 DEF PollRecorder, DrainRecorder, TakeReply, Pushes
  <2> QED
    BY <2>1, PushesIs DEF Alive
<1>3. CASE BeginIteration
  BY <1>3 DEF BeginIteration, Alive
<1>4. CASE TakeEvent
  <2>1. CASE TakeResponse \/ TakeShutdownResponse
    BY <2>1 DEF TakeResponse, TakeShutdownResponse, Alive
  <2>2. CASE TakeNoise
    <3>1. /\ reason' = ReasonAfterPush /\ pc = "events"
          /\ UNCHANGED <<pc, stopVars, eof, closed, exitStatus, cleanup, exitFailure, process>>
      BY <2>2 DEF TakeNoise, Pushes
    <3> QED
      BY <3>1, PushesIs DEF Alive
  <2>3. CASE TakeWriterFailed
    <3>1. process' = [process EXCEPT !.stdin = "gone"]
      BY <2>3 DEF TakeWriterFailed
    <3>2. /\ process' \in Processes /\ process'.child = process.child
          /\ process'.writer = process.writer /\ process'.condemned = process.condemned
      BY <3>1 DEF Alive, Processes
    <3> QED
      BY <2>3, <3>2 DEF TakeWriterFailed, OrReason, Alive
  <2>4. ASSUME NEW pipe \in {"stdout", "stderr"}, TakeClosed(pipe) PROVE Alive'
    <3>1. process' = [process EXCEPT ![pipe] = "closed"]
      BY <2>4 DEF TakeClosed
    <3>2. /\ process' \in Processes /\ process'.child = process.child
          /\ process'.writer = process.writer /\ process'.condemned = process.condemned
      BY <3>1 DEF Alive, Processes
    <3>3. /\ reason' = reason \/ reason' = ReasonAfterPush
          /\ pc = "events" /\ UNCHANGED <<pc, stopVars, exitStatus, cleanup, exitFailure>>
      BY <2>4 DEF TakeClosed, Pushes
    <3> QED
      BY <2>4, <3>2, <3>3, PushesIs DEF TakeClosed, Alive
  <2>5. ASSUME NEW pipe \in {"stdout", "stderr"}, TakeReaderFailed(pipe) PROVE Alive'
    <3>1. process' = [process EXCEPT ![pipe] = "failed"]
      BY <2>5 DEF TakeReaderFailed
    <3>2. /\ process' \in Processes /\ process'.child = process.child
          /\ process'.writer = process.writer /\ process'.condemned = process.condemned
      BY <3>1 DEF Alive, Processes
    <3> QED
      BY <2>5, <3>2 DEF TakeReaderFailed, OrReason, Alive
  <2> QED
    BY <1>4, <2>1, <2>2, <2>3, <2>4, <2>5 DEF TakeEvent
<1>5. CASE EndEvents
  <2>1. CASE ShutdownFailed
    BY <1>5, <2>1 DEF EndEvents, Alive
  <2>2. CASE ~ShutdownFailed
    <3>1. PICK before \in {process} \cup Exits :
            LET running == process.child = "running" /\ exitStatus = "none"
                expires == eof = "late" /\ running
                ends    == exitStatus = "none" /\ (expires \/ reason # "none")
            IN  /\ pc' = "exit"
                /\ reason' = IF expires THEN OrReason("transport_closed") ELSE reason
                /\ cleanup' = (cleanup \/ (ends /\ CommitsCleanup(before)))
                /\ process' = IF ends THEN Condemned(before) ELSE process
      BY <1>5, <2>2 DEF EndEvents
    <3>2. pc = "events" /\ UNCHANGED <<stopping, eof, closed, exitStatus, exitFailure>>
      BY <1>5 DEF EndEvents
    <3>3. process \in Processes
      BY DEF Alive
    <3> QED
      BY <3>1, <3>2, <3>3, ExitsIs DEF CommitsCleanup, OrReason, Alive
  <2> QED
    BY <2>1, <2>2
<1>6. CASE AwaitPipes
  BY <1>6, TerminatedIs DEF AwaitPipes, HasExited, StatusNow, Alive
<1>7. CASE Drained
  <2>1. /\ pc = "exit" /\ pc' = "end" /\ exitStatus' # "none"
        /\ exitStatus = "none" => process.child # "running"
        /\ process' = Terminated(process) /\ UNCHANGED <<stopping, cleanup>>
        /\ exitFailure' => ~stopping /\ ~cleanup
    BY <1>7 DEF Drained, HasExited, StatusNow, ReportsExit
  <2> QED
    BY <2>1, TerminatedIs DEF Alive
<1>8. CASE WaitFails
  BY <1>8 DEF WaitFails, Alive
<1>9. CASE StillRunning
  BY <1>9 DEF StillRunning, AfterExit, HasExited, Alive
<1>10. CASE Refuse
  BY <1>10 DEF Refuse, Alive
<1>11. CASE EndReplayAndRecorder
  <2>1. /\ pc = "end" /\ pc' = "drain" /\ process' = Terminated(process)
        /\ UNCHANGED <<stopping, eof, closed, exitStatus, cleanup, exitFailure>>
    BY <1>11 DEF EndReplayAndRecorder
  <2> QED
    BY <2>1, TerminatedIs DEF Alive
<1>12. CASE FinishSession
  BY <1>12 DEF FinishSession, Alive
<1>13. CASE Submit \/ ReceiveEvent \/ Cancel
  BY <1>13 DEF Submit, ReceiveEvent, Cancel, Outside, Alive
<1>14. CASE ChildExits
  <2>1. PICK status \in {"success", "failure"} : process' = [process EXCEPT !.child = status]
    BY <1>14 DEF ChildExits, Exits
  <2>2. /\ process' \in Processes /\ process'.child = status
        /\ process'.writer = process.writer /\ process'.condemned = process.condemned
    BY <2>1 DEF Alive, Processes
  <2> QED
    BY <1>14, <2>2 DEF ChildExits, Outside, Alive
<1>15. CASE WriterBreaks
  <2>1. process' = [process EXCEPT !.stdin = "broken"]
    BY <1>15 DEF WriterBreaks
  <2>2. /\ process' \in Processes /\ process'.child = process.child
        /\ process'.writer = process.writer /\ process'.condemned = process.condemned
    BY <2>1 DEF Alive, Processes
  <2> QED
    BY <1>15, <2>2 DEF WriterBreaks, Outside, Alive
<1>16. CASE DeadlinePasses
  BY <1>16 DEF DeadlinePasses, Alive
<1>17. CASE WorkerStep \/ LoaderStep
  BY <1>17 DEF WorkerStep, LoaderStep, Outside, Alive
<1>18. CASE UNCHANGED vars
  BY <1>18 DEF vars, Alive
<1> QED
  BY <1>1, <1>2, <1>3, <1>4, <1>5, <1>6, <1>7, <1>8, <1>9, <1>10, <1>11, <1>12, <1>13,
     <1>14, <1>15, <1>16, <1>17, <1>18 DEF Next, Step, Hands, Rest

(***************************************************************************)
(* The process the coordinator killed, or told to shut down, is never      *)
(* reported as one that failed, whichever of the exit, the closed pipes    *)
(* and the deadline the coordinator sees first.                            *)
(***************************************************************************)
THEOREM OwnKillIsNotReported == SafetySpec => []OwnKillIsNoFailure
<1>1. Alive => OwnKillIsNoFailure
  BY DEF Alive, OwnKillIsNoFailure
<1> QED
  BY <1>1, AliveInit, AliveStep, PTL DEF SafetySpec

-----------------------------------------------------------------------------
(* The actions that touch neither the commands nor the parts that keep them *)

Aside == \/ BeginIteration \/ TakeNoise \/ TakeWriterFailed
         \/ (\E pipe \in {"stdout", "stderr"} : TakeClosed(pipe) \/ TakeReaderFailed(pipe))
         \/ EndEvents \/ AwaitPipes \/ Drained \/ WaitFails \/ StillRunning \/ Refuse
         \/ EndInput \/ EndPlan \/ RefuseOperation
         \/ Submit \/ ReceiveEvent \/ Cancel \/ ChildExits \/ WriterBreaks \/ DeadlinePasses

LEMMA AsideIs ==
    ASSUME Aside \/ UNCHANGED vars
    PROVE  /\ UNCHANGED <<acceptVars, stopping, baseVars, recorderVars, replayVars>>
           /\ Over' <=> Over
<1>. USE DEF Over, loopVars, acceptVars, stopVars, endVars, outsideVars
<1>1. CASE BeginIteration \/ TakeNoise \/ TakeWriterFailed
  BY <1>1 DEF BeginIteration, TakeNoise, TakeWriterFailed
<1>2. ASSUME NEW pipe, TakeClosed(pipe) \/ TakeReaderFailed(pipe)
      PROVE  /\ UNCHANGED <<acceptVars, stopping, baseVars, recorderVars, replayVars>>
             /\ Over' <=> Over
  BY <1>2 DEF TakeClosed, TakeReaderFailed
<1>3. CASE EndEvents \/ AwaitPipes \/ Drained \/ WaitFails \/ StillRunning \/ Refuse
  BY <1>3 DEF EndEvents, AwaitPipes, Drained, WaitFails, StillRunning, AfterExit, Refuse
<1>4. CASE EndInput \/ EndPlan \/ RefuseOperation
  BY <1>4 DEF EndInput, EndPlan, RefuseOperation, Replies, Untouched, recorderVars, replayVars
<1>5. CASE Submit \/ ReceiveEvent \/ Cancel \/ ChildExits \/ WriterBreaks
  BY <1>5 DEF Submit, ReceiveEvent, Cancel, ChildExits, WriterBreaks, Outside
<1>6. CASE DeadlinePasses
  BY <1>6 DEF DeadlinePasses
<1>7. CASE UNCHANGED vars
  BY <1>7 DEF vars
<1> QED
  BY <1>1, <1>2, <1>3, <1>4, <1>5, <1>6, <1>7 DEF Aside

\* Every other step.
Touches ==
    \/ PollRecorder \/ DrainRecorder
    \/ TakeResponse \/ TakeShutdownResponse
    \/ SendDeferred \/ EndDeferred \/ TakeOperation
    \/ AcceptShutdown \/ AcceptReplayControl \/ AcceptDuringReplay
    \/ AcceptRecordControl \/ AcceptDeferred \/ AcceptSend
    \/ SubmitPlan \/ SubmitExhausted
    \/ EndReplayAndRecorder \/ FinishSession
    \/ WorkerStep \/ LoaderStep

LEMMA StepIs == [Next]_vars => Aside \/ UNCHANGED vars \/ Touches
BY DEF Next, Step, TakeEvent, Accept, Rest, Aside, Touches

(***************************************************************************)
(* From the first end of a pipe on nothing is accepted, nothing waits and  *)
(* nothing goes to the game, and what goes to the game finds the writer    *)
(* that terminate() takes away.                                            *)
(***************************************************************************)
THEOREM EofEndsTheWork == SafetySpec => EofStopsWork
<1>. DEFINE Stops == /\ eof # "none" => UNCHANGED <<commands, wire, deferred>>
                     /\ wire' # wire => process.writer
<1>1. ASSUME Alive, [Next]_vars PROVE Stops
  <2>1. CASE Aside \/ UNCHANGED vars
    BY <2>1, AsideIs DEF acceptVars, baseVars
  <2>2. CASE Hands
    BY <1>1, <2>2, HandsIs DEF Alive
  <2>3. CASE Touches /\ ~Hands
    BY <2>3 DEF Touches, Hands, Accept, PollRecorder, DrainRecorder, TakeReply, TakeResponse,
       TakeShutdownResponse, EndReplayAndRecorder, FinishSession, WorkerStep, LoaderStep,
       Outside, acceptVars, baseVars
  <2> QED
    BY <1>1, <2>1, <2>2, <2>3, StepIs
<1>2. ASSUME Alive, [Next]_vars PROVE [Stops]_vars
  BY <1>1, <1>2
<1> QED
  BY <1>2, AliveInit, AliveStep, PTL DEF SafetySpec, EofStopsWork

-----------------------------------------------------------------------------
(***************************************************************************)
(* What relates the coordinator to the recorder and to the replay: without *)
(* it the coordinator could not be shown to be the caller that             *)
(* RecorderSpec and ReplaySpec allow.                                      *)
(***************************************************************************)
AcceptTypes ==
    /\ commands \in Seq(Kinds) /\ Len(commands) < LastId
    /\ deferred \in Seq(NormalIds)
    /\ stopping \in BOOLEAN

\* What is on the wire was accepted; what waits to go there is younger, in order.
Ordered ==
    /\ \A n \in 1 .. Len(wire) : wire[n] <= Len(commands) \/ (stopping /\ wire[n] = LastId)
    /\ \A i \in 1 .. Len(deferred) :
          /\ deferred[i] \in 1 .. Len(commands)
          /\ commands[deferred[i]] \in GameKinds
          /\ \A n \in 1 .. Len(wire) : wire[n] < deferred[i]
          /\ \A j \in 1 .. Len(deferred) : i < j => deferred[i] < deferred[j]

\* That command was sent during none of the recordings.
Lacks(r, id) ==
    \A s \in 1 .. Len(r.sections) :
        \A i \in 1 .. Len(r.sections[s].sent) : r.sections[s].sent[i].id # id

\* The recordings of a recorder were stopped by accepted commands.
StoppedBefore(r, accepted) ==
    \A s \in 1 .. Len(r.sections) : r.sections[s].stop <= accepted

RecorderKnows ==
    /\ recorder.id <= Len(commands)
    /\ recorder.id # 0 => commands[recorder.id] \in RecordKinds
    /\ \A f \in 1 .. Len(files) : files[f].path <= Len(commands)
    /\ StoppedBefore(recorder, Len(commands))
    /\ Lacks(recorder, LastId)
    /\ recorder.over <=> Over

\* The replay has answered, and keeps, its own commands only, and while commands
\* wait for a transition its run has submitted nothing.
ReplayKnows ==
    /\ \A id \in ControlIds(replay) :
          id # 0 => id \in 1 .. Len(commands) /\ commands[id] \in ReplayKinds
    /\ deferred # << >> => replay.run.submitted = << >>

\* A session that shuts down does nothing else.
StopsAlone ==
    stopping => /\ deferred = << >> /\ recorder.state = "idle" /\ ~IsBusy(replay)
                /\ active \subseteq {LastId}

Links == AcceptTypes /\ Ordered /\ RecorderKnows /\ ReplayKnows /\ StopsAlone

\* The invariants of the recorder and of the replay.
Parts == /\ RecorderTypeOK /\ Protocol /\ Filed
         /\ IInv /\ WarpInv /\ OnceInv

-----------------------------------------------------------------------------
(* Calls that change nothing *)

\* The shutdown is not recorded, and its answer finds no entry.
LEMMA UnrecordedIs ==
    ASSUME NEW r \in Recorders, NEW id \in Ids
    PROVE  Record(r, id, "shutdown") = r
BY DEF Record, IsRecordable

LEMMA AnsweredLength ==
    ASSUME NEW entries \in Seq(Entries), NEW id \in Ids, NEW outcome \in Settled
    PROVE  /\ Answered(entries, id, outcome) \in Seq(Entries)
           /\ Len(Answered(entries, id, outcome)) = Len(entries)
BY AnsweredIs

LEMMA NoEntryAnswered ==
    ASSUME NEW r \in Recorders, NEW id \in Ids, NEW outcome \in Settled,
           Len(r.entries) = 0, Lacks(r, id)
    PROVE  Terminal(r, id, outcome) = r
<1>. DEFINE q       == Terminal(r, id, outcome)
            entries == Answered(r.entries, id, outcome)
            n       == ReadyCount(entries)
<1>1. /\ q.state = r.state /\ q.id = r.id /\ q.path = r.path /\ q.over = r.over
      /\ q.lost = r.lost
      /\ q.sections = Witnessed(r.sections, id, outcome)
      /\ q.entries = SubSeq(entries, n + 1, Len(entries))
      /\ n # 0 \/ q.operations = r.operations
  BY TerminalIs
<1>2. q \in Recorders
  BY TerminalType
<1>3. entries \in Seq(Entries) /\ Len(entries) = 0
  <2>1. r.entries \in Seq(Entries)
    BY DEF Recorders
  <2>2. /\ Answered(r.entries, id, outcome) \in Seq(Entries)
        /\ Len(Answered(r.entries, id, outcome)) = Len(r.entries)
    BY <2>1, AnsweredLength
  <2> QED
    BY <2>2
<1>. Lacks(r, id)
  OBVIOUS
<1>4. n = 0
  BY <1>3, ReadyCountIs
<1>. HIDE DEF q, n, entries
<1>5. q.entries = << >>
  <2>1. q.entries \in Seq(Entries) /\ Len(q.entries) = 0
    BY <1>1, <1>3, <1>4, FlushIs
  <2> QED
    BY <2>1
<1>6. q.sections = r.sections
  <2>. DEFINE sections == r.sections
              new == Witnessed(sections, id, outcome)
  <2>1. sections \in Seq(Sections)
    BY DEF Recorders
  <2>2. /\ new \in Seq(Sections) /\ Len(new) = Len(sections)
        /\ \A s \in 1 .. Len(sections) :
              /\ new[s].start = sections[s].start /\ new[s].stop = sections[s].stop
              /\ new[s].sent = Answered(sections[s].sent, id, outcome)
    BY <2>1, WitnessedType
  <2>. HIDE DEF new
  <2>3. ASSUME NEW s \in 1 .. Len(sections) PROVE new[s] = sections[s]
    <3>1. sections[s] \in Sections /\ new[s] \in Sections
      BY <2>1, <2>2
    <3>2. sections[s].sent \in Seq(Entries)
      BY <3>1 DEF Sections
    <3>3. new[s].sent = sections[s].sent
      BY <2>2, <3>2, AnsweredSame DEF Lacks
    <3>4. new[s].start = sections[s].start /\ new[s].stop = sections[s].stop
      BY <2>2
    <3>. HIDE DEF sections
    <3> QED
      BY <3>1, <3>3, <3>4 DEF Sections
  <2>4. new = sections
    BY <2>1, <2>2, <2>3
  <2> QED
    BY <1>1, <2>4 DEF new
<1>7. q = r
  BY SMTT(30), <1>1, <1>2, <1>4, <1>5, <1>6 DEF Recorders
<1> QED
  BY <1>7 DEF q

\* A replayed or external command is recorded alike.
LEMMA GameRecorded ==
    ASSUME NEW r, NEW id, NEW kind \in GameKinds
    PROVE  Record(r, id, kind) = Record(r, id, "game")
BY DEF Record, IsRecordable, GameKinds, RecordKinds, ReplayKinds

\* The replay has nothing to do with a command it did not submit.
LEMMA NotOfTheRun ==
    ASSUME NEW p, NEW id, NEW outcome, id \notin p.run.pending
    PROVE  RunTerminal(p, id, outcome) = p
BY DEF RunTerminal

-----------------------------------------------------------------------------
(* Each action of the coordinator as the calls it makes *)

\* The id of the next command is new to the wire and to the replay.
LEMMA NextIdIs ==
    ASSUME AcceptTypes, Ordered, ReplayKnows, wire \in Seq(Ids), ~stopping
    PROVE  FreshId(NextId) /\ OnlyOnWire(NextId) /\ NextOnWire(NextId)
<1>1. Len(commands) \in Nat /\ NextId = Len(commands) + 1
  BY DEF AcceptTypes, NextId
<1>2. NextOnWire(NextId)
  <2>1. ASSUME NEW i \in DOMAIN wire PROVE wire[i] < NextId
    <3>1. i \in 1 .. Len(wire) /\ wire[i] \in Ids
      OBVIOUS
    <3>2. wire[i] \in Int
      BY <3>1, LastIdAssumption DEF Ids, NormalIds
    <3>3. wire[i] <= Len(commands)
      BY <3>1 DEF Ordered
    <3> QED
      BY <1>1, <3>2, <3>3
  <2> QED
    BY <2>1 DEF NextOnWire
<1>3. ASSUME NEW used \in ControlIds(replay) PROVE used < NextId
  <2>1. used = 0 \/ used \in 1 .. Len(commands)
    BY DEF ReplayKnows
  <2> QED
    BY <1>1, <2>1
<1>4. NextId \notin ControlIds(replay)
  BY <1>1, <1>3
<1> QED
  BY <1>2, <1>3, <1>4 DEF FreshId, OnlyOnWire

\* A command is accepted, and the kinds of those before it stay.
Grows(kind) ==
    /\ NextId \in NormalIds /\ Len(commands) \in Nat
    /\ commands' \in Seq(Kinds)
    /\ Len(commands') = NextId /\ Len(commands) = NextId - 1
    /\ \A i \in 1 .. Len(commands) : commands'[i] = commands[i]
    /\ commands'[NextId] = kind

LEMMA GrowsIs ==
    ASSUME AcceptTypes, ~Exhausted, NEW kind \in Kinds, commands' = Append(commands, kind)
    PROVE  Grows(kind)
<1>1. Len(commands) \in Nat /\ NextId = Len(commands) + 1 /\ NextId # LastId
  BY DEF AcceptTypes, NextId, Exhausted
<1>2. NextId \in NormalIds
  BY <1>1, LastIdAssumption DEF AcceptTypes, NormalIds
<1>3. /\ commands' \in Seq(Kinds) /\ Len(commands') = Len(commands) + 1
      /\ \A i \in 1 .. Len(commands) : commands'[i] = commands[i]
      /\ commands'[Len(commands) + 1] = kind
  BY AppendProperties DEF AcceptTypes
<1> QED
  BY <1>1, <1>2, <1>3 DEF Grows

LEMMA AcceptsIs ==
    ASSUME AcceptTypes, NEW kind, Accepts(kind)
    PROVE  /\ Grows(kind) /\ kind \in Kinds /\ kind \in Offered
           /\ pc = "accept" /\ ~stopping
<1>1. kind \in Kinds
  BY OfferedAssumption DEF Accepts, Replies
<1> QED
  BY <1>1, GrowsIs DEF Accepts, Replies

\* A command is handed on, or the writer is found gone.
LEMMA HandedOn ==
    ASSUME RecorderKnows, ~Over, ~Transitioning(recorder), UNCHANGED <<worker, files>>,
           NEW id \in Ids, NextOnWire(id), NEW kind
    PROVE  /\ SendsGame(id, kind) => CallSend(id, kind)
           /\ SendGameFails(id, kind) /\ id # LastId => CallSendFailed(id, kind)
BY DEF SendsGame, SendGameFails, CallSend, CallSendFailed, MaySend, RecorderKnows

LEMMA GameHandedOn ==
    ASSUME RecorderKnows, ~Over, ~Transitioning(recorder), UNCHANGED <<worker, files>>,
           NEW id \in NormalIds, NextOnWire(id), NEW kind \in GameKinds
    PROVE  /\ SendsGame(id, kind) => CallSend(id, KindOnWire(id))
           /\ SendGameFails(id, kind) => CallSendFailed(id, KindOnWire(id))
<1>1. id \in Ids /\ id # LastId
  BY LastIdAssumption DEF Ids, NormalIds
<1>2. KindOnWire(id) = "game"
  BY <1>1 DEF KindOnWire
<1>3. /\ SendsGame(id, kind) => CallSend(id, kind)
      /\ SendGameFails(id, kind) => CallSendFailed(id, kind)
  BY <1>1, HandedOn
<1>4. Record(recorder, id, kind) = Record(recorder, id, "game")
  BY GameRecorded
<1> QED
  BY <1>2, <1>3, <1>4 DEF CallSend, CallSendFailed

SendsTo(id) == \/ CallSend(id, KindOnWire(id)) /\ CallExternal(id)
               \/ CallSendFailed(id, KindOnWire(id)) /\ CallExternalFailed(id)

LEMMA TakeReplyIs ==
    ASSUME TakeReply
    PROVE  PollReply /\ UNCHANGED <<replay, loader>>
BY DEF TakeReply, PollReply, replayVars

LEMMA TakeResponseIs ==
    ASSUME RecorderKnows, active \subseteq Ids, TakeResponse
    PROVE  \E id \in Ids \ {LastId}, outcome \in Answers :
              /\ id \in active
              /\ CallTerminal(id, outcome) /\ CallAnswer(id, outcome)
<1>1. PICK id \in active \ {LastId}, outcome \in Answers :
         /\ active' = active \ {id}
         /\ recorder' = Terminal(recorder, id, outcome)
         /\ replay' = RunTerminal(replay, id, outcome)
  BY DEF TakeResponse
<1>2. pc = "events" /\ UNCHANGED <<wire, worker, files, loader>>
  BY DEF TakeResponse
<1>3. CallTerminal(id, outcome) /\ CallAnswer(id, outcome)
  BY <1>1, <1>2 DEF CallTerminal, CallAnswer, RecorderKnows, Over
<1> QED
  BY <1>1, <1>3

\* Nothing of an idle recorder waits for the answer to the shutdown.
LEMMA ShutdownAnswered ==
    ASSUME RecorderTypeOK, Filed, RecorderKnows, recorder.state = "idle",
           NEW outcome \in Settled
    PROVE  Terminal(recorder, LastId, outcome) = recorder
<1>1. recorder \in Recorders /\ LastId \in Ids
  BY DEF RecorderTypeOK, Ids
<1>2. recorder.entries = << >>
  BY NothingBuffered DEF Filed
<1>3. Len(recorder.entries) = 0
  BY <1>2, EmptySeq
<1> QED
  BY <1>1, <1>3, NoEntryAnswered DEF RecorderKnows

\* The shutdown is at the game only after it was accepted.
LEMMA OnlyStopping ==
    ASSUME RecorderTypeOK, Filed, AcceptTypes, Ordered, LastId \in active
    PROVE  stopping
<1>1. PICK n \in 1 .. Len(wire) : wire[n] = LastId
  BY DEF Filed, Witness, OnWire
<1>2. ~(LastId <= Len(commands))
  BY LastIdAssumption DEF AcceptTypes
<1> QED
  BY <1>1, <1>2 DEF Ordered

LEMMA TakeShutdownResponseIs ==
    ASSUME Parts, Links, TakeShutdownResponse
    PROVE  /\ \E outcome \in Answers : CallTerminal(LastId, outcome) /\ CallAnswer(LastId, outcome)
           /\ LastId \in Ids /\ stopping /\ UNCHANGED <<recorder, replay>>
<1>1. PICK outcome \in Answers : shutdown' = outcome
  BY DEF TakeShutdownResponse
<1>2. /\ pc = "events" /\ LastId \in active /\ active' = active \ {LastId}
      /\ UNCHANGED <<wire, recorder, worker, files, replay, loader>>
  BY DEF TakeShutdownResponse, recorderVars, replayVars
<1>3. stopping /\ recorder.state = "idle"
  BY <1>2, OnlyStopping DEF Parts, Links, StopsAlone
<1>4. Terminal(recorder, LastId, outcome) = recorder
  BY <1>3, ShutdownAnswered DEF Parts, Links, Settled
<1>5. LastId \notin replay.run.pending
  <2>1. replay.run.pending \subseteq NormalIds /\ LastId \notin NormalIds
    BY LastIdAssumption DEF Parts, IInv, ReplayTypeOK, Replays, Runs, NormalIds
  <2> QED
    BY <2>1
<1>6. RunTerminal(replay, LastId, outcome) = replay
  BY <1>5, NotOfTheRun
<1>7. CallTerminal(LastId, outcome) /\ CallAnswer(LastId, outcome)
  BY <1>2, <1>4, <1>6 DEF CallTerminal, CallAnswer, Links, RecorderKnows, Over
<1> QED
  BY <1>2, <1>3, <1>7 DEF Ids

\* The first of the commands that wait.
LEMMA FirstDeferred ==
    ASSUME AcceptTypes, Ordered, deferred # << >>
    PROVE  /\ Head(deferred) \in NormalIds /\ Head(deferred) \in 1 .. Len(commands)
           /\ commands[Head(deferred)] \in GameKinds /\ 1 \in 1 .. Len(deferred)
           /\ Head(deferred) = deferred[1]
           /\ \A n \in 1 .. Len(wire) : wire[n] < Head(deferred)
<1>1. 1 \in 1 .. Len(deferred) /\ Head(deferred) = deferred[1] /\ deferred[1] \in NormalIds
  BY DEF AcceptTypes
<1> QED
  BY <1>1 DEF Ordered

LEMMA SendDeferredIs ==
    ASSUME Links, wire \in Seq(Ids), SendDeferred
    PROVE  /\ SendsTo(Head(deferred)) /\ Head(deferred) \in NormalIds
           /\ deferred # << >> /\ deferred' = Tail(deferred)
           /\ wire' = Append(wire, Head(deferred))
           /\ UNCHANGED <<commands, stopping, worker, files, replay, loader>>
<1>. DEFINE id == Head(deferred)
<1>1. /\ pc = "deferred" /\ ~Transitioning(recorder) /\ deferred # << >>
      /\ deferred' = Tail(deferred)
      /\ UNCHANGED <<commands, stopping, worker, files, replay, loader>>
      /\ SendsGame(id, commands[id]) \/ SendGameFails(id, commands[id])
  BY DEF SendDeferred, MaySendDeferred, stopVars, replayVars
<1>2. /\ id \in NormalIds /\ id \in 1 .. Len(commands) /\ commands[id] \in GameKinds
      /\ \A n \in 1 .. Len(wire) : wire[n] < id
  BY <1>1, FirstDeferred DEF Links
<1>. HIDE DEF id
<1>3. NextOnWire(id)
  BY <1>2 DEF NextOnWire
<1>4. ~Over /\ RecorderKnows
  BY <1>1 DEF Over, Links
<1>5. \/ CallSend(id, KindOnWire(id)) /\ SendsGame(id, commands[id])
      \/ CallSendFailed(id, KindOnWire(id)) /\ SendGameFails(id, commands[id])
  BY <1>1, <1>2, <1>3, <1>4, GameHandedOn
<1>6. id \notin ControlIds(replay)
  <2>1. id # 0 /\ commands[id] \notin ReplayKinds
    BY <1>2 DEF NormalIds, GameKinds, ReplayKinds
  <2> QED
    BY <2>1 DEF Links, ReplayKnows
<1>7. replay.run.submitted = << >> /\ OnlyOnWire(id)
  BY <1>1, <1>3, <1>6 DEF Links, ReplayKnows, OnlyOnWire
<1>8. /\ SendsGame(id, commands[id]) => CallExternal(id)
      /\ SendGameFails(id, commands[id]) => CallExternalFailed(id)
      /\ wire' = Append(wire, id)
  BY <1>1, <1>7 DEF SendsGame, SendGameFails, CallExternal, CallExternalFailed, replayVars
<1> QED
  BY <1>1, <1>2, <1>5, <1>8 DEF SendsTo, id

LEMMA AcceptShutdownIs ==
    ASSUME Parts, Links, AcceptShutdown
    PROVE  /\ SendsTo(LastId) /\ LastId \in Ids /\ recorder' = recorder /\ ~stopping /\ stopping'
           /\ wire' = Append(wire, LastId) /\ active' \subseteq {LastId}
           /\ deferred = << >> /\ recorder.state = "idle" /\ ~IsBusy(replay)
           /\ UNCHANGED <<commands, deferred, worker, files, replay, loader>>
<1>1. /\ pc = "accept" /\ ~stopping /\ stopping' /\ ~ShutdownBlocked
      /\ UNCHANGED <<commands, deferred, worker, files, replay, loader>>
      /\ SendsGame(LastId, "shutdown") \/ SendGameFails(LastId, "shutdown")
  BY DEF AcceptShutdown, Replies, acceptVars, replayVars
<1>2. /\ active = {} /\ deferred = << >> /\ recorder.state = "idle" /\ ~IsBusy(replay)
  BY <1>1 DEF ShutdownBlocked, Busy
<1>3. recorder \in Recorders /\ wire \in Seq(Ids) /\ LastId \in Ids /\ "io" \in Settled
  BY DEF Parts, RecorderTypeOK, Ids, Settled
<1>4. /\ Record(recorder, LastId, "shutdown") = recorder
      /\ Terminal(recorder, LastId, "io") = recorder
  BY <1>2, <1>3, UnrecordedIs, ShutdownAnswered DEF Parts, Links
<1>5. /\ wire' = Append(wire, LastId) /\ recorder' = recorder
      /\ \/ active' = active \cup {LastId} /\ SendsGame(LastId, "shutdown")
         \/ active' = active /\ SendGameFails(LastId, "shutdown")
  BY <1>1, <1>4 DEF SendsGame, SendGameFails
<1>6. \A i \in DOMAIN wire : wire[i] < LastId
  <2>1. ASSUME NEW i \in DOMAIN wire PROVE wire[i] < LastId
    <3>1. wire[i] <= Len(commands)
      BY <1>1, <1>3 DEF Links, Ordered
    <3>2. wire[i] \in Int
      BY <1>3, LastIdAssumption DEF Ids, NormalIds
    <3> QED
      BY <3>1, <3>2, LastIdAssumption DEF Links, AcceptTypes
  <2> QED
    BY <2>1
<1>7. LastId \notin ControlIds(replay)
  <2>1. LastId # 0 /\ LastId \notin 1 .. Len(commands)
    BY LastIdAssumption DEF Links, AcceptTypes
  <2> QED
    BY <2>1 DEF Links, ReplayKnows
<1>8. NextOnWire(LastId) /\ OnlyOnWire(LastId) /\ replay.run.submitted = << >>
  BY <1>2, <1>6, <1>7 DEF NextOnWire, OnlyOnWire, Parts, OnceInv, Orderly, NoRun
<1>9. KindOnWire(LastId) = "shutdown" /\ ~recorder.over /\ ~Transitioning(recorder)
  BY <1>1, <1>2 DEF KindOnWire, Links, RecorderKnows, Over, Transitioning
<1>10. SendsTo(LastId)
  BY <1>1, <1>4, <1>5, <1>8, <1>9 DEF SendsTo, CallSend, CallSendFailed, MaySend,
     CallExternal, CallExternalFailed, replayVars
<1> QED
  BY <1>1, <1>2, <1>3, <1>5, <1>10

LEMMA AcceptSendIs ==
    ASSUME Parts, Links, AcceptSend
    PROVE  /\ SendsTo(NextId) /\ NextId \in NormalIds /\ wire' = Append(wire, NextId)
           /\ ~stopping /\ deferred = << >>
           /\ \E kind \in GameKinds : Grows(kind)
           /\ UNCHANGED <<stopping, deferred, worker, files, replay, loader>>
<1>1. PICK kind \in GameKinds :
         /\ Accepts(kind)
         /\ SendsGame(NextId, kind) \/ SendGameFails(NextId, kind)
  BY DEF AcceptSend
<1>2. /\ ~IsBusy(replay) /\ ~Transitioning(recorder) /\ deferred = << >>
      /\ UNCHANGED <<stopping, deferred, worker, files, replay, loader>>
  BY DEF AcceptSend, Replaying, Holds, Untouched, stopVars, replayVars
<1>3. Grows(kind) /\ NextId \in NormalIds /\ pc = "accept" /\ ~stopping
  BY <1>1, AcceptsIs DEF Links, Grows
<1>4. NextOnWire(NextId) /\ OnlyOnWire(NextId)
  BY <1>3, NextIdIs DEF Links, Parts, RecorderTypeOK
<1>5. \/ CallSend(NextId, KindOnWire(NextId)) /\ SendsGame(NextId, kind)
      \/ CallSendFailed(NextId, KindOnWire(NextId)) /\ SendGameFails(NextId, kind)
  BY <1>1, <1>2, <1>3, <1>4, GameHandedOn DEF Links, Over
<1>6. replay.run.submitted = << >>
  BY <1>2 DEF Parts, OnceInv, Orderly, NoRun
<1>7. /\ SendsGame(NextId, kind) => CallExternal(NextId)
      /\ SendGameFails(NextId, kind) => CallExternalFailed(NextId)
      /\ wire' = Append(wire, NextId)
  BY <1>1, <1>2, <1>4, <1>6 DEF SendsGame, SendGameFails, CallExternal, CallExternalFailed,
     replayVars
<1> QED
  BY <1>2, <1>3, <1>5, <1>7 DEF SendsTo

LEMMA AcceptRecordControlIs ==
    ASSUME Parts, Links, AcceptRecordControl
    PROVE  /\ ~stopping
           /\ \E kind \in RecordKinds :
                 /\ Grows(kind)
                 /\ \/ CallControl(NextId, kind, TRUE) \/ CallControl(NextId, kind, FALSE)
                    \/ UNCHANGED <<recorder, worker, files, active, wire>>
           /\ NextId \in NormalIds
           /\ UNCHANGED <<stopping, deferred, active, wire, replay, loader>>
<1>1. PICK kind \in RecordKinds :
         /\ Accepts(kind)
         /\ \/ /\ MayControl(recorder, kind, active # {} \/ deferred # << >>)
               /\ recorder' = Control(recorder, NextId, kind)
            \/ UNCHANGED recorder
  BY DEF AcceptRecordControl
<1>2. UNCHANGED <<stopping, deferred, worker, files, active, wire, replay, loader>>
  BY DEF AcceptRecordControl, Untouched, stopVars, replayVars, baseVars
<1>3. /\ Grows(kind) /\ NextId \in NormalIds /\ pc = "accept" /\ ~stopping
      /\ NextId = Len(commands) + 1 /\ Len(commands) \in Nat
  BY <1>1, AcceptsIs DEF Links, Grows, NextId
<1>4. NextOnWire(NextId)
  BY <1>3, NextIdIs DEF Links, Parts, RecorderTypeOK
<1>5. /\ \A s \in DOMAIN recorder.sections : recorder.sections[s].stop < NextId
      /\ \A f \in DOMAIN files : files[f].path < NextId
  <2>1. recorder.sections \in Seq(Sections) /\ files \in Seq(FileSet)
    BY DEF Parts, RecorderTypeOK, Recorders
  <2>2. ASSUME NEW s \in DOMAIN recorder.sections PROVE recorder.sections[s].stop < NextId
    <3>1. s \in 1 .. Len(recorder.sections) /\ recorder.sections[s] \in Sections
      BY <2>1
    <3>2. recorder.sections[s].stop \in Int
      BY <3>1, LastIdAssumption DEF Sections, Paths
    <3>3. recorder.sections[s].stop <= Len(commands)
      BY <3>1 DEF Links, RecorderKnows, StoppedBefore
    <3> QED
      BY <1>3, <3>2, <3>3
  <2>3. ASSUME NEW f \in DOMAIN files PROVE files[f].path < NextId
    <3>1. f \in 1 .. Len(files) /\ files[f] \in FileSet
      BY <2>1
    <3>2. files[f].path \in Int
      BY <3>1, LastIdAssumption DEF FileSet, Paths
    <3>3. files[f].path <= Len(commands)
      BY <3>1 DEF Links, RecorderKnows
    <3> QED
      BY <1>3, <3>2, <3>3
  <2> QED
    BY <2>2, <2>3
<1>6. CASE UNCHANGED recorder
  BY <1>1, <1>2, <1>3, <1>6
<1>7. CASE /\ MayControl(recorder, kind, active # {} \/ deferred # << >>)
           /\ recorder' = Control(recorder, NextId, kind)
  <2>1. active = {} /\ MayControl(recorder, kind, FALSE)
    BY <1>7 DEF MayControl
  <2>2. CallControl(NextId, kind, FALSE)
    BY <1>2, <1>3, <1>4, <1>5, <1>7, <2>1 DEF CallControl, Links, RecorderKnows, Over, baseVars
  <2> QED
    BY <1>2, <1>3, <2>2
<1> QED
  BY <1>1, <1>6, <1>7

LEMMA AcceptReplayControlIs ==
    ASSUME Parts, Links, AcceptReplayControl
    PROVE  /\ ~stopping
           /\ \E kind \in ReplayKinds : Grows(kind)
           /\ CallReplayStart(NextId) \/ CallReplayStop(NextId)
           /\ NextId \in NormalIds
           /\ UNCHANGED <<stopping, deferred, active, wire, recorder, worker, files>>
<1>1. PICK kind \in ReplayKinds :
         /\ Accepts(kind)
         /\ \/ replay' = ControlStart(replay, NextId) /\ UNCHANGED loader
            \/ replay' = ControlStop(replay, NextId) /\ loader' = Cancelled(replay, loader)
  BY DEF AcceptReplayControl, ReplayKinds
<1>2. UNCHANGED <<stopping, deferred, active, wire, recorder, worker, files>>
  BY DEF AcceptReplayControl, Untouched, stopVars, baseVars
<1>3. Grows(kind) /\ NextId \in NormalIds /\ ~stopping
  BY <1>1, AcceptsIs DEF Links, Grows
<1>4. FreshId(NextId)
  BY <1>3, NextIdIs DEF Links, Parts, RecorderTypeOK
<1> QED
  BY <1>1, <1>2, <1>3, <1>4 DEF CallReplayStart, CallReplayStop, baseVars

LEMMA PollsReplayIs ==
    ASSUME EndDeferred \/ TakeOperation
    PROVE  /\ CallPoll(Transitioning(recorder))
           /\ UNCHANGED <<commands, deferred, stopping, recorder, worker, files, active, wire>>
BY DEF EndDeferred, TakeOperation, PollsReplay, CallPoll, stopVars, recorderVars, baseVars

LEMMA SubmitPlanIs ==
    ASSUME Parts, Links, SubmitPlan
    PROVE  /\ \/ CallSend(NextId, KindOnWire(NextId)) /\ CallNext(NextId)
              \/ CallSendFailed(NextId, KindOnWire(NextId)) /\ CallNextFailed(NextId)
           /\ NextId \in NormalIds /\ wire' = Append(wire, NextId)
           /\ ~stopping /\ deferred = << >>
           /\ \E kind \in GameKinds : Grows(kind)
           /\ UNCHANGED <<stopping, deferred, worker, files, loader>>
<1>. DEFINE kind == NextKind(replay.run)
<1>1. /\ pc = "plan" /\ ~Transitioning(recorder) /\ deferred = << >> /\ Frees /\ ~Exhausted
      /\ commands' = Append(commands, kind)
      /\ UNCHANGED <<stopping, deferred, worker, files, loader>>
      /\ \/ SendsGame(NextId, kind) /\ replay' = FromReplay(NextId)
         \/ SendGameFails(NextId, kind) /\ replay' = RunTerminal(FromReplay(NextId), NextId, "io")
  BY DEF SubmitPlan, MaySubmit, stopVars
<1>2. kind \in GameKinds
  <2>1. replay.run.plan \in Seq(GameKinds)
    BY DEF Parts, IInv, Well, Replays, Runs
  <2>2. IsHalting(replay.run) \/ replay.run.plan # << >>
    BY <1>1 DEF Frees, HaltsWarp, FreesPlan
  <2> QED
    BY <2>1, <2>2 DEF NextKind, GameKinds
<1>. HIDE DEF kind
<1>3. ~stopping
  BY <1>1 DEF Frees, Links, StopsAlone
<1>4. Grows(kind) /\ NextId \in NormalIds
  BY <1>1, <1>2, GrowsIs DEF Links, Kinds, Grows
<1>5. NextOnWire(NextId) /\ FreshId(NextId)
  BY <1>3, NextIdIs DEF Links, Parts, RecorderTypeOK
<1>6. /\ SendsGame(NextId, kind) => CallSend(NextId, KindOnWire(NextId))
      /\ SendGameFails(NextId, kind) => CallSendFailed(NextId, KindOnWire(NextId))
  BY <1>1, <1>2, <1>4, <1>5, GameHandedOn DEF Links, Over
<1>7. wire' = Append(wire, NextId)
  BY <1>1 DEF SendsGame, SendGameFails
<1>8. \/ SendsGame(NextId, kind) /\ CallNext(NextId)
      \/ SendGameFails(NextId, kind) /\ CallNextFailed(NextId)
  BY <1>1, <1>5 DEF SendsGame, SendGameFails, CallNext, CallNextFailed
<1> QED
  BY <1>1, <1>2, <1>3, <1>4, <1>6, <1>7, <1>8

LEMMA SubmitExhaustedIs ==
    ASSUME SubmitExhausted
    PROVE  /\ CallNextExhausted
           /\ UNCHANGED <<commands, deferred, stopping, recorder, worker, files, active, wire>>
BY DEF SubmitExhausted, MaySubmit, CallNextExhausted, acceptVars, stopVars, recorderVars, baseVars

LEMMA EndReplayAndRecorderIs ==
    ASSUME RecorderKnows, EndReplayAndRecorder
    PROVE  /\ CallEnd /\ (CallEndReplay(TRUE) \/ CallEndReplay(FALSE))
           /\ UNCHANGED <<commands, deferred, stopping, worker, files, active, wire>>
BY DEF EndReplayAndRecorder, CallEnd, CallEndReplay, RecorderKnows, Over, stopVars, baseVars

LEMMA ThreadIs ==
    ASSUME WorkerStep \/ LoaderStep
    PROVE  /\ \/ Work /\ UNCHANGED <<replay, loader, baseVars>>
              \/ Load /\ UNCHANGED <<recorder, worker, files, baseVars>>
           /\ UNCHANGED <<commands, deferred, stopping, active, wire, pc>>
BY DEF WorkerStep, LoaderStep, Outside, loopVars, acceptVars, stopVars, recorderVars,
   replayVars, baseVars

LEMMA AcceptDeferredIs ==
    ASSUME Links, AcceptDeferred
    PROVE  /\ \E kind \in GameKinds : Grows(kind)
           /\ ~stopping /\ ~IsBusy(replay) /\ deferred' = Append(deferred, NextId)
           /\ UNCHANGED <<stopping, active, wire, recorder, worker, files, replay, loader>>
<1>1. PICK kind \in GameKinds : Accepts(kind)
  BY DEF AcceptDeferred
<1>2. Grows(kind) /\ ~stopping
  BY <1>1, AcceptsIs DEF Links
<1> QED
  BY <1>2 DEF AcceptDeferred, Replaying, Untouched, stopVars, replayVars, baseVars

LEMMA AcceptDuringReplayIs ==
    ASSUME Links, AcceptDuringReplay
    PROVE  /\ \E kind \in Kinds : Grows(kind)
           /\ ~stopping
           /\ UNCHANGED <<stopping, deferred, active, wire, recorder, worker, files,
                          replay, loader>>
<1>1. PICK kind \in RecordKinds \cup GameKinds : Accepts(kind)
  BY DEF AcceptDuringReplay
<1>2. Grows(kind) /\ ~stopping
  BY <1>1, AcceptsIs DEF Links
<1> QED
  BY <1>2 DEF AcceptDuringReplay, Untouched, stopVars, replayVars, baseVars, Kinds

LEMMA FinishSessionIs ==
    ASSUME FinishSession
    PROVE  /\ Over /\ Over'
           /\ UNCHANGED <<commands, deferred, stopping, active, wire, recorder, worker, files,
                          replay, loader>>
BY DEF FinishSession, Over, stopVars, recorderVars, replayVars, baseVars

(***************************************************************************)
(* Every step of the coordinator is a step of its recorder, or none of the *)
(* recorder's business, and so with its replay.                            *)
(***************************************************************************)
Simulates == /\ [RecorderNext]_<<recorderVars, baseVars>>
             /\ [ReplayNext]_<<replayVars, baseVars>>

\* All of those steps but a control command and the end.
RecorderMoves ==
    \/ \E id \in Ids : \/ CallSend(id, KindOnWire(id))
                       \/ CallSendFailed(id, KindOnWire(id))
                       \/ \E outcome \in Answers : CallTerminal(id, outcome)
    \/ PollReply
    \/ Work /\ UNCHANGED baseVars
    \/ UNCHANGED <<recorder, worker, files, active, wire>>

LEMMA SendsToMoves ==
    ASSUME NEW id \in Ids, SendsTo(id)
    PROVE  RecorderMoves /\ ReplayMoves
BY DEF SendsTo, RecorderMoves, ReplayMoves

LEMMA MovesStep ==
    ASSUME Parts, Links, [Next]_vars,
           ~AcceptRecordControl, ~AcceptReplayControl, ~EndReplayAndRecorder
    PROVE  RecorderMoves /\ ReplayMoves
<1>. USE DEF recorderVars, replayVars, baseVars
<1>0. NormalIds \subseteq Ids /\ active \subseteq Ids /\ wire \in Seq(Ids)
  BY DEF Ids, Parts, RecorderTypeOK
<1>1. CASE Aside \/ UNCHANGED vars
  BY <1>1, AsideIs DEF RecorderMoves, ReplayMoves
<1>2. CASE PollRecorder \/ DrainRecorder
  <2>1. PollReply /\ UNCHANGED <<replay, loader>> /\ UNCHANGED baseVars
    BY <1>2, TakeReplyIs DEF PollRecorder, DrainRecorder, PollReply
  <2> QED
    BY <2>1 DEF RecorderMoves, ReplayMoves
<1>3. CASE TakeResponse
  <2>1. PICK id \in Ids, outcome \in Answers :
           CallTerminal(id, outcome) /\ CallAnswer(id, outcome)
    BY <1>0, <1>3, TakeResponseIs DEF Links
  <2> QED
    BY <2>1 DEF RecorderMoves, ReplayMoves
<1>4. CASE TakeShutdownResponse
  <2>1. PICK id \in Ids, outcome \in Answers :
           CallTerminal(id, outcome) /\ CallAnswer(id, outcome)
    BY <1>4, TakeShutdownResponseIs
  <2> QED
    BY <2>1 DEF RecorderMoves, ReplayMoves
<1>5. CASE SendDeferred
  BY <1>0, <1>5, SendDeferredIs, SendsToMoves
<1>6. CASE EndDeferred \/ TakeOperation
  <2>1. /\ CallPoll(Transitioning(recorder)) /\ Transitioning(recorder) \in BOOLEAN
        /\ UNCHANGED <<recorderVars, baseVars>>
    BY <1>6, PollsReplayIs DEF Transitioning
  <2> QED
    BY <2>1 DEF RecorderMoves, ReplayMoves
<1>7. CASE AcceptShutdown
  BY <1>7, AcceptShutdownIs, SendsToMoves
<1>8. CASE AcceptSend
  BY <1>0, <1>8, AcceptSendIs, SendsToMoves
<1>9. CASE AcceptDeferred
  BY <1>9, AcceptDeferredIs DEF RecorderMoves, ReplayMoves
<1>10. CASE AcceptDuringReplay
  BY <1>10, AcceptDuringReplayIs DEF RecorderMoves, ReplayMoves
<1>11. CASE SubmitPlan
  BY <1>0, <1>11, SubmitPlanIs DEF RecorderMoves, ReplayMoves
<1>12. CASE SubmitExhausted
  BY <1>12, SubmitExhaustedIs DEF RecorderMoves, ReplayMoves
<1>13. CASE FinishSession
  BY <1>13, FinishSessionIs DEF RecorderMoves, ReplayMoves
<1>14. CASE WorkerStep \/ LoaderStep
  BY <1>14, ThreadIs DEF RecorderMoves, ReplayMoves
<1> QED
  BY <1>1, <1>2, <1>3, <1>4, <1>5, <1>6, <1>7, <1>8, <1>9, <1>10, <1>11,
     <1>12, <1>13, <1>14, StepIs DEF Touches

LEMMA SimulationStep ==
    ASSUME Parts, Links, [Next]_vars
    PROVE  Simulates
<1>. USE DEF recorderVars, replayVars, baseVars
<1>1. CASE AcceptReplayControl
  BY <1>1, AcceptReplayControlIs DEF Simulates, ReplayNext
<1>2. CASE AcceptRecordControl
  <2>1. PICK kind \in RecordKinds :
           \/ CallControl(NextId, kind, TRUE) \/ CallControl(NextId, kind, FALSE)
           \/ UNCHANGED <<recorder, worker, files, active, wire>>
    BY <1>2, AcceptRecordControlIs
  <2>2. NextId \in NormalIds /\ UNCHANGED <<replayVars, baseVars>>
    BY <1>2, AcceptRecordControlIs
  <2> QED
    BY <2>1, <2>2 DEF Simulates, RecorderNext
<1>3. CASE EndReplayAndRecorder
  BY <1>3, EndReplayAndRecorderIs DEF Simulates, RecorderNext, ReplayNext, Links
<1>4. RecorderMoves /\ ReplayMoves => Simulates
  BY DEF RecorderMoves, ReplayMoves, Simulates, RecorderNext, ReplayNext
<1> QED
  BY <1>1, <1>2, <1>3, <1>4, MovesStep

LEMMA PartsStep ==
    ASSUME Parts, Simulates
    PROVE  Parts'
<1>1. RecorderTypeOK' /\ Protocol'
  BY RecorderTypeStep, ProtocolStep DEF Parts, Simulates
<1>2. Filed'
  BY <1>1, FiledStep DEF Parts, Simulates
<1>3. IInv' /\ WarpInv' /\ OnceInv'
  BY TypeStep, WarpStep, OnceStep DEF Parts, Simulates
<1> QED
  BY <1>1, <1>2, <1>3 DEF Parts

-----------------------------------------------------------------------------
(* Links is kept: the order of the commands *)

OrderKept == AcceptTypes' /\ Ordered'

LEMMA SameOrder ==
    ASSUME AcceptTypes, Ordered, UNCHANGED <<commands, deferred, stopping, wire>>
    PROVE  OrderKept
BY DEF AcceptTypes, Ordered, OrderKept

\* A command that is accepted is younger than all that wait, and than all that were sent.
LEMMA GrownOrder ==
    ASSUME AcceptTypes, Ordered, wire \in Seq(Ids), NEW kind, Grows(kind), ~stopping,
           UNCHANGED stopping
    PROVE  /\ commands' \in Seq(Kinds) /\ Len(commands') < LastId
           /\ NextId \in 1 .. Len(commands') /\ NextId \in Nat
           /\ \A i \in 1 .. Len(commands) : i \in 1 .. Len(commands') /\ commands'[i] = commands[i]
           /\ \A n \in 1 .. Len(wire) : wire[n] \in Int /\ wire[n] < NextId /\ wire[n] <= Len(commands')
           /\ \A i \in 1 .. Len(deferred) : deferred[i] \in Int /\ deferred[i] < NextId
<1>1. /\ NextId \in NormalIds /\ Len(commands) \in Nat /\ commands' \in Seq(Kinds)
      /\ Len(commands') = NextId /\ Len(commands) = NextId - 1
      /\ \A i \in 1 .. Len(commands) : commands'[i] = commands[i]
  BY DEF Grows
<1>2. NextId \in 1 .. LastId - 1
  BY <1>1 DEF NormalIds
<1>3. ASSUME NEW n \in 1 .. Len(wire)
      PROVE  wire[n] \in Int /\ wire[n] < NextId /\ wire[n] <= Len(commands')
  <2>1. wire[n] \in Ids
    OBVIOUS
  <2>2. wire[n] \in Int
    BY <2>1, LastIdAssumption DEF Ids, NormalIds
  <2>3. wire[n] <= Len(commands)
    BY <1>3 DEF Ordered
  <2> QED
    BY <1>1, <2>2, <2>3
<1>4. ASSUME NEW i \in 1 .. Len(deferred) PROVE deferred[i] \in Int /\ deferred[i] < NextId
  <2>1. deferred[i] \in 1 .. Len(commands)
    BY <1>4 DEF Ordered
  <2> QED
    BY <1>1, <2>1
<1> QED
  BY <1>1, <1>2, <1>3, <1>4, LastIdAssumption

LEMMA AcceptedOrder ==
    ASSUME AcceptTypes, Ordered, wire \in Seq(Ids), NEW kind, Grows(kind), ~stopping,
           UNCHANGED <<stopping, deferred, wire>>
    PROVE  OrderKept
<1>1. /\ commands' \in Seq(Kinds) /\ Len(commands') < LastId
      /\ \A i \in 1 .. Len(commands) : i \in 1 .. Len(commands') /\ commands'[i] = commands[i]
      /\ \A n \in 1 .. Len(wire) : wire[n] <= Len(commands')
  BY GrownOrder
<1> QED
  BY <1>1 DEF AcceptTypes, Ordered, OrderKept

LEMMA SentOrder ==
    ASSUME AcceptTypes, Ordered, wire \in Seq(Ids), NEW kind, Grows(kind), ~stopping,
           deferred = << >>, UNCHANGED <<stopping, deferred>>, wire' = Append(wire, NextId)
    PROVE  OrderKept
<1>1. /\ commands' \in Seq(Kinds) /\ Len(commands') < LastId /\ NextId \in 1 .. Len(commands')
      /\ \A n \in 1 .. Len(wire) : wire[n] <= Len(commands')
  BY GrownOrder
<1>2. NextId \in Ids
  BY DEF Grows, Ids
<1>3. /\ Len(wire') = Len(wire) + 1 /\ \A n \in 1 .. Len(wire) : wire'[n] = wire[n]
      /\ wire'[Len(wire) + 1] = NextId
  BY <1>2, AppendProperties
<1>4. Len(deferred') = 0 /\ Len(wire) \in Nat
  BY EmptySeq
<1>5. \A n \in 1 .. Len(wire') : wire'[n] <= Len(commands')
  BY <1>1, <1>3, <1>4
<1> QED
  BY <1>1, <1>4, <1>5 DEF AcceptTypes, Ordered, OrderKept

LEMMA DeferredOrder ==
    ASSUME AcceptTypes, Ordered, wire \in Seq(Ids), NEW kind \in GameKinds, Grows(kind),
           ~stopping, UNCHANGED <<stopping, wire>>, deferred' = Append(deferred, NextId)
    PROVE  OrderKept
<1>1. /\ commands' \in Seq(Kinds) /\ Len(commands') < LastId /\ NextId \in 1 .. Len(commands')
      /\ \A i \in 1 .. Len(commands) : i \in 1 .. Len(commands') /\ commands'[i] = commands[i]
      /\ \A n \in 1 .. Len(wire) : wire[n] < NextId /\ wire[n] <= Len(commands')
      /\ \A i \in 1 .. Len(deferred) : deferred[i] < NextId
  BY GrownOrder
<1>2. NextId \in NormalIds /\ deferred \in Seq(NormalIds) /\ commands'[NextId] = kind
  BY DEF Grows, AcceptTypes
<1>3. /\ deferred' \in Seq(NormalIds) /\ Len(deferred') = Len(deferred) + 1
      /\ \A i \in 1 .. Len(deferred) : deferred'[i] = deferred[i]
      /\ deferred'[Len(deferred) + 1] = NextId
  BY <1>2, AppendProperties
<1>4. Len(deferred) \in Nat
  BY <1>2
<1>5. ASSUME NEW i \in 1 .. Len(deferred')
      PROVE  /\ deferred'[i] \in 1 .. Len(commands') /\ commands'[deferred'[i]] \in GameKinds
             /\ \A n \in 1 .. Len(wire) : wire[n] < deferred'[i]
             /\ \A j \in 1 .. Len(deferred') : i < j => deferred'[i] < deferred'[j]
  <2>1. CASE i \in 1 .. Len(deferred)
    <3>1. /\ deferred[i] \in 1 .. Len(commands) /\ commands[deferred[i]] \in GameKinds
          /\ \A n \in 1 .. Len(wire) : wire[n] < deferred[i]
          /\ \A j \in 1 .. Len(deferred) : i < j => deferred[i] < deferred[j]
      BY <2>1 DEF Ordered
    <3>2. ASSUME NEW j \in 1 .. Len(deferred'), i < j PROVE deferred'[i] < deferred'[j]
      <4>1. j \in 1 .. Len(deferred) \/ j = Len(deferred) + 1
        BY <1>3, <1>4
      <4> QED
        BY <1>1, <1>3, <2>1, <3>1, <3>2, <4>1
    <3> QED
      BY <1>1, <1>3, <2>1, <3>1, <3>2
  <2>2. CASE i = Len(deferred) + 1
    BY <1>1, <1>2, <1>3, <1>4, <2>2
  <2> QED
    BY <1>3, <1>4, <2>1, <2>2
<1> QED
  BY <1>1, <1>3, <1>5 DEF AcceptTypes, Ordered, OrderKept

\* The oldest that waits goes out, and is older than the rest.
LEMMA HandedOnOrder ==
    ASSUME AcceptTypes, Ordered, wire \in Seq(Ids), deferred # << >>,
           deferred' = Tail(deferred), wire' = Append(wire, Head(deferred)),
           UNCHANGED <<commands, stopping>>
    PROVE  OrderKept
<1>. DEFINE id == Head(deferred)
<1>1. /\ id \in NormalIds /\ id \in 1 .. Len(commands) /\ id = deferred[1]
      /\ 1 \in 1 .. Len(deferred)
  BY FirstDeferred
<1>2. deferred \in Seq(NormalIds) /\ id \in Ids /\ Len(deferred) \in Nat /\ Len(wire) \in Nat
  BY <1>1 DEF AcceptTypes, Ids
<1>. HIDE DEF id
<1>3. /\ deferred' \in Seq(NormalIds) /\ Len(deferred') = Len(deferred) - 1
      /\ \A i \in 1 .. Len(deferred') : deferred'[i] = deferred[i + 1]
  BY <1>2, HeadTailProperties
<1>4. /\ Len(wire') = Len(wire) + 1 /\ \A n \in 1 .. Len(wire) : wire'[n] = wire[n]
      /\ wire'[Len(wire) + 1] = id
  BY <1>2, AppendProperties DEF id
<1>5. ASSUME NEW n \in 1 .. Len(wire')
      PROVE  wire'[n] <= Len(commands) \/ (stopping /\ wire'[n] = LastId)
  <2>1. n \in 1 .. Len(wire) \/ n = Len(wire) + 1
    BY <1>2, <1>4
  <2> QED
    BY <1>1, <1>4, <2>1 DEF Ordered
<1>6. ASSUME NEW i \in 1 .. Len(deferred')
      PROVE  /\ deferred'[i] \in 1 .. Len(commands) /\ commands[deferred'[i]] \in GameKinds
             /\ \A n \in 1 .. Len(wire') : wire'[n] < deferred'[i]
             /\ \A j \in 1 .. Len(deferred') : i < j => deferred'[i] < deferred'[j]
  <2>1. i + 1 \in 1 .. Len(deferred) /\ deferred'[i] = deferred[i + 1] /\ 1 < i + 1
    BY <1>2, <1>3
  <2>2. /\ deferred[i + 1] \in 1 .. Len(commands) /\ commands[deferred[i + 1]] \in GameKinds
        /\ \A n \in 1 .. Len(wire) : wire[n] < deferred[i + 1]
        /\ \A j \in 1 .. Len(deferred) : i + 1 < j => deferred[i + 1] < deferred[j]
    BY <2>1 DEF Ordered
  <2>3. id < deferred[i + 1]
    BY <1>1, <2>1 DEF Ordered
  <2>4. ASSUME NEW n \in 1 .. Len(wire') PROVE wire'[n] < deferred'[i]
    <3>1. n \in 1 .. Len(wire) \/ n = Len(wire) + 1
      BY <1>2, <1>4
    <3> QED
      BY <1>4, <2>1, <2>2, <2>3, <3>1
  <2>5. ASSUME NEW j \in 1 .. Len(deferred'), i < j PROVE deferred'[i] < deferred'[j]
    <3>1. j + 1 \in 1 .. Len(deferred) /\ deferred'[j] = deferred[j + 1] /\ i + 1 < j + 1
      BY <1>2, <1>3, <2>5
    <3> QED
      BY <2>1, <2>2, <3>1
  <2> QED
    BY <2>1, <2>2, <2>4, <2>5
<1> QED
  BY <1>3, <1>5, <1>6 DEF AcceptTypes, Ordered, OrderKept

LEMMA ShutdownOrder ==
    ASSUME AcceptTypes, Ordered, wire \in Seq(Ids), ~stopping, stopping',
           stopping' \in BOOLEAN,
           deferred = << >>, wire' = Append(wire, LastId), UNCHANGED <<commands, deferred>>
    PROVE  OrderKept
<1>1. LastId \in Ids /\ Len(wire) \in Nat /\ Len(deferred') = 0
  BY EmptySeq DEF Ids
<1>2. /\ Len(wire') = Len(wire) + 1 /\ \A n \in 1 .. Len(wire) : wire'[n] = wire[n]
      /\ wire'[Len(wire) + 1] = LastId
  BY <1>1, AppendProperties
<1>3. ASSUME NEW n \in 1 .. Len(wire') PROVE wire'[n] <= Len(commands) \/ wire'[n] = LastId
  <2>1. n \in 1 .. Len(wire) \/ n = Len(wire) + 1
    BY <1>1, <1>2
  <2> QED
    BY <1>2, <2>1 DEF Ordered
<1> QED
  BY <1>1, <1>3 DEF AcceptTypes, Ordered, OrderKept

LEMMA OrderStep ==
    ASSUME Parts, Links, [Next]_vars
    PROVE  OrderKept
<1>0. AcceptTypes /\ Ordered /\ wire \in Seq(Ids) /\ active \subseteq Ids
  BY DEF Links, Parts, RecorderTypeOK
<1>1. CASE Aside \/ UNCHANGED vars
  BY <1>0, <1>1, AsideIs, SameOrder DEF acceptVars, baseVars
<1>2. CASE PollRecorder \/ DrainRecorder \/ TakeResponse \/ TakeShutdownResponse
  <2>1. UNCHANGED <<commands, deferred, stopping, wire>>
    BY <1>2 DEF PollRecorder, DrainRecorder, TakeReply, TakeResponse, TakeShutdownResponse,
       acceptVars, stopVars, baseVars
  <2> QED
    BY <1>0, <2>1, SameOrder
<1>3. CASE EndDeferred \/ TakeOperation \/ SubmitExhausted \/ WorkerStep \/ LoaderStep
           \/ FinishSession
  <2>1. UNCHANGED <<commands, deferred, stopping, wire>>
    BY <1>3, PollsReplayIs, SubmitExhaustedIs, ThreadIs, FinishSessionIs
  <2> QED
    BY <1>0, <2>1, SameOrder
<1>4. CASE EndReplayAndRecorder
  BY <1>0, <1>4, EndReplayAndRecorderIs, SameOrder DEF Links
<1>5. CASE SendDeferred
  BY <1>0, <1>5, SendDeferredIs, HandedOnOrder
<1>6. CASE AcceptShutdown
  BY <1>0, <1>6, AcceptShutdownIs, ShutdownOrder DEF AcceptShutdown
<1>7. CASE AcceptReplayControl
  BY <1>0, <1>7, AcceptReplayControlIs, AcceptedOrder
<1>8. CASE AcceptRecordControl
  BY <1>0, <1>8, AcceptRecordControlIs, AcceptedOrder
<1>9. CASE AcceptDuringReplay
  BY <1>0, <1>9, AcceptDuringReplayIs, AcceptedOrder
<1>10. CASE AcceptDeferred
  BY <1>0, <1>10, AcceptDeferredIs, DeferredOrder
<1>11. CASE AcceptSend
  BY <1>0, <1>11, AcceptSendIs, SentOrder
<1>12. CASE SubmitPlan
  BY <1>0, <1>12, SubmitPlanIs, SentOrder
<1> QED
  BY <1>1, <1>2, <1>3, <1>4, <1>5, <1>6, <1>7, <1>8, <1>9, <1>10, <1>11, <1>12, StepIs
     DEF Touches

-----------------------------------------------------------------------------
(* Links is kept: what the coordinator knows of its recorder *)

\* Commands are only added.
LEMMA CommandsStay ==
    ASSUME Parts, Links, [Next]_vars
    PROVE  UNCHANGED commands \/ (~stopping /\ \E kind : Grows(kind))
<1>0. wire \in Seq(Ids) /\ active \subseteq Ids
  BY DEF Parts, RecorderTypeOK
<1>1. CASE Aside \/ UNCHANGED vars
  BY <1>1, AsideIs DEF acceptVars
<1>2. CASE PollRecorder \/ DrainRecorder \/ TakeResponse \/ TakeShutdownResponse
  BY <1>2 DEF PollRecorder, DrainRecorder, TakeReply, TakeResponse, TakeShutdownResponse,
     acceptVars
<1>3. CASE EndDeferred \/ TakeOperation \/ SubmitExhausted \/ WorkerStep \/ LoaderStep
           \/ FinishSession
  BY <1>3, PollsReplayIs, SubmitExhaustedIs, ThreadIs, FinishSessionIs
<1>4. CASE EndReplayAndRecorder
  BY <1>4, EndReplayAndRecorderIs DEF Links
<1>5. CASE SendDeferred
  BY <1>0, <1>5, SendDeferredIs
<1>6. CASE AcceptShutdown
  BY <1>6, AcceptShutdownIs
<1>7. CASE AcceptReplayControl
  BY <1>7, AcceptReplayControlIs
<1>8. CASE AcceptRecordControl
  BY <1>8, AcceptRecordControlIs
<1>9. CASE AcceptDuringReplay
  BY <1>9, AcceptDuringReplayIs
<1>10. CASE AcceptDeferred
  BY <1>10, AcceptDeferredIs
<1>11. CASE AcceptSend
  BY <1>11, AcceptSendIs
<1>12. CASE SubmitPlan
  BY <1>12, SubmitPlanIs
<1> QED
  BY <1>1, <1>2, <1>3, <1>4, <1>5, <1>6, <1>7, <1>8, <1>9, <1>10, <1>11, <1>12, StepIs
     DEF Touches

Grown == /\ Len(commands) \in Nat /\ Len(commands') \in Nat /\ Len(commands) <= Len(commands')
         /\ \A i \in 1 .. Len(commands) : i \in 1 .. Len(commands') /\ commands'[i] = commands[i]

LEMMA CommandsGrow ==
    ASSUME Parts, Links, [Next]_vars
    PROVE  Grown
<1>1. Len(commands) \in Nat
  BY DEF Links, AcceptTypes
<1>2. CASE UNCHANGED commands
  BY <1>1, <1>2 DEF Grown
<1>3. ASSUME NEW kind, Grows(kind) PROVE Grown
  <2>1. /\ NextId \in NormalIds /\ Len(commands') = NextId /\ Len(commands) = NextId - 1
        /\ \A i \in 1 .. Len(commands) : commands'[i] = commands[i]
    BY <1>3 DEF Grows
  <2>2. NextId \in Nat
    BY <2>1 DEF NormalIds
  <2> QED
    BY <1>1, <2>1, <2>2 DEF Grown
<1> QED
  BY <1>2, <1>3, CommandsStay

\* Its recordings were stopped by commands up to that one, and have no shutdown.
Known(r, accepted) == StoppedBefore(r, accepted) /\ Lacks(r, LastId)

LEMMA RecordKnown ==
    ASSUME NEW r \in Recorders, LastIsNow(r), NEW id \in Ids, NEW kind, NEW n,
           kind = "shutdown" \/ id # LastId, Known(r, n)
    PROVE  Known(Record(r, id, kind), n)
<1>. DEFINE q == Record(r, id, kind)
            last == Len(r.sections)
<1>1. kind = "shutdown" => q = r
  BY UnrecordedIs
<1>2. /\ Len(q.sections) = last
      /\ \A s \in 1 .. last : q.sections[s].stop = r.sections[s].stop
      /\ \/ q = r
         \/ /\ last \in 1 .. last /\ r.sections[last] \in Sections
            /\ q.sections[last].sent = Append(r.sections[last].sent, Entry(id))
            /\ \A s \in 1 .. last : s # last => q.sections[s] = r.sections[s]
      /\ Entry(id) \in Entries
  BY RecordedIs
<1>3. CASE q = r
  BY <1>3
<1>4. CASE /\ id # LastId /\ last \in 1 .. last /\ r.sections[last] \in Sections
           /\ q.sections[last].sent = Append(r.sections[last].sent, Entry(id))
           /\ \A s \in 1 .. last : s # last => q.sections[s] = r.sections[s]
  <2>. HIDE DEF q
  <2>. DEFINE old == r.sections[last].sent
              new == q.sections[last].sent
  <2>1. old \in Seq(Entries)
    BY <1>4 DEF Sections
  <2>. HIDE DEF old
  <2>2. new = Append(old, Entry(id))
    BY <1>4 DEF old
  <2>. HIDE DEF new
  <2>3. /\ Len(new) = Len(old) + 1 /\ new[Len(old) + 1] = Entry(id) /\ Len(old) \in Nat
        /\ \A i \in 1 .. Len(old) : new[i] = old[i]
    BY SMTT(30), <1>2, <2>1, <2>2, AppendProperties
  <2>4. Entry(id).id # LastId
    BY <1>4 DEF Entry
  <2>5. \A i \in 1 .. Len(old) : old[i].id # LastId
    BY <1>4 DEF Known, Lacks, old
  <2>6. ASSUME NEW i \in 1 .. Len(new) PROVE new[i].id # LastId
    <3>1. i \in 1 .. Len(old) \/ i = Len(old) + 1
      BY <2>3
    <3> QED
      BY <2>3, <2>4, <2>5, <3>1
  <2>7. ASSUME NEW s \in 1 .. last
        PROVE  \A i \in 1 .. Len(q.sections[s].sent) : q.sections[s].sent[i].id # LastId
    <3>1. CASE s = last
      BY <2>6, <3>1 DEF new
    <3>2. CASE s # last
      BY <1>4, <3>2 DEF Known, Lacks
    <3> QED
      BY <3>1, <3>2
  <2> QED
    BY <1>2, <2>7 DEF Known, Lacks, StoppedBefore, q
<1> QED
  BY <1>1, <1>2, <1>3, <1>4

LEMMA TerminalKnown ==
    ASSUME NEW r \in Recorders, NEW id \in Ids, NEW outcome \in Settled, NEW n, Known(r, n)
    PROVE  Known(Terminal(r, id, outcome), n)
<1>. DEFINE sections == r.sections
            new == Witnessed(sections, id, outcome)
<1>1. sections \in Seq(Sections)
  BY DEF Recorders
<1>2. /\ new \in Seq(Sections) /\ Len(new) = Len(sections)
      /\ \A s \in 1 .. Len(sections) :
            /\ new[s].stop = sections[s].stop
            /\ new[s].sent = Answered(sections[s].sent, id, outcome)
  BY <1>1, WitnessedType
<1>3. Terminal(r, id, outcome).sections = new
  BY TerminalIs
<1>. HIDE DEF new
<1>4. ASSUME NEW s \in 1 .. Len(sections)
      PROVE  \A i \in 1 .. Len(new[s].sent) : new[s].sent[i].id # LastId
  <2>. DEFINE old == sections[s].sent
  <2>1. sections[s] \in Sections
    BY <1>1
  <2>2. old \in Seq(Entries)
    BY <2>1 DEF Sections
  <2>3. \A i \in 1 .. Len(old) : old[i].id # LastId
    BY DEF Known, Lacks
  <2>4. new[s].sent = Answered(old, id, outcome)
    BY <1>2
  <2>. HIDE DEF old
  <2>5. /\ Len(Answered(old, id, outcome)) = Len(old)
        /\ \A i \in 1 .. Len(old) :
              Answered(old, id, outcome)[i] =
                  IF old[i].id = id THEN [id |-> id, outcome |-> outcome] ELSE old[i]
    BY <2>2, AnsweredIs
  <2> QED
    BY <2>3, <2>4, <2>5
<1> QED
  BY <1>2, <1>3, <1>4 DEF Known, Lacks, StoppedBefore

\* A reply ends a recording at the pending stop, or opens one.
LEMMA PollKnown ==
    ASSUME RecorderTypeOK, Protocol, Filed, PollReply, NEW n \in Nat,
           recorder.id <= n, Known(recorder, n)
    PROVE  Known(recorder', n)
<1>. DEFINE last == Len(recorder.sections)
<1>1. recorder \in Recorders /\ recorder.sections \in Seq(Sections) /\ last \in Nat
      /\ recorder.id \in Paths
  BY DEF RecorderTypeOK, Recorders
<1>2. CASE recorder' = Started(recorder)
  <2>. DEFINE section == [start |-> recorder.id, stop |-> 0, sent |-> << >>]
  <2>1. section \in Sections /\ section.stop = 0 /\ section.sent = << >>
    <3>1. recorder.id \in Paths /\ 0 \in Paths
      BY <1>1, LastIdAssumption DEF Paths
    <3> QED
      BY <3>1, EmptySeq DEF Sections
  <2>2. recorder'.sections = Append(recorder.sections, section)
    BY <1>1, <1>2 DEF Started, Recorders
  <2>. HIDE DEF section
  <2>3. /\ Len(recorder'.sections) = last + 1 /\ recorder'.sections[last + 1] = section
        /\ \A s \in 1 .. last : recorder'.sections[s] = recorder.sections[s]
    BY <1>1, <2>1, <2>2, AppendProperties
  <2>4. Len(section.sent) = 0 /\ section.stop <= n
    BY <2>1, EmptySeq
  <2>5. ASSUME NEW s \in 1 .. Len(recorder'.sections)
        PROVE  /\ recorder'.sections[s].stop <= n
               /\ \A i \in 1 .. Len(recorder'.sections[s].sent) :
                     recorder'.sections[s].sent[i].id # LastId
    <3>1. s \in 1 .. last \/ s = last + 1
      BY <1>1, <2>3
    <3>2. CASE s = last + 1
      BY <2>3, <2>4, <3>2
    <3>3. CASE s \in 1 .. last
      BY <2>3, <3>3 DEF Known, Lacks, StoppedBefore
    <3> QED
      BY <3>1, <3>2, <3>3
  <2> QED
    BY <2>5 DEF Known, Lacks, StoppedBefore
<1>3. CASE recorder.state = "stopping" /\ \E ok : recorder' = Stopped(recorder, ok)
  <2>. DEFINE section == [recorder.sections[last] EXCEPT !.stop = recorder.id]
  <2>1. last \in 1 .. last
    BY <1>3 DEF Filed, Named, LastIsNow
  <2>2. recorder.sections[last] \in Sections
    BY <1>1, <2>1
  <2>3. /\ section \in Sections /\ section.stop = recorder.id
        /\ section.sent = recorder.sections[last].sent
    BY <1>1, <2>2 DEF Sections
  <2>4. recorder'.sections = [recorder.sections EXCEPT ![last] = section]
    BY <1>1, <1>3 DEF Stopped, Recorders
  <2>. HIDE DEF section
  <2>5. /\ Len([recorder.sections EXCEPT ![last] = section]) = last
        /\ \A s \in 1 .. last : [recorder.sections EXCEPT ![last] = section][s]
                                   = IF s = last THEN section ELSE recorder.sections[s]
    BY <1>1, <2>1, <2>3, ReplacedInSeq
  <2>6. /\ Len(recorder'.sections) = last
        /\ \A s \in 1 .. last : recorder'.sections[s]
                                   = IF s = last THEN section ELSE recorder.sections[s]
    BY <2>4, <2>5
  <2>7. \A s \in 1 .. last : /\ recorder'.sections[s].sent = recorder.sections[s].sent
                             /\ recorder'.sections[s].stop <= n
    BY <2>3, <2>6 DEF Known, StoppedBefore
  <2> QED
    BY <2>6, <2>7 DEF Known, Lacks, StoppedBefore
<1>4. CASE recorder'.sections = recorder.sections
  BY <1>4 DEF Known, Lacks, StoppedBefore
<1> QED
  BY <1>2, <1>3, <1>4, PollIs

LEMMA PollId ==
    ASSUME RecorderTypeOK, Protocol, PollReply
    PROVE  recorder'.id \in {recorder.id, 0} /\ recorder'.over = recorder.over
<1>. DEFINE reply == worker.replies[1]
<1>1. recorder \in Recorders /\ reply \in ReplySet /\ recorder' = Replied(recorder, reply)
  BY PollReplyIs DEF RecorderTypeOK
<1>. HIDE DEF reply
<1>2. CASE recorder' = Started(recorder)
  BY <1>1, <1>2 DEF Started, Recorders
<1>3. CASE recorder' = Stopped(recorder, reply.ok)
  BY <1>1, <1>3 DEF Stopped, Recorders
<1>4. CASE recorder' = Failed(recorder, reply.path)
  BY <1>1, <1>4 DEF Failed, Recorders
<1>5. CASE \/ recorder' = [recorder EXCEPT !.state = "idle", !.id = 0]
           \/ recorder' = recorder
           \/ recorder' = [recorder EXCEPT !.state = "panicked"]
  BY <1>1, <1>5 DEF Recorders
<1> QED
  BY <1>1, <1>2, <1>3, <1>4, <1>5, RepliedIs

\* The paths of the files are those of commands up to that one.
PathsUpTo(all, n) == \A f \in 1 .. Len(all) : all[f].path <= n

LEMMA WorkKeeps ==
    ASSUME RecorderTypeOK, Protocol, Work, UNCHANGED baseVars, NEW n \in Nat,
           recorder.id <= n, PathsUpTo(files, n)
    PROVE  /\ PathsUpTo(files', n)
           /\ UNCHANGED <<recorder.state, recorder.id, recorder.over, recorder.sections>>
<1>0. files \in Seq(FileSet) /\ Len(files) \in Nat
  BY DEF RecorderTypeOK
<1>1. UNCHANGED <<recorder.state, recorder.id, recorder.over, recorder.sections>>
  BY TakenIs DEF Work, WorkerStart, WorkerAppend, WorkerStop, WorkerEnd
<1>2. UNCHANGED files => PathsUpTo(files', n)
  BY DEF PathsUpTo
<1>3. ASSUME NEW file, OnlyFile(worker.active, file), worker.active # 0,
             file.path = files[worker.active].path
      PROVE  PathsUpTo(files', n)
  <2>1. worker.active \in 1 .. Len(files)
    BY <1>3, FileOf
  <2> QED
    BY <1>3, <2>1 DEF OnlyFile, PathsUpTo
<1>4. CASE WorkerStart
  <2>. DEFINE path == Operations[1].path
  <2>1. AddsFile(path) \/ UNCHANGED files
    BY <1>4, WorkerStartIs
  <2>2. path = recorder.id
    <3>1. 1 \in Asked /\ Operations[1].op = "start"
      BY <1>4, TakenIs DEF WorkerStart
    <3> QED
      BY <3>1 DEF Protocol, OperationsMatch, Current
  <2>. HIDE DEF path
  <2>3. CASE AddsFile(path)
    <3>1. /\ Len(files') = Len(files) + 1 /\ files'[Len(files) + 1].path = path
          /\ \A g \in 1 .. Len(files) : files'[g] = files[g]
      BY <2>3 DEF AddsFile, NewFile
    <3>2. \A f \in 1 .. Len(files') : f \in 1 .. Len(files) \/ f = Len(files) + 1
      BY <1>0, <3>1
    <3> QED
      BY <1>1, <2>2, <3>1, <3>2 DEF PathsUpTo
  <2> QED
    BY <1>1, <1>2, <2>1, <2>3
<1>5. worker.active # 0 => files[worker.active] \in FileSet
  BY FileOf
<1>6. ASSUME NEW file \in FileSet, NEW lines, NEW outcome, NEW count
      PROVE  /\ Written(file, lines).path = file.path
             /\ Footed(file, outcome, count).path = file.path
             /\ Footed(Written(file, lines), outcome, count).path = file.path
  BY DEF Written, Footed, FileSet
<1>7. CASE WorkerAppend
  <2>. DEFINE f == worker.active
              lines == Operations[1].lines
  <2>1. \/ UNCHANGED files
        \/ f # 0 /\ OnlyFile(f, Written(files[f], lines))
        \/ /\ f # 0
           /\ \E file \in FileSet : OnlyFile(f, file) /\ file.path = files[f].path
    BY <1>7, WorkerAppendIs
  <2> QED
    BY <1>1, <1>2, <1>3, <1>5, <1>6, <2>1
<1>8. CASE WorkerStop
  <2>. DEFINE f == worker.active
  <2>1. \/ UNCHANGED files
        \/ f # 0 /\ OnlyFile(f, Footed(files[f], "stopped", worker.count))
    BY <1>8, WorkerStopIs
  <2> QED
    BY <1>1, <1>2, <1>3, <1>5, <1>6, <2>1
<1>9. CASE WorkerEnd
  <2>. DEFINE f == worker.active
              lines == Operations[1].lines
  <2>1. \/ UNCHANGED files
        \/ /\ f # 0
           /\ OnlyFile(f, Footed(Written(files[f], lines), "session_ended",
                                 worker.count + Len(lines)))
        \/ /\ f # 0
           /\ \E file \in FileSet : OnlyFile(f, file) /\ file.path = files[f].path
    BY <1>9, WorkerEndIs
  <2> QED
    BY <1>1, <1>2, <1>3, <1>5, <1>6, <2>1
<1> QED
  BY <1>1, <1>4, <1>7, <1>8, <1>9 DEF Work

LEMMA MovesKeepKnown ==
    ASSUME RecorderTypeOK, Protocol, Filed, RecorderMoves, NEW n \in Nat,
           recorder.id <= n, Known(recorder, n), PathsUpTo(files, n)
    PROVE  /\ recorder'.id \in {recorder.id, 0} /\ recorder'.over = recorder.over
           /\ Known(recorder', n) /\ PathsUpTo(files', n)
<1>1. recorder \in Recorders /\ LastIsNow(recorder)
  BY DEF RecorderTypeOK, Filed, Named
<1>2. UNCHANGED files => PathsUpTo(files', n)
  BY DEF PathsUpTo
<1>3. ASSUME NEW id \in Ids
      PROVE  LET r == Record(recorder, id, KindOnWire(id)) IN
             r \in Recorders /\ r.id = recorder.id /\ r.over = recorder.over /\ Known(r, n)
  <2>1. KindOnWire(id) = "shutdown" \/ id # LastId
    BY DEF KindOnWire
  <2> QED
    BY <1>1, <2>1, RecordType, RecordIs, RecordKnown
<1>4. ASSUME NEW r \in Recorders, NEW id \in Ids, NEW outcome \in Settled, Known(r, n)
      PROVE  LET q == Terminal(r, id, outcome) IN
             q.id = r.id /\ q.over = r.over /\ Known(q, n)
  BY <1>4, TerminalIs, TerminalKnown
<1>5. "io" \in Settled /\ Answers \subseteq Settled
  BY DEF Settled
<1>6. CASE \E id \in Ids : CallSend(id, KindOnWire(id))
  BY <1>2, <1>3, <1>6 DEF CallSend, MaySend
<1>7. CASE \E id \in Ids : CallSendFailed(id, KindOnWire(id))
  <2>1. PICK id \in Ids : CallSendFailed(id, KindOnWire(id))
    BY <1>7
  <2>2. /\ recorder' = Terminal(Record(recorder, id, KindOnWire(id)), id, "io")
        /\ UNCHANGED files
    BY <2>1 DEF CallSendFailed, MaySend
  <2>3. /\ Record(recorder, id, KindOnWire(id)) \in Recorders
        /\ Record(recorder, id, KindOnWire(id)).id = recorder.id
        /\ Record(recorder, id, KindOnWire(id)).over = recorder.over
        /\ Known(Record(recorder, id, KindOnWire(id)), n)
    BY <1>3
  <2> QED
    BY <1>2, <1>4, <1>5, <2>2, <2>3
<1>8. CASE \E id \in Ids, outcome \in Answers : CallTerminal(id, outcome)
  <2>1. PICK id \in Ids, outcome \in Answers : CallTerminal(id, outcome)
    BY <1>8
  <2>2. recorder' = Terminal(recorder, id, outcome) /\ UNCHANGED files
    BY <2>1 DEF CallTerminal
  <2> QED
    BY <1>1, <1>2, <1>4, <1>5, <2>2
<1>9. CASE PollReply
  BY <1>2, <1>9, PollId, PollKnown, PollReplyIs
<1>10. CASE Work /\ UNCHANGED baseVars
  <2>1. PathsUpTo(files', n)
        /\ UNCHANGED <<recorder.id, recorder.over, recorder.sections>>
    BY <1>10, WorkKeeps
  <2>2. Known(recorder', n)
    BY <2>1 DEF Known, Lacks, StoppedBefore
  <2> QED
    BY <2>1, <2>2
<1>11. CASE UNCHANGED <<recorder, worker, files, active, wire>>
  BY <1>2, <1>11
<1> QED
  BY <1>6, <1>7, <1>8, <1>9, <1>10, <1>11 DEF RecorderMoves

\* The session is over when its recorder was told to end.
LEMMA OverStays ==
    ASSUME Links, [Next]_vars, ~EndReplayAndRecorder
    PROVE  Over' <=> Over
<1>1. CASE Aside \/ UNCHANGED vars
  BY <1>1, AsideIs
<1>2. CASE Hands
  BY <1>2, HandsIs DEF Works, Over
<1>3. CASE PollRecorder \/ DrainRecorder \/ TakeResponse \/ TakeShutdownResponse
  BY <1>3 DEF PollRecorder, DrainRecorder, TakeResponse, TakeShutdownResponse, loopVars, Over
<1>4. CASE FinishSession \/ WorkerStep \/ LoaderStep
  BY <1>4, FinishSessionIs, ThreadIs DEF Over
<1> QED
  BY <1>1, <1>2, <1>3, <1>4, StepIs DEF Touches, Hands, Accept

LEMMA RecorderKnowsStep ==
    ASSUME Parts, Links, [Next]_vars
    PROVE  RecorderKnows'
<1>. DEFINE n == Len(commands)
            m == Len(commands')
<1>1. /\ n \in Nat /\ m \in Nat /\ n <= m
      /\ \A i \in 1 .. n : i \in 1 .. m /\ commands'[i] = commands[i]
  BY CommandsGrow DEF Grown
<1>2. /\ recorder \in Recorders /\ files \in Seq(FileSet) /\ recorder.id \in Paths
      /\ recorder.id <= n /\ (recorder.id # 0 => commands[recorder.id] \in RecordKinds)
      /\ Known(recorder, n) /\ PathsUpTo(files, n) /\ (recorder.over <=> Over)
  BY DEF Parts, RecorderTypeOK, Recorders, Links, RecorderKnows, Known, PathsUpTo
<1>3. /\ recorder' \in Recorders /\ files' \in Seq(FileSet) /\ recorder'.id \in Paths
  BY SimulationStep, PartsStep DEF Parts, RecorderTypeOK, Recorders
<1>4. ASSUME recorder'.id \in {recorder.id, 0}
      PROVE  recorder'.id <= m /\ (recorder'.id # 0 => commands'[recorder'.id] \in RecordKinds)
  <2>. HIDE DEF n, m
  <2>1. recorder.id \in Int /\ (recorder.id # 0 => recorder.id \in 1 .. n)
    BY <1>1, <1>2, LastIdAssumption DEF Paths
  <2>2. CASE recorder'.id = 0
    BY <1>1, <2>2
  <2>3. CASE recorder'.id = recorder.id /\ recorder.id # 0
    BY <1>1, <1>2, <2>1, <2>3
  <2> QED
    BY <1>4, <2>2, <2>3
<1>5. ASSUME Known(recorder', n), PathsUpTo(files', n), recorder'.over <=> Over',
             recorder'.id <= m, recorder'.id # 0 => commands'[recorder'.id] \in RecordKinds
      PROVE  RecorderKnows'
  <2>. HIDE DEF n
  <2>1. ASSUME NEW s \in 1 .. Len(recorder'.sections) PROVE recorder'.sections[s].stop <= m
    <3>1. recorder'.sections \in Seq(Sections)
      BY <1>3 DEF Recorders
    <3>2. recorder'.sections[s] \in Sections
      BY <3>1
    <3>3. recorder'.sections[s].stop \in Int
      BY <3>2, LastIdAssumption DEF Sections, Paths
    <3>4. recorder'.sections[s].stop <= n
      BY <1>5 DEF Known, StoppedBefore
    <3>. HIDE DEF m
    <3> QED
      BY <1>1, <3>3, <3>4
  <2>2. ASSUME NEW f \in 1 .. Len(files') PROVE files'[f].path <= m
    <3>1. files'[f] \in FileSet
      BY <1>3
    <3>2. files'[f].path \in Int
      BY <3>1, LastIdAssumption DEF FileSet, Paths
    <3>3. files'[f].path <= n
      BY <1>5 DEF PathsUpTo
    <3>. HIDE DEF m
    <3> QED
      BY <1>1, <3>2, <3>3
  <2> QED
    BY <1>5, <2>1, <2>2 DEF RecorderKnows, Known, StoppedBefore, Lacks
<1>. HIDE DEF n, m
<1>6. CASE AcceptRecordControl
  <2>1. PICK kind \in RecordKinds :
           /\ Grows(kind)
           /\ \/ CallControl(NextId, kind, TRUE) \/ CallControl(NextId, kind, FALSE)
              \/ UNCHANGED <<recorder, worker, files, active, wire>>
    BY <1>6, AcceptRecordControlIs
  <2>2. NextId \in NormalIds /\ m = NextId /\ NextId \in Nat /\ commands'[NextId] = kind
    BY <2>1 DEF Grows, NormalIds, m
  <2>3. \/ recorder'.id = NextId \/ recorder'.id = recorder.id
    BY <2>1, <2>2, ControlIs DEF Parts
  <2>4. UNCHANGED <<recorder.over, recorder.sections, files>>
    BY <2>1, <2>2, ControlIs DEF Parts
  <2>5. Over' <=> Over
    BY <1>6, OverStays DEF AcceptRecordControl, EndReplayAndRecorder, Accepts, Replies
  <2>6. Known(recorder', n) /\ PathsUpTo(files', n)
    BY <1>2, <2>4 DEF Known, Lacks, StoppedBefore, PathsUpTo
  <2>7. recorder'.id <= m /\ (recorder'.id # 0 => commands'[recorder'.id] \in RecordKinds)
    BY <1>4, <2>2, <2>3
  <2> QED
    BY <1>2, <1>5, <2>4, <2>5, <2>6, <2>7
<1>7. CASE EndReplayAndRecorder
  <2>1. CallEnd
    BY <1>7, EndReplayAndRecorderIs DEF Links
  <2>2. recorder'.over /\ UNCHANGED <<recorder.id, recorder.sections, files>>
    BY <2>1, EndIs DEF Parts
  <2>3. Over'
    BY <1>7 DEF EndReplayAndRecorder, Over
  <2>4. Known(recorder', n) /\ PathsUpTo(files', n)
    BY <1>2, <2>2 DEF Known, Lacks, StoppedBefore, PathsUpTo
  <2> QED
    BY <1>4, <1>5, <2>2, <2>3, <2>4
<1>8. CASE ~AcceptRecordControl /\ ~EndReplayAndRecorder
  <2>1. RecorderMoves
    <3>1. CASE AcceptReplayControl
      BY <3>1, AcceptReplayControlIs DEF RecorderMoves
    <3> QED
      BY <1>8, <3>1, MovesStep
  <2>2. /\ recorder'.id \in {recorder.id, 0} /\ recorder'.over = recorder.over
        /\ Known(recorder', n) /\ PathsUpTo(files', n)
    BY <1>1, <1>2, <2>1, MovesKeepKnown DEF Parts
  <2>3. Over' <=> Over
    BY <1>8, OverStays
  <2> QED
    BY <1>2, <1>4, <1>5, <2>2, <2>3
<1> QED
  BY <1>6, <1>7, <1>8

-----------------------------------------------------------------------------
(* Links is kept: what the coordinator knows of its replay *)

\* A run that submitted nothing submits nothing but by next().
LEMMA StaysEmpty ==
    ASSUME Parts, replay.run.submitted = << >>,
           \/ \E id \in NormalIds : CallReplayStart(id) \/ CallReplayStop(id)
           \/ \E id \in Ids, outcome \in Answers : CallAnswer(id, outcome)
           \/ \E barrier \in BOOLEAN : CallPoll(barrier)
           \/ \E io \in BOOLEAN : CallEndReplay(io)
           \/ UNCHANGED replay
    PROVE  replay'.run.submitted = << >>
<1>0. Well(replay) /\ loader \in Loaders /\ NoRun.submitted = << >>
  BY DEF Parts, IInv, ReplayTypeOK, NoRun
<1>1. ASSUME NEW id \in NormalIds, CallReplayStart(id) PROVE replay'.run.submitted = << >>
  BY <1>0, <1>1, ControlRuns DEF CallReplayStart, SameWork
<1>2. ASSUME NEW id \in NormalIds, CallReplayStop(id) PROVE replay'.run.submitted = << >>
  BY <1>0, <1>2, ControlRuns DEF CallReplayStop, SameWork
<1>3. ASSUME NEW id \in Ids, NEW outcome \in Answers, CallAnswer(id, outcome)
      PROVE  replay'.run.submitted = << >>
  <2>1. id \notin replay.run.pending
    BY DEF Parts, WarpInv, Owned
  <2> QED
    BY <1>3, <2>1, NotOfTheRun DEF CallAnswer
<1>4. ASSUME NEW barrier \in BOOLEAN, CallPoll(barrier) PROVE replay'.run.submitted = << >>
  <2>1. replay'.run = Polled(replay, loader, barrier).run
    BY <1>0, <1>4, PolledWell, ToldRun DEF CallPoll
  <2> QED
    BY <1>0, <2>1, PolledRun DEF SameWork
<1>5. ASSUME NEW io \in BOOLEAN, CallEndReplay(io) PROVE replay'.run.submitted = << >>
  BY <1>0, <1>5, EndRun DEF CallEndReplay
<1> QED
  BY <1>1, <1>2, <1>3, <1>4, <1>5

\* While commands wait for a transition, the run stays without a submission.
LEMMA DeferredBeforeRun ==
    ASSUME Parts, Links, [Next]_vars, deferred' # << >>
    PROVE  replay'.run.submitted = << >>
<1>0. active \subseteq Ids /\ wire \in Seq(Ids) /\ (deferred # << >> => replay.run.submitted = << >>)
  BY DEF Parts, RecorderTypeOK, Links, ReplayKnows
<1>1. CASE Aside \/ UNCHANGED vars
  BY <1>0, <1>1, AsideIs DEF acceptVars, replayVars
<1>2. CASE PollRecorder \/ DrainRecorder \/ TakeResponse \/ TakeShutdownResponse
  <2>1. UNCHANGED deferred
    BY <1>2 DEF PollRecorder, DrainRecorder, TakeReply, TakeResponse, TakeShutdownResponse,
       acceptVars
  <2>2. UNCHANGED replay \/ \E id \in Ids, outcome \in Answers : CallAnswer(id, outcome)
    BY <1>0, <1>2, TakeReplyIs, TakeResponseIs, TakeShutdownResponseIs
       DEF PollRecorder, DrainRecorder, Links
  <2> QED
    BY <1>0, <2>1, <2>2, StaysEmpty
<1>3. CASE SendDeferred
  <2>1. deferred # << >> /\ UNCHANGED replay
    BY <1>0, <1>3, SendDeferredIs
  <2> QED
    BY <1>0, <2>1
<1>4. CASE EndDeferred \/ TakeOperation
  <2>1. UNCHANGED deferred /\ CallPoll(Transitioning(recorder))
    BY <1>4, PollsReplayIs
  <2>2. Transitioning(recorder) \in BOOLEAN
    BY DEF Transitioning
  <2> QED
    BY <1>0, <2>1, <2>2, StaysEmpty
<1>5. CASE AcceptShutdown
  BY <1>0, <1>5, AcceptShutdownIs
<1>6. CASE AcceptReplayControl
  <2>1. /\ UNCHANGED deferred /\ NextId \in NormalIds
        /\ CallReplayStart(NextId) \/ CallReplayStop(NextId)
    BY <1>6, AcceptReplayControlIs
  <2> QED
    BY <1>0, <2>1, StaysEmpty
<1>7. CASE AcceptDuringReplay \/ AcceptRecordControl
  BY <1>0, <1>7, AcceptDuringReplayIs, AcceptRecordControlIs
<1>8. CASE AcceptDeferred
  BY <1>8, AcceptDeferredIs DEF Parts, OnceInv, Orderly, NoRun
<1>9. CASE AcceptSend \/ SubmitPlan
  BY <1>9, AcceptSendIs, SubmitPlanIs
<1>10. CASE SubmitExhausted
  BY <1>10 DEF SubmitExhausted, MaySubmit, acceptVars
<1>11. CASE EndReplayAndRecorder
  <2>1. UNCHANGED deferred /\ \E io \in BOOLEAN : CallEndReplay(io)
    BY <1>11, EndReplayAndRecorderIs DEF Links
  <2> QED
    BY <1>0, <2>1, StaysEmpty
<1>12. CASE FinishSession \/ WorkerStep \/ LoaderStep
  BY <1>0, <1>12, FinishSessionIs, ThreadIs DEF Load
<1> QED
  BY <1>1, <1>2, <1>3, <1>4, <1>5, <1>6, <1>7, <1>8, <1>9, <1>10, <1>11, <1>12, StepIs
     DEF Touches

LEMMA ReplayKnowsStep ==
    ASSUME Parts, Links, [Next]_vars
    PROVE  ReplayKnows'
<1>1. Well(replay) /\ Well(replay') /\ Grown
  BY SimulationStep, PartsStep, CommandsGrow DEF Parts, IInv
<1>2. \A id \in ControlIds(replay) :
         id # 0 => id \in 1 .. Len(commands') /\ commands'[id] \in ReplayKinds
  BY <1>1 DEF Links, ReplayKnows, Grown
<1>3. CASE AcceptReplayControl
  <2>1. PICK kind \in ReplayKinds : Grows(kind)
    BY <1>3, AcceptReplayControlIs
  <2>2. /\ NextId \in NormalIds
        /\ replay' = ControlStart(replay, NextId) \/ replay' = ControlStop(replay, NextId)
    BY <1>3, AcceptReplayControlIs DEF CallReplayStart, CallReplayStop
  <2>3. ControlIds(replay') \subseteq ControlIds(replay) \cup {NextId}
    BY <1>1, <2>2, ControlUses
  <2>4. NextId \in 1 .. Len(commands') /\ commands'[NextId] \in ReplayKinds
    BY <2>1, <2>2 DEF Grows, NormalIds
  <2> QED
    BY <1>2, <2>3, <2>4, DeferredBeforeRun DEF ReplayKnows
<1>4. CASE ~AcceptReplayControl
  <2>1. ReplayMoves
    <3>1. CASE AcceptRecordControl
      BY <3>1, AcceptRecordControlIs DEF ReplayMoves, AcceptRecordControl, baseVars
    <3>2. CASE EndReplayAndRecorder
      BY <3>2, EndReplayAndRecorderIs DEF ReplayMoves, Links
    <3> QED
      BY <1>4, <3>1, <3>2, MovesStep
  <2>2. SameLine(replay, replay')
    BY <2>1, MovesLine DEF Parts
  <2>3. ControlIds(replay') \subseteq ControlIds(replay) \cup {0}
    BY <1>1, <2>2, SameUsed
  <2> QED
    BY <1>2, <2>3, DeferredBeforeRun DEF ReplayKnows
<1> QED
  BY <1>3, <1>4

-----------------------------------------------------------------------------
(* Links is kept: a session that shuts down does nothing else *)

\* Polling a replay without a run starts none.
LEMMA IdlePoll ==
    ASSUME NEW p, Well(p), NEW l, NEW barrier, ~IsBusy(p)
    PROVE  ~IsBusy(Told(Polled(p, l, barrier)))
BY DEF Polled, Waited, StartsLoading, Loaded, MayFinish, IsBusy, Told, Well, Replays

\* Only an accepted shutdown starts to stop.
LEMMA StoppingStays ==
    ASSUME [Next]_vars, ~AcceptShutdown
    PROVE  UNCHANGED stopping
<1>1. CASE Aside \/ UNCHANGED vars
  BY <1>1, AsideIs
<1>2. CASE PollRecorder \/ DrainRecorder \/ TakeResponse \/ TakeShutdownResponse
           \/ SendDeferred \/ EndDeferred \/ TakeOperation
  BY <1>2 DEF PollRecorder, DrainRecorder, TakeReply, TakeResponse, TakeShutdownResponse,
     SendDeferred, EndDeferred, TakeOperation, stopVars
<1>3. CASE AcceptReplayControl \/ AcceptDuringReplay \/ AcceptRecordControl
           \/ AcceptDeferred \/ AcceptSend
  BY <1>3 DEF AcceptReplayControl, AcceptDuringReplay, AcceptRecordControl, AcceptDeferred,
     AcceptSend, Untouched, stopVars
<1>4. CASE SubmitPlan \/ SubmitExhausted \/ EndReplayAndRecorder \/ FinishSession
  BY <1>4 DEF SubmitPlan, SubmitExhausted, EndReplayAndRecorder, FinishSession, stopVars
<1>5. CASE WorkerStep \/ LoaderStep
  BY <1>5, ThreadIs
<1> QED
  BY <1>1, <1>2, <1>3, <1>4, <1>5, StepIs DEF Touches

LEMMA StopsAloneStep ==
    ASSUME Parts, Links, [Next]_vars
    PROVE  StopsAlone'
<1>0. /\ Well(replay) /\ active \subseteq Ids /\ wire \in Seq(Ids) /\ RecorderTypeOK /\ Protocol
      /\ loader \in Loaders /\ RecorderKnows
  BY DEF Parts, IInv, ReplayTypeOK, RecorderTypeOK, Links
<1>1. CASE AcceptShutdown
  <2>1. /\ recorder' = recorder /\ active' \subseteq {LastId} /\ deferred = << >>
        /\ recorder.state = "idle" /\ ~IsBusy(replay) /\ UNCHANGED <<deferred, replay>>
    BY <1>1, AcceptShutdownIs
  <2> QED
    BY <2>1 DEF StopsAlone
<1>2. CASE ~AcceptShutdown /\ ~stopping
  BY <1>2, StoppingStays DEF StopsAlone
<1>3. CASE ~AcceptShutdown /\ stopping
  <2>0. /\ deferred = << >> /\ recorder.state = "idle" /\ ~IsBusy(replay)
        /\ active \subseteq {LastId}
    BY <1>3 DEF Links, StopsAlone
  <2>1. CASE Aside \/ UNCHANGED vars
    BY <2>0, <2>1, AsideIs DEF StopsAlone, acceptVars, baseVars, recorderVars, replayVars
  <2>2. CASE PollRecorder \/ DrainRecorder
    <3>1. PollReply /\ UNCHANGED <<replay, deferred, active>>
      BY <2>2, TakeReplyIs DEF PollRecorder, DrainRecorder, TakeReply, baseVars
    <3>2. recorder'.state = "idle"
      BY <1>0, <2>0, <3>1, PollIs
    <3> QED
      BY <2>0, <3>1, <3>2 DEF StopsAlone
  <2>3. CASE TakeResponse
    BY <1>0, <2>0, <2>3, TakeResponseIs
  <2>4. CASE TakeShutdownResponse
    <3>1. /\ UNCHANGED <<recorder, replay, deferred>> /\ active' \subseteq active
      BY <2>4, TakeShutdownResponseIs DEF TakeShutdownResponse, acceptVars
    <3> QED
      BY <2>0, <3>1 DEF StopsAlone
  <2>5. CASE SendDeferred \/ SubmitPlan
    BY <1>0, <1>3, <2>0, <2>5, SendDeferredIs, SubmitPlanIs
  <2>6. CASE EndDeferred \/ TakeOperation
    <3>1. CallPoll(Transitioning(recorder)) /\ UNCHANGED <<deferred, recorder, active>>
      BY <2>6, PollsReplayIs
    <3>2. ~IsBusy(replay')
      BY <1>0, <2>0, <3>1, IdlePoll DEF CallPoll
    <3> QED
      BY <2>0, <3>1, <3>2 DEF StopsAlone
  <2>7. CASE AcceptReplayControl \/ AcceptDuringReplay \/ AcceptRecordControl
             \/ AcceptDeferred \/ AcceptSend
    BY <1>3, <2>7, AcceptReplayControlIs, AcceptDuringReplayIs, AcceptRecordControlIs,
       AcceptDeferredIs, AcceptSendIs
  <2>8. CASE SubmitExhausted
    BY <2>0, <2>8, SubmitExhaustedIs DEF CallNextExhausted, Frees
  <2>9. CASE EndReplayAndRecorder
    <3>1. /\ CallEnd /\ UNCHANGED <<deferred, active>>
          /\ CallEndReplay(TRUE) \/ CallEndReplay(FALSE)
      BY <1>0, <2>9, EndReplayAndRecorderIs
    <3>2. recorder'.state = "idle"
      BY <1>0, <2>0, <3>1, EndIs
    <3>3. ~IsBusy(replay')
      <4>1. replay' = Told(replay)
        BY <2>0, <3>1 DEF CallEndReplay, EndReplay
      <4> QED
        BY <1>0, <2>0, <4>1, ToldRun DEF IsBusy
    <3> QED
      BY <2>0, <3>1, <3>2, <3>3 DEF StopsAlone
  <2>10. CASE FinishSession
    BY <2>0, <2>10, FinishSessionIs DEF StopsAlone
  <2>11. CASE WorkerStep
    <3>1. Work /\ UNCHANGED <<replay, deferred, active>> /\ UNCHANGED baseVars
      BY <2>11 DEF WorkerStep, Outside, acceptVars, baseVars, replayVars
    <3>2. recorder' = [recorder EXCEPT !.operations = Tail(@)]
      BY <3>1 DEF Work, WorkerStart, WorkerAppend, WorkerStop, WorkerEnd, Takes
    <3>3. recorder'.state = "idle"
      BY <1>0, <2>0, <3>2 DEF RecorderTypeOK, Recorders
    <3> QED
      BY <2>0, <3>1, <3>3 DEF StopsAlone
  <2>12. CASE LoaderStep
    <3>1. UNCHANGED <<replay, deferred, active, recorder>>
      BY <2>12 DEF LoaderStep, Load, Outside, acceptVars, baseVars, recorderVars
    <3> QED
      BY <2>0, <3>1 DEF StopsAlone
  <2> QED
    BY <1>3, <2>1, <2>2, <2>3, <2>4, <2>5, <2>6, <2>7, <2>8, <2>9, <2>10, <2>11, <2>12,
       StepIs DEF Touches
<1> QED
  BY <1>1, <1>2, <1>3

-----------------------------------------------------------------------------
(* The refinement *)

LinkedInv == Parts /\ Links

LEMMA LinkedInit == Init => LinkedInv
<1>. SUFFICES ASSUME Init PROVE LinkedInv
  OBVIOUS
<1>1. RecorderInit /\ ReplayInit
  BY DEF Init
<1>2. WarpInv
  BY <1>1, NoRunOwned DEF ReplayInit, WarpInv, NewReplay
<1>3. Parts
  BY <1>1, <1>2, RecorderTypeInit, ProtocolInit, FiledInit, TypeInit, OnceInit DEF Parts
<1>4. /\ commands = << >> /\ deferred = << >> /\ wire = << >> /\ files = << >>
      /\ ~stopping /\ stopping \in BOOLEAN /\ pc = "top"
      /\ recorder.id = 0 /\ recorder.sections = << >> /\ ~recorder.over
      /\ replay = NewReplay /\ Len(<< >>) = 0
  <2>1. /\ commands = << >> /\ deferred = << >> /\ wire = << >> /\ files = << >>
        /\ stopping = FALSE /\ pc = "top" /\ recorder = NewRecorder /\ replay = NewReplay
    BY <1>1 DEF Init, RecorderInit, ReplayInit
  <2>2. Len(<< >>) = 0
    BY EmptySeq
  <2> QED
    BY <2>1, <2>2 DEF NewRecorder
<1>5. AcceptTypes /\ Ordered
  BY <1>4, EmptySeq, LastIdAssumption DEF AcceptTypes, Ordered
<1>6. RecorderKnows
  BY <1>4 DEF RecorderKnows, StoppedBefore, Lacks, Over
<1>7. ReplayKnows
  <2>1. ControlIds(replay) = {0}
    BY <1>4, EmptySeq DEF ControlIds, NewReplay, NoRun, ToSet
  <2> QED
    BY <1>4, <2>1 DEF ReplayKnows
<1>8. StopsAlone
  BY <1>4 DEF StopsAlone
<1> QED
  BY <1>3, <1>5, <1>6, <1>7, <1>8 DEF LinkedInv, Links

LEMMA LinkedStep == LinkedInv /\ [Next]_vars => LinkedInv' /\ Simulates
<1>. SUFFICES ASSUME LinkedInv, [Next]_vars PROVE LinkedInv' /\ Simulates
  OBVIOUS
<1>1. Parts /\ Links
  BY DEF LinkedInv
<1>2. Simulates
  BY <1>1, SimulationStep
<1>3. Parts'
  BY <1>1, <1>2, PartsStep
<1>4. AcceptTypes' /\ Ordered'
  BY <1>1, OrderStep DEF OrderKept
<1>5. RecorderKnows' /\ ReplayKnows' /\ StopsAlone'
  BY <1>1, RecorderKnowsStep, ReplayKnowsStep, StopsAloneStep
<1> QED
  BY <1>2, <1>3, <1>4, <1>5 DEF LinkedInv, Links

(***************************************************************************)
(* The coordinator is a caller its recorder was written for: it sends      *)
(* commands in ascending order and during no transition, starts and stops  *)
(* with no command open, settles what it handed on, and ends once.  So     *)
(* everything proved of RecorderSpec holds in the session.                 *)
(***************************************************************************)
THEOREM CoordinatorDrivesRecorder == SafetySpec => RecorderSpec
<1>1. Init => RecorderInit
  BY DEF Init
<1>2. Simulates => [RecorderNext]_<<recorderVars, baseVars>>
  BY DEF Simulates
<1> QED
  BY <1>1, <1>2, LinkedInit, LinkedStep, PTL DEF SafetySpec, RecorderSpec

(***************************************************************************)
(* And a caller its replay engine was written for: nothing else goes to    *)
(* the game once a run submitted, ids grow, and the end is told once.  So  *)
(* everything proved of ReplaySpec holds in the session.                   *)
(***************************************************************************)
THEOREM CoordinatorDrivesReplay == SafetySpec => ReplaySpec
<1>1. Init => ReplayInit
  BY DEF Init
<1>2. Simulates => [ReplayNext]_<<replayVars, baseVars>>
  BY DEF Simulates
<1> QED
  BY <1>1, <1>2, LinkedInit, LinkedStep, PTL DEF SafetySpec, ReplaySpec

-----------------------------------------------------------------------------
(***************************************************************************)
(* A recording is an interval of the wire: before some position everything *)
(* is older than its start, from its stop on everything is younger, and    *)
(* what lies between is what was sent while it was active.                 *)
(***************************************************************************)
Within(section, id) == section.start < id /\ (section.stop # 0 => id < section.stop)

\* The section is what follows the first so many ids of the wire w.
Covers(section, w, before) ==
    /\ before \in Nat /\ before + Len(section.sent) <= Len(w)
    /\ \A i \in 1 .. Len(section.sent) : section.sent[i].id = w[before + i]
    /\ \A n \in 1 .. Len(w) :
          Within(section, w[n]) <=> before < n /\ n <= before + Len(section.sent)

IsRecording(r) == r.state \in {"active", "stopping"}

\* Of a finished recording and of the running one, which reaches to the end of the
\* wire; and nothing on the wire is younger than a pending start or stop.
Sectioned(r, w) ==
    /\ \A s \in 1 .. Len(r.sections) :
          r.sections[s].stop # 0 => \E before : Covers(r.sections[s], w, before)
    /\ IsRecording(r) =>
          LET section == r.sections[Len(r.sections)] IN
          /\ section.stop = 0
          /\ \E before : Covers(section, w, before) /\ before + Len(section.sent) = Len(w)
    /\ Transitioning(r) => \A n \in 1 .. Len(w) : w[n] < r.id

\* That id is younger than every start and stop the recorder has seen.
Behind(r, id) ==
    /\ r.id < id
    /\ \A s \in 1 .. Len(r.sections) : r.sections[s].start < id /\ r.sections[s].stop < id

LEMMA CoversSame ==
    ASSUME NEW a, NEW b, b.start = a.start, b.stop = a.stop, Len(b.sent) = Len(a.sent),
           \A i \in 1 .. Len(a.sent) : b.sent[i].id = a.sent[i].id,
           NEW w, NEW k, Covers(a, w, k)
    PROVE  Covers(b, w, k)
BY DEF Covers, Within

\* What is sent after the stop is no part of it.
LEMMA CoversPast ==
    ASSUME NEW a \in Sections, NEW w \in Seq(Ids), NEW id \in Ids,
           a.stop # 0, a.stop < id, NEW k, Covers(a, w, k)
    PROVE  Covers(a, Append(w, id), k)
<1>. DEFINE v == Append(w, id)
<1>1. /\ Len(v) = Len(w) + 1 /\ v[Len(w) + 1] = id /\ Len(w) \in Nat
      /\ \A n \in 1 .. Len(w) : v[n] = w[n]
  BY AppendProperties
<1>2. a.stop \in Int /\ id \in Int /\ a.sent \in Seq(Entries)
  BY LastIdAssumption DEF Sections, Paths, Ids, NormalIds
<1>3. Len(a.sent) \in Nat
  BY <1>2
<1>. HIDE DEF v
<1>4. \A i \in 1 .. Len(a.sent) : v[k + i] = w[k + i]
  BY <1>1, <1>3 DEF Covers
<1>5. ~Within(a, id)
  BY <1>2 DEF Within
<1>6. ASSUME NEW n \in 1 .. Len(v)
      PROVE  Within(a, v[n]) <=> k < n /\ n <= k + Len(a.sent)
  <2>1. CASE n \in 1 .. Len(w)
    BY <1>1, <2>1 DEF Covers
  <2>2. CASE n = Len(w) + 1
    BY <1>1, <1>3, <1>5, <2>2 DEF Covers
  <2> QED
    BY <1>1, <2>1, <2>2
<1> QED
  BY <1>1, <1>3, <1>4, <1>6 DEF Covers, v

\* What is sent while it runs continues it.
LEMMA CoversNow ==
    ASSUME NEW a \in Sections, NEW b, NEW w \in Seq(Ids), NEW id \in Ids,
           a.stop = 0, a.start < id, b.start = a.start, b.stop = a.stop,
           b.sent = Append(a.sent, Entry(id)),
           NEW k, Covers(a, w, k), k + Len(a.sent) = Len(w)
    PROVE  Covers(b, Append(w, id), k) /\ k + Len(b.sent) = Len(Append(w, id))
<1>. DEFINE v == Append(w, id)
<1>1. /\ Len(v) = Len(w) + 1 /\ v[Len(w) + 1] = id /\ Len(w) \in Nat
      /\ \A n \in 1 .. Len(w) : v[n] = w[n]
  BY AppendProperties
<1>2. a.sent \in Seq(Entries) /\ Entry(id) \in Entries
  BY DEF Sections, Entry, Entries, Outcomes
<1>3. /\ Len(b.sent) = Len(a.sent) + 1 /\ b.sent[Len(a.sent) + 1] = Entry(id)
      /\ \A i \in 1 .. Len(a.sent) : b.sent[i] = a.sent[i]
      /\ Len(a.sent) \in Nat
  BY <1>2, AppendProperties
<1>. HIDE DEF v
<1>4. Entry(id).id = id /\ k \in Nat
  BY DEF Entry, Covers
<1>8. ASSUME NEW m \in Nat, NEW l \in Nat, k + m = l
      PROVE  k + (m + 1) = l + 1
  BY <1>4, <1>8
<1>9. k + (Len(a.sent) + 1) = Len(w) + 1
  BY <1>1, <1>3, <1>8
<1>5. ASSUME NEW i \in 1 .. Len(b.sent) PROVE b.sent[i].id = v[k + i]
  <2>1. CASE i \in 1 .. Len(a.sent)
    <3>1. k + i \in 1 .. Len(w)
      BY <1>1, <1>3, <1>4, <2>1
    <3> QED
      BY <1>1, <1>3, <2>1, <3>1 DEF Covers
  <2>2. CASE i = Len(a.sent) + 1
    <3>1. k + i = Len(w) + 1
      BY <1>9, <2>2
    <3>2. v[k + i] = id /\ b.sent[i] = Entry(id)
      BY <1>1, <1>3, <2>2, <3>1
    <3> QED
      BY <1>4, <3>2
  <2> QED
    BY <1>3, <2>1, <2>2
<1>6. ASSUME NEW n \in 1 .. Len(v)
      PROVE  Within(b, v[n]) <=> k < n /\ n <= k + Len(b.sent)
  <2>1. CASE n \in 1 .. Len(w)
    <3>1. Within(a, w[n]) <=> k < n /\ n <= k + Len(a.sent)
      BY <2>1 DEF Covers
    <3> QED
      BY <1>1, <1>3, <1>4, <2>1, <3>1 DEF Within
  <2>2. CASE n = Len(w) + 1
    BY <1>1, <1>3, <1>4, <2>2 DEF Within
  <2> QED
    BY <1>1, <2>1, <2>2
<1>7. k + Len(b.sent) = Len(v)
  BY <1>1, <1>3, <1>9
<1>10. k + Len(b.sent) <= Len(v)
  BY <1>1, <1>7
<1>11. Covers(b, v, k)
  BY <1>4, <1>5, <1>6, <1>10 DEF Covers
<1> QED
  BY <1>7, <1>11 DEF v

-----------------------------------------------------------------------------
(* What the calls of the recorder keep of it *)

\* A command that is sent continues the running recording, and none but that.
LEMMA RecordSectioned ==
    ASSUME NEW r \in Recorders, LastIsNow(r), NEW w \in Seq(Ids), NEW id \in Ids,
           ~Transitioning(r), Sectioned(r, w), Behind(r, id), r.state = "active" => id # LastId
    PROVE  Sectioned(Record(r, id, KindOnWire(id)), Append(w, id))
<1>. DEFINE kind == KindOnWire(id)
            q    == Record(r, id, kind)
            v    == Append(w, id)
            last == Len(r.sections)
<1>1. r.sections \in Seq(Sections) /\ last \in Nat
  BY DEF Recorders
<1>2. /\ q.state = r.state /\ q.id = r.id /\ Len(q.sections) = last
      /\ \A s \in 1 .. last : /\ q.sections[s].start = r.sections[s].start
                              /\ q.sections[s].stop = r.sections[s].stop
      /\ \/ q = r
         \/ /\ r.state = "active" /\ last \in 1 .. last /\ r.sections[last] \in Sections
            /\ q.sections[last].sent = Append(r.sections[last].sent, Entry(id))
            /\ \A s \in 1 .. last : s # last => q.sections[s] = r.sections[s]
  BY RecordedIs
<1>3. q = r => r.state # "active"
  <2>1. SUFFICES ASSUME r.state = "active" PROVE Len(q.entries) # Len(r.entries)
    OBVIOUS
  <2>2. kind = "game"
    BY <2>1 DEF KindOnWire
  <2>3. q.entries = Append(r.entries, Entry(id))
    BY <2>1, <2>2 DEF Record, IsRecordable, RecordKinds, ReplayKinds, Recorders
  <2>4. r.entries \in Seq(Entries) /\ Entry(id) \in Entries
    BY DEF Recorders, Entry, Entries, Outcomes
  <2>. HIDE DEF q
  <2> QED
    BY <2>3, <2>4, AppendProperties
<1>4. ~Transitioning(q)
  BY <1>2 DEF Transitioning
<1>. HIDE DEF q
<1>5. ASSUME NEW s \in 1 .. last, r.sections[s].stop # 0, q.sections[s] = r.sections[s]
      PROVE  \E before : Covers(q.sections[s], v, before)
  <2>1. PICK k : Covers(r.sections[s], w, k)
    BY <1>5 DEF Sectioned
  <2>2. r.sections[s] \in Sections /\ r.sections[s].stop < id
    BY <1>1 DEF Behind
  <2>3. Covers(r.sections[s], v, k)
    BY <1>5, <2>1, <2>2, CoversPast
  <2> QED
    BY <1>5, <2>3
<1>6. ASSUME q = r PROVE Sectioned(q, v)
  <2>1. ~IsRecording(q)
    BY <1>2, <1>3, <1>6 DEF IsRecording, Transitioning
  <2>2. \A s \in 1 .. last : r.sections[s].stop # 0 => \E before : Covers(r.sections[s], v, before)
    BY <1>5, <1>6
  <2> QED
    BY <1>4, <1>6, <2>1, <2>2 DEF Sectioned
<1>7. ASSUME q # r PROVE Sectioned(q, v)
  <2>1. /\ r.state = "active" /\ last \in 1 .. last /\ r.sections[last] \in Sections
        /\ q.sections[last].sent = Append(r.sections[last].sent, Entry(id))
        /\ \A s \in 1 .. last : s # last => q.sections[s] = r.sections[s]
        /\ q.sections[last].start = r.sections[last].start
        /\ q.sections[last].stop = r.sections[last].stop
    BY <1>2, <1>7
  <2>2. r.sections[last].stop = 0 /\ r.sections[last].start < id
    BY <2>1 DEF Sectioned, IsRecording, Behind
  <2>3. PICK k : Covers(r.sections[last], w, k) /\ k + Len(r.sections[last].sent) = Len(w)
    BY <2>1 DEF Sectioned, IsRecording
  <2>. DEFINE a == r.sections[last]
              b == q.sections[last]
  <2>6. /\ a \in Sections /\ a.stop = 0 /\ a.start < id /\ b.start = a.start
        /\ b.stop = a.stop /\ b.sent = Append(a.sent, Entry(id))
        /\ Covers(a, w, k) /\ k + Len(a.sent) = Len(w)
    BY <2>1, <2>2, <2>3
  <2>. HIDE DEF a, b
  <2>7. Covers(b, v, k) /\ k + Len(b.sent) = Len(v)
    BY <2>6, CoversNow
  <2>4. Covers(q.sections[last], v, k) /\ k + Len(q.sections[last].sent) = Len(v)
    BY <2>7 DEF b
  <2>5. \A s \in 1 .. last : q.sections[s].stop # 0 => \E before : Covers(q.sections[s], v, before)
    BY <1>5, <2>1, <2>4
  <2> QED
    BY <1>2, <1>4, <2>1, <2>2, <2>4, <2>5 DEF Sectioned
<1>8. Sectioned(q, v)
  BY <1>6, <1>7
<1> QED
  BY <1>8 DEF q

\* An answer changes outcomes.
LEMMA TerminalSectioned ==
    ASSUME NEW r \in Recorders, LastIsNow(r), NEW w, NEW id \in Ids,
           NEW outcome \in Settled, Sectioned(r, w)
    PROVE  Sectioned(Terminal(r, id, outcome), w)
<1>. DEFINE q   == Terminal(r, id, outcome)
            new == Witnessed(r.sections, id, outcome)
<1>1. r.sections \in Seq(Sections) /\ Len(r.sections) \in Nat
  BY DEF Recorders
<1>2. /\ q.state = r.state /\ q.id = r.id /\ q.sections = new
  BY TerminalIs
<1>3. /\ Len(new) = Len(r.sections)
      /\ \A s \in 1 .. Len(r.sections) :
            /\ new[s].start = r.sections[s].start
            /\ new[s].stop = r.sections[s].stop
            /\ new[s].sent = Answered(r.sections[s].sent, id, outcome)
  BY <1>1, WitnessedType
<1>. HIDE DEF q, new
<1>4. ASSUME NEW s \in 1 .. Len(r.sections)
      PROVE  /\ Len(new[s].sent) = Len(r.sections[s].sent)
             /\ \A k : Covers(r.sections[s], w, k) => Covers(new[s], w, k)
  <2>. DEFINE old == r.sections[s].sent
  <2>0. r.sections[s] \in Sections
    BY <1>1
  <2>1. old \in Seq(Entries)
    BY <2>0 DEF Sections
  <2>. HIDE DEF old
  <2>2. /\ Len(Answered(old, id, outcome)) = Len(old)
        /\ \A i \in 1 .. Len(old) :
              Answered(old, id, outcome)[i] =
                  IF old[i].id = id THEN [id |-> id, outcome |-> outcome] ELSE old[i]
    BY <2>1, AnsweredIs
  <2>3. /\ Len(new[s].sent) = Len(old)
        /\ \A i \in 1 .. Len(old) : new[s].sent[i].id = old[i].id
    BY <1>3, <2>2 DEF old
  <2> QED
    BY <1>3, <2>3, CoversSame DEF old
<1>5. \A s \in 1 .. Len(q.sections) :
          q.sections[s].stop # 0 => \E before : Covers(q.sections[s], w, before)
  BY <1>2, <1>3, <1>4 DEF Sectioned
<1>6. IsRecording(q) => IsRecording(r) /\ Len(q.sections) = Len(r.sections)
  BY <1>2, <1>3 DEF IsRecording
<1>7. Transitioning(q) => Transitioning(r)
  BY <1>2 DEF Transitioning
<1>. DEFINE last == Len(r.sections)
<1>8. ASSUME IsRecording(r), last \in 1 .. last
      PROVE  /\ q.sections[last].stop = 0
             /\ \E before : Covers(q.sections[last], w, before)
                            /\ before + Len(q.sections[last].sent) = Len(w)
  BY <1>2, <1>3, <1>4, <1>8 DEF Sectioned
<1>9. IsRecording(r) => last \in 1 .. last
  BY DEF LastIsNow, IsRecording
<1>10. Sectioned(q, w)
  BY <1>2, <1>3, <1>5, <1>6, <1>7, <1>8, <1>9 DEF Sectioned
<1> QED
  BY <1>10 DEF q

\* What reply() does to the sections: one begins, one ends, or none changes.
LEMMA PollSections ==
    ASSUME RecorderTypeOK, Protocol, Filed, PollReply
    PROVE  LET last == Len(recorder.sections) IN
           \/ /\ recorder.state = "starting" /\ recorder'.state = "active" /\ recorder'.id = 0
              /\ Len(recorder'.sections) = last + 1
              /\ \A s \in 1 .. last : recorder'.sections[s] = recorder.sections[s]
              /\ recorder'.sections[last + 1]
                    = [start |-> recorder.id, stop |-> 0, sent |-> << >>]
           \/ /\ recorder.state = "stopping" /\ recorder'.state = "idle" /\ recorder'.id = 0
              /\ last \in 1 .. last /\ Len(recorder'.sections) = last
              /\ \A s \in 1 .. last : s # last => recorder'.sections[s] = recorder.sections[s]
              /\ recorder'.sections[last].start = recorder.sections[last].start
              /\ recorder'.sections[last].stop = recorder.id
              /\ recorder'.sections[last].sent = recorder.sections[last].sent
           \/ /\ recorder'.sections = recorder.sections
              /\ \/ recorder'.state = "idle" /\ recorder'.id \in {0, recorder.id}
                 \/ recorder'.state = recorder.state /\ recorder'.id = recorder.id
<1>. DEFINE last  == Len(recorder.sections)
            reply == worker.replies[1]
<1>1. /\ recorder \in Recorders /\ recorder.sections \in Seq(Sections) /\ last \in Nat
      /\ recorder.id \in Paths /\ reply \in ReplySet /\ recorder' = Replied(recorder, reply)
  BY PollReplyIs DEF RecorderTypeOK, Recorders
<1>2. /\ reply.kind = "started" => recorder.state = "starting"
      /\ reply.kind = "stopped" => recorder.state = "stopping"
  BY ReplyIsDue
<1>. HIDE DEF reply
<1>3. CASE recorder.state = "starting" /\ recorder' = Started(recorder)
  <2>. DEFINE section == [start |-> recorder.id, stop |-> 0, sent |-> << >>]
  <2>1. section \in Sections
    <3>1. recorder.id \in Paths /\ 0 \in Paths
      BY <1>1, LastIdAssumption DEF Paths
    <3> QED
      BY <3>1, EmptySeq DEF Sections
  <2>2. /\ recorder'.sections = Append(recorder.sections, section)
        /\ recorder'.state = "active" /\ recorder'.id = 0
    BY <1>1, <1>3 DEF Started, Recorders
  <2>3. /\ Len(Append(recorder.sections, section)) = last + 1
        /\ \A s \in 1 .. last : Append(recorder.sections, section)[s] = recorder.sections[s]
        /\ Append(recorder.sections, section)[last + 1] = section
    BY <1>1, <2>1, AppendProperties
  <2> QED
    BY <1>3, <2>2, <2>3
<1>4. CASE recorder.state = "stopping" /\ \E ok : recorder' = Stopped(recorder, ok)
  <2>. DEFINE section == [recorder.sections[last] EXCEPT !.stop = recorder.id]
  <2>1. last \in 1 .. last
    BY <1>4 DEF Filed, Named, LastIsNow
  <2>2. recorder.sections[last] \in Sections
    BY <1>1, <2>1
  <2>3. /\ section \in Sections /\ section.stop = recorder.id
        /\ section.sent = recorder.sections[last].sent
        /\ section.start = recorder.sections[last].start
    BY <1>1, <2>2 DEF Sections
  <2>4. /\ recorder'.sections = [recorder.sections EXCEPT ![last] = section]
        /\ recorder'.state = "idle" /\ recorder'.id = 0
    BY <1>1, <1>4 DEF Stopped, Recorders
  <2>. HIDE DEF section
  <2>5. /\ Len([recorder.sections EXCEPT ![last] = section]) = last
        /\ \A s \in 1 .. last : [recorder.sections EXCEPT ![last] = section][s]
                                   = IF s = last THEN section ELSE recorder.sections[s]
    BY <1>1, <2>1, <2>3, ReplacedInSeq
  <2> QED
    BY <1>4, <2>1, <2>3, <2>4, <2>5
<1>5. CASE recorder' = Failed(recorder, reply.path)
  BY <1>1, <1>5 DEF Failed, Recorders
<1>6. CASE recorder' = [recorder EXCEPT !.state = "idle", !.id = 0]
  BY <1>1, <1>6 DEF Recorders
<1>7. CASE recorder' = recorder
  BY <1>7
<1> QED
  BY <1>1, <1>2, <1>3, <1>4, <1>5, <1>6, <1>7, RepliedIs

\* A recording that starts has sent nothing, and one that ends sent what is
\* older than its stop.
LEMMA PollSectioned ==
    ASSUME RecorderTypeOK, Protocol, Filed, PollReply, Sectioned(recorder, wire)
    PROVE  Sectioned(recorder', wire)
<1>. DEFINE last == Len(recorder.sections)
            old  == recorder.sections
            new  == recorder'.sections
<1>1. /\ old \in Seq(Sections) /\ last \in Nat /\ recorder.id \in Paths
      /\ wire \in Seq(Ids) /\ Len(wire) \in Nat
  BY DEF RecorderTypeOK, Recorders
<1>2. \A n \in 1 .. Len(wire) : wire[n] \in Int
  <2>1. \A n \in 1 .. Len(wire) : wire[n] \in Ids
    BY <1>1
  <2> QED
    BY <2>1, LastIdAssumption DEF Ids, NormalIds
<1>3. recorder.id \in Int
  BY <1>1, LastIdAssumption DEF Paths
<1>4. CASE /\ recorder.state = "starting" /\ recorder'.state = "active"
           /\ Len(new) = last + 1
           /\ \A s \in 1 .. last : new[s] = old[s]
           /\ new[last + 1] = [start |-> recorder.id, stop |-> 0, sent |-> << >>]
  <2>. DEFINE section == new[last + 1]
  <2>1. section.start = recorder.id /\ section.stop = 0 /\ Len(section.sent) = 0
    BY <1>4, EmptySeq
  <2>. HIDE DEF section
  <2>2. \A n \in 1 .. Len(wire) : ~Within(section, wire[n])
    BY <1>2, <1>3, <1>4, <2>1 DEF Sectioned, Transitioning, Within
  <2>3. Covers(section, wire, Len(wire)) /\ Len(wire) + Len(section.sent) = Len(wire)
    BY <1>1, <2>1, <2>2 DEF Covers
  <2>4. \A s \in 1 .. Len(new) : s \in 1 .. last \/ s = last + 1
    BY <1>1, <1>4
  <2>5. \A s \in 1 .. Len(new) : new[s].stop # 0 => \E before : Covers(new[s], wire, before)
    BY <1>4, <2>1, <2>4 DEF Sectioned, section
  <2> QED
    BY <1>4, <2>1, <2>3, <2>5 DEF Sectioned, Transitioning, section
<1>5. CASE /\ recorder.state = "stopping" /\ recorder'.state = "idle"
           /\ last \in 1 .. last /\ Len(new) = last
           /\ \A s \in 1 .. last : s # last => new[s] = old[s]
           /\ new[last].start = old[last].start /\ new[last].stop = recorder.id
           /\ new[last].sent = old[last].sent
  <2>1. PICK k : Covers(old[last], wire, k)
    BY <1>5 DEF Sectioned, IsRecording
  <2>2. old[last].stop = 0 /\ \A n \in 1 .. Len(wire) : wire[n] < recorder.id
    BY <1>5 DEF Sectioned, IsRecording, Transitioning
  <2>3. \A n \in 1 .. Len(wire) : Within(new[last], wire[n]) <=> Within(old[last], wire[n])
    BY <1>5, <2>2 DEF Within
  <2>4. Covers(new[last], wire, k)
    BY <1>5, <2>1, <2>3 DEF Covers
  <2>5. \A s \in 1 .. Len(new) : new[s].stop # 0 => \E before : Covers(new[s], wire, before)
    BY <1>5, <2>4 DEF Sectioned
  <2> QED
    BY <1>5, <2>5 DEF Sectioned, IsRecording, Transitioning
<1>6. CASE /\ new = old
           /\ \/ recorder'.state = "idle"
              \/ recorder'.state = recorder.state /\ recorder'.id = recorder.id
  BY <1>6 DEF Sectioned, IsRecording, Transitioning
<1> QED
  BY <1>4, <1>5, <1>6, PollSections

\* A pending start or stop is younger than all that was sent.
LEMMA ControlSectioned ==
    ASSUME RecorderTypeOK, NEW id \in NormalIds, NEW kind \in RecordKinds,
           NEW pending \in BOOLEAN, CallControl(id, kind, pending), Sectioned(recorder, wire)
    PROVE  Sectioned(recorder', wire)
<1>1. /\ recorder'.id = id /\ recorder'.sections = recorder.sections
      /\ \/ recorder.state = "idle" /\ recorder'.state = "starting"
         \/ recorder.state = "active" /\ recorder'.state = "stopping"
  BY ControlIs
<1>2. \A n \in 1 .. Len(wire) : wire[n] < id
  <2>1. wire \in Seq(Ids) /\ NextOnWire(id)
    BY DEF RecorderTypeOK, CallControl
  <2> QED
    BY <2>1 DEF NextOnWire
<1> QED
  BY <1>1, <1>2 DEF Sectioned, IsRecording

LEMMA SameSectioned ==
    ASSUME UNCHANGED <<recorder.state, recorder.id, recorder.sections>>, NEW w,
           Sectioned(recorder, w)
    PROVE  Sectioned(recorder', w)
BY DEF Sectioned, IsRecording, Transitioning

-----------------------------------------------------------------------------
(* What waits is younger than every start and stop *)

LEMMA LaterBehind ==
    ASSUME NEW r \in Recorders, NEW x \in Int, NEW y \in Int, x <= y, Behind(r, x)
    PROVE  Behind(r, y)
<1>1. r.id \in Int /\ r.sections \in Seq(Sections)
  BY LastIdAssumption DEF Recorders, Paths
<1>2. ASSUME NEW s \in 1 .. Len(r.sections)
      PROVE  r.sections[s].start < y /\ r.sections[s].stop < y
  <2>1. r.sections[s] \in Sections
    BY <1>1
  <2>2. r.sections[s].start \in Int /\ r.sections[s].stop \in Int
    BY <2>1, LastIdAssumption DEF Sections, Paths
  <2> QED
    BY <2>2 DEF Behind
<1> QED
  BY <1>1, <1>2 DEF Behind

\* Neither what is sent, nor an answer, nor a reply of the worker is a new start or stop.
LEMMA MovesKeepBehind ==
    ASSUME RecorderTypeOK, Protocol, Filed, RecorderMoves,
           NEW x \in Nat \ {0}, Behind(recorder, x)
    PROVE  Behind(recorder', x)
<1>1. recorder \in Recorders /\ recorder.sections \in Seq(Sections) /\ LastIsNow(recorder)
  BY DEF RecorderTypeOK, Recorders, Filed, Named
<1>2. ASSUME NEW id \in Ids
      PROVE  LET r == Record(recorder, id, KindOnWire(id)) IN
             r \in Recorders /\ Behind(r, x)
  <2>. DEFINE r == Record(recorder, id, KindOnWire(id))
  <2>1. /\ r.id = recorder.id /\ Len(r.sections) = Len(recorder.sections)
        /\ \A s \in 1 .. Len(recorder.sections) :
              /\ r.sections[s].start = recorder.sections[s].start
              /\ r.sections[s].stop = recorder.sections[s].stop
    BY <1>1, RecordedIs
  <2>2. r \in Recorders
    BY <1>1, RecordType
  <2>. HIDE DEF r
  <2>3. Behind(r, x)
    BY <2>1 DEF Behind
  <2> QED
    BY <2>2, <2>3 DEF r
<1>3. ASSUME NEW r \in Recorders, NEW id \in Ids, NEW outcome \in Settled, Behind(r, x)
      PROVE  Behind(Terminal(r, id, outcome), x)
  <2>. DEFINE q   == Terminal(r, id, outcome)
              new == Witnessed(r.sections, id, outcome)
  <2>1. r.sections \in Seq(Sections)
    BY DEF Recorders
  <2>2. q.id = r.id /\ q.sections = new
    BY TerminalIs
  <2>3. /\ Len(new) = Len(r.sections)
        /\ \A s \in 1 .. Len(r.sections) :
              new[s].start = r.sections[s].start /\ new[s].stop = r.sections[s].stop
    BY <2>1, WitnessedType
  <2>. HIDE DEF q, new
  <2>4. Behind(q, x)
    BY <1>3, <2>2, <2>3 DEF Behind
  <2> QED
    BY <2>4 DEF q
<1>4. "io" \in Settled /\ Answers \subseteq Settled
  BY DEF Settled
<1>5. CASE \E id \in Ids : CallSend(id, KindOnWire(id))
  BY <1>2, <1>5 DEF CallSend
<1>6. CASE \E id \in Ids : CallSendFailed(id, KindOnWire(id))
  <2>1. PICK id \in Ids : CallSendFailed(id, KindOnWire(id))
    BY <1>6
  <2>2. recorder' = Terminal(Record(recorder, id, KindOnWire(id)), id, "io")
    BY <2>1 DEF CallSendFailed
  <2> QED
    BY <1>2, <1>3, <1>4, <2>2
<1>7. CASE \E id \in Ids, outcome \in Answers : CallTerminal(id, outcome)
  <2>1. PICK id \in Ids, outcome \in Answers : CallTerminal(id, outcome)
    BY <1>7
  <2>2. recorder' = Terminal(recorder, id, outcome)
    BY <2>1 DEF CallTerminal
  <2> QED
    BY <1>1, <1>3, <1>4, <2>2
<1>8. CASE PollReply
  <2>. DEFINE last == Len(recorder.sections)
  <2>0. 0 < x /\ last \in Nat
    BY <1>1
  <2>1. CASE /\ recorder'.id = 0 /\ Len(recorder'.sections) = last + 1
             /\ \A s \in 1 .. last : recorder'.sections[s] = recorder.sections[s]
             /\ recorder'.sections[last + 1]
                   = [start |-> recorder.id, stop |-> 0, sent |-> << >>]
    <3>1. \A s \in 1 .. Len(recorder'.sections) : s \in 1 .. last \/ s = last + 1
      BY <2>0, <2>1
    <3> QED
      BY <2>0, <2>1, <3>1 DEF Behind
  <2>2. CASE /\ recorder'.id = 0 /\ last \in 1 .. last /\ Len(recorder'.sections) = last
             /\ \A s \in 1 .. last : s # last => recorder'.sections[s] = recorder.sections[s]
             /\ recorder'.sections[last].start = recorder.sections[last].start
             /\ recorder'.sections[last].stop = recorder.id
    BY <2>0, <2>2 DEF Behind
  <2>3. CASE recorder'.sections = recorder.sections /\ recorder'.id \in {0, recorder.id}
    BY <2>0, <2>3 DEF Behind
  <2> QED
    BY <1>8, <2>1, <2>2, <2>3, PollSections
<1>9. CASE Work /\ UNCHANGED baseVars
  BY <1>9, TakenIs DEF Work, WorkerStart, WorkerAppend, WorkerStop, WorkerEnd, Behind
<1>10. CASE UNCHANGED <<recorder, worker, files, active, wire>>
  BY <1>10
<1> QED
  BY <1>5, <1>6, <1>7, <1>8, <1>9, <1>10 DEF RecorderMoves

\* The moves keep the sections, if what is sent is younger than every start and stop.
LEMMA MovesKeepSectioned ==
    ASSUME RecorderTypeOK, Protocol, Filed, RecorderMoves, Sectioned(recorder, wire),
           \A id \in Ids : wire' = Append(wire, id) =>
              Behind(recorder, id) /\ (recorder.state = "active" => id # LastId)
    PROVE  Sectioned(recorder', wire')
<1>1. recorder \in Recorders /\ LastIsNow(recorder) /\ wire \in Seq(Ids)
  BY DEF RecorderTypeOK, Filed, Named
<1>2. ASSUME NEW id \in Ids, MaySend(id)
      PROVE  /\ Record(recorder, id, KindOnWire(id)) \in Recorders
             /\ LastIsNow(Record(recorder, id, KindOnWire(id)))
             /\ Sectioned(Record(recorder, id, KindOnWire(id)), wire')
  <2>. DEFINE r == Record(recorder, id, KindOnWire(id))
  <2>1. wire' = Append(wire, id) /\ ~Transitioning(recorder)
    BY <1>2 DEF MaySend
  <2>2. Sectioned(r, wire')
    BY <1>1, <2>1, RecordSectioned
  <2>3. r \in Recorders
    BY <1>1, RecordType
  <2>4. /\ r.state = recorder.state /\ r.path = recorder.path
        /\ Len(r.sections) = Len(recorder.sections)
        /\ \A s \in 1 .. Len(recorder.sections) :
              r.sections[s].start = recorder.sections[s].start
    BY <1>1, RecordIs
  <2>. HIDE DEF r
  <2>5. LastIsNow(r)
    BY <1>1, <2>4 DEF LastIsNow
  <2> QED
    BY <2>2, <2>3, <2>5 DEF r
<1>3. "io" \in Settled /\ Answers \subseteq Settled
  BY DEF Settled
<1>4. CASE \E id \in Ids : CallSend(id, KindOnWire(id))
  BY <1>2, <1>4 DEF CallSend
<1>5. CASE \E id \in Ids : CallSendFailed(id, KindOnWire(id))
  <2>1. PICK id \in Ids : CallSendFailed(id, KindOnWire(id))
    BY <1>5
  <2>2. MaySend(id) /\ recorder' = Terminal(Record(recorder, id, KindOnWire(id)), id, "io")
    BY <2>1 DEF CallSendFailed
  <2> QED
    BY <1>2, <1>3, <2>2, TerminalSectioned
<1>6. CASE \E id \in Ids, outcome \in Answers : CallTerminal(id, outcome)
  <2>1. PICK id \in Ids, outcome \in Answers : CallTerminal(id, outcome)
    BY <1>6
  <2>2. recorder' = Terminal(recorder, id, outcome) /\ wire' = wire
    BY <2>1 DEF CallTerminal
  <2> QED
    BY <1>1, <1>3, <2>2, TerminalSectioned
<1>7. CASE PollReply
  BY <1>7, PollSectioned, PollReplyIs
<1>8. CASE Work /\ UNCHANGED baseVars
  <2>1. UNCHANGED <<recorder.state, recorder.id, recorder.sections, wire>>
    BY <1>8, TakenIs DEF Work, WorkerStart, WorkerAppend, WorkerStop, WorkerEnd, baseVars
  <2> QED
    BY <2>1, SameSectioned
<1>9. CASE UNCHANGED <<recorder, worker, files, active, wire>>
  BY <1>9
<1> QED
  BY <1>4, <1>5, <1>6, <1>7, <1>8, <1>9 DEF RecorderMoves

\* The next command, and each that waits, is younger than all starts and stops.
Ahead == /\ Behind(recorder, NextId)
         /\ \A i \in 1 .. Len(deferred) : Behind(recorder, deferred[i])

\* A start or a stop that is accepted finds nothing waiting.
LEMMA ControlAhead ==
    ASSUME Parts, Links, Ahead, AcceptRecordControl
    PROVE  Ahead'
<1>1. PICK kind \in RecordKinds :
         /\ Grows(kind)
         /\ \/ CallControl(NextId, kind, TRUE) \/ CallControl(NextId, kind, FALSE)
            \/ UNCHANGED <<recorder, worker, files, active, wire>>
  BY AcceptRecordControlIs
<1>2. /\ NextId \in NormalIds /\ NextId' = NextId + 1 /\ NextId \in Int /\ UNCHANGED deferred
  BY <1>1, AcceptRecordControlIs DEF Grows, NextId, NormalIds
<1>3. recorder \in Recorders /\ deferred \in Seq(NormalIds)
  BY DEF Parts, RecorderTypeOK, Links, AcceptTypes
<1>4. Behind(recorder, NextId + 1)
  BY <1>2, <1>3, LaterBehind DEF Ahead
<1>5. CASE UNCHANGED recorder
  BY <1>2, <1>4, <1>5 DEF Ahead
<1>6. CASE recorder' # recorder
  <2>1. deferred = << >>
    BY <1>6 DEF AcceptRecordControl, MayControl
  <2>2. recorder'.id = NextId /\ recorder'.sections = recorder.sections
    BY <1>1, <1>2, <1>6, ControlIs DEF Parts
  <2>3. NextId < NextId + 1 /\ Len(deferred') = 0
    BY <1>2, <2>1, EmptySeq
  <2> QED
    BY <1>2, <1>4, <2>2, <2>3 DEF Ahead, Behind
<1> QED
  BY <1>5, <1>6

\* Who waits has waited before, or is the command that was just accepted.
LEMMA DeferredFrom ==
    ASSUME Parts, Links, [Next]_vars
    PROVE  \A i \in 1 .. Len(deferred') :
              \/ deferred'[i] = NextId
              \/ \E j \in 1 .. Len(deferred) : deferred'[i] = deferred[j]
<1>1. deferred \in Seq(NormalIds) /\ Len(deferred) \in Nat /\ wire \in Seq(Ids) /\ active \subseteq Ids
  BY DEF Parts, RecorderTypeOK, Links, AcceptTypes
<1>2. CASE SendDeferred
  <2>1. deferred # << >> /\ deferred' = Tail(deferred)
    BY <1>1, <1>2, SendDeferredIs
  <2>2. Len(deferred') = Len(deferred) - 1 /\ \A i \in 1 .. Len(deferred') : deferred'[i] = deferred[i + 1]
    BY <1>1, <2>1, HeadTailProperties
  <2>3. \A i \in 1 .. Len(deferred') : i + 1 \in 1 .. Len(deferred)
    BY <1>1, <2>2
  <2> QED
    BY <2>2, <2>3
<1>3. CASE AcceptDeferred
  <2>1. (\E kind \in GameKinds : Grows(kind)) /\ deferred' = Append(deferred, NextId)
    BY <1>3, AcceptDeferredIs
  <2>2. NextId \in NormalIds
    BY <2>1 DEF Grows
  <2>3. /\ Len(deferred') = Len(deferred) + 1 /\ deferred'[Len(deferred) + 1] = NextId
        /\ \A i \in 1 .. Len(deferred) : deferred'[i] = deferred[i]
    BY <1>1, <2>1, <2>2, AppendProperties
  <2>4. \A i \in 1 .. Len(deferred') : i \in 1 .. Len(deferred) \/ i = Len(deferred) + 1
    BY <1>1, <2>3
  <2> QED
    BY <2>3, <2>4
<1>4. CASE ~SendDeferred /\ ~AcceptDeferred
  <2>1. CASE Aside \/ UNCHANGED vars
    BY <2>1, AsideIs DEF acceptVars
  <2>2. CASE PollRecorder \/ DrainRecorder \/ TakeResponse \/ TakeShutdownResponse
    BY <2>2 DEF PollRecorder, DrainRecorder, TakeReply, TakeResponse, TakeShutdownResponse,
       acceptVars
  <2>3. CASE EndDeferred \/ TakeOperation \/ SubmitExhausted \/ WorkerStep \/ LoaderStep
             \/ FinishSession
    BY <2>3, PollsReplayIs, SubmitExhaustedIs, ThreadIs, FinishSessionIs
  <2>4. CASE EndReplayAndRecorder
    BY <2>4, EndReplayAndRecorderIs DEF Links
  <2>5. CASE AcceptShutdown \/ AcceptSend \/ SubmitPlan
    BY <2>5, AcceptShutdownIs, AcceptSendIs, SubmitPlanIs
  <2>6. CASE AcceptReplayControl \/ AcceptRecordControl \/ AcceptDuringReplay
    BY <2>6, AcceptReplayControlIs, AcceptRecordControlIs, AcceptDuringReplayIs
  <2> QED
    BY <1>4, <2>1, <2>2, <2>3, <2>4, <2>5, <2>6, StepIs DEF Touches
<1> QED
  BY <1>2, <1>3, <1>4

LEMMA AheadStep ==
    ASSUME LinkedInv, LinkedInv', Ahead, [Next]_vars
    PROVE  Ahead'
<1>0. Parts /\ Links /\ recorder' \in Recorders /\ recorder \in Recorders
  BY DEF LinkedInv, Parts, RecorderTypeOK
<1>1. NextId \in Nat \ {0} /\ NextId' \in Nat \ {0} /\ NextId <= NextId'
  BY <1>0, CommandsGrow DEF Grown, NextId
<1>2. ASSUME \A x \in Nat \ {0} : Behind(recorder, x) => Behind(recorder', x) PROVE Ahead'
  <2>1. Behind(recorder', NextId)
    BY <1>1, <1>2 DEF Ahead
  <2>2. Behind(recorder', NextId')
    BY <1>0, <1>1, <2>1, LaterBehind
  <2>3. ASSUME NEW j \in 1 .. Len(deferred) PROVE Behind(recorder', deferred[j])
    <3>1. deferred[j] \in NormalIds
      BY <1>0 DEF Links, AcceptTypes
    <3>2. deferred[j] \in Nat \ {0}
      BY <3>1, LastIdAssumption DEF NormalIds
    <3> QED
      BY <1>2, <3>2 DEF Ahead
  <2> QED
    BY <1>0, <2>1, <2>2, <2>3, DeferredFrom DEF Ahead
<1>3. CASE AcceptRecordControl
  BY <1>0, <1>3, ControlAhead
<1>4. CASE EndReplayAndRecorder
  <2>1. CallEnd
    BY <1>0, <1>4, EndReplayAndRecorderIs DEF Links
  <2>2. UNCHANGED <<recorder.id, recorder.sections>>
    BY <1>0, <2>1, EndIs DEF Parts
  <2> QED
    BY <1>2, <2>2 DEF Behind
<1>5. CASE AcceptReplayControl
  BY <1>0, <1>2, <1>5, AcceptReplayControlIs
<1>6. CASE ~AcceptRecordControl /\ ~EndReplayAndRecorder /\ ~AcceptReplayControl
  <2>1. RecorderMoves
    BY <1>0, <1>6, MovesStep
  <2>2. \A x \in Nat \ {0} : Behind(recorder, x) => Behind(recorder', x)
    BY <1>0, <2>1, MovesKeepBehind DEF Parts
  <2> QED
    BY <1>2, <2>2
<1> QED
  BY <1>3, <1>4, <1>5, <1>6

\* What goes to the game is younger than every start and stop; the shutdown
\* goes when nothing is recorded.
LEMMA SentBehind ==
    ASSUME LinkedInv, Ahead, [Next]_vars, NEW id \in Ids, wire' = Append(wire, id)
    PROVE  Behind(recorder, id) /\ (recorder.state = "active" => id # LastId)
<1>0. /\ Parts /\ Links /\ recorder \in Recorders /\ wire \in Seq(Ids) /\ active \subseteq Ids
      /\ NextId \in Nat \ {0} /\ NextId <= LastId /\ LastId \in Int
  <2>1. Parts /\ Links
    BY DEF LinkedInv
  <2>2. Len(commands) \in Nat /\ Len(commands) < LastId
    BY <2>1 DEF Links, AcceptTypes
  <2> QED
    BY <2>1, <2>2, LastIdAssumption DEF Parts, RecorderTypeOK, NextId
<1>1. ASSUME NEW other \in Ids, wire' = Append(wire, other) PROVE id = other
  <2>1. /\ Append(wire, id)[Len(wire) + 1] = id /\ Append(wire, other)[Len(wire) + 1] = other
    BY <1>0, AppendProperties
  <2> QED
    BY <1>1, <2>1
<1>2. wire' # wire
  <2>1. Len(Append(wire, id)) = Len(wire) + 1 /\ Len(wire) \in Nat
    BY <1>0, AppendProperties
  <2> QED
    BY <2>1
<1>3. NormalIds \subseteq Ids /\ LastId \notin NormalIds
  BY LastIdAssumption DEF Ids, NormalIds
<1>4. CASE SendDeferred
  <2>1. Head(deferred) \in NormalIds /\ wire' = Append(wire, Head(deferred)) /\ deferred # << >>
    BY <1>0, <1>4, SendDeferredIs
  <2>2. Head(deferred) = deferred[1] /\ 1 \in 1 .. Len(deferred)
    BY <1>0, <2>1, FirstDeferred DEF Links
  <2> QED
    BY <1>1, <1>3, <2>1, <2>2 DEF Ahead
<1>5. CASE AcceptShutdown
  <2>1. wire' = Append(wire, LastId) /\ LastId \in Ids /\ recorder.state = "idle"
    BY <1>0, <1>5, AcceptShutdownIs
  <2> QED
    BY <1>0, <1>1, <2>1, LaterBehind DEF Ahead
<1>6. CASE AcceptSend \/ SubmitPlan
  <2>1. NextId \in NormalIds /\ wire' = Append(wire, NextId)
    BY <1>0, <1>6, AcceptSendIs, SubmitPlanIs
  <2> QED
    BY <1>1, <1>3, <2>1 DEF Ahead
<1>7. CASE Aside \/ UNCHANGED vars
  BY <1>2, <1>7, AsideIs DEF baseVars
<1>8. CASE PollRecorder \/ DrainRecorder \/ TakeResponse \/ TakeShutdownResponse
  BY <1>2, <1>8 DEF PollRecorder, DrainRecorder, TakeReply, TakeResponse, TakeShutdownResponse,
     baseVars
<1>9. CASE EndDeferred \/ TakeOperation \/ SubmitExhausted \/ WorkerStep \/ LoaderStep
           \/ FinishSession
  BY <1>2, <1>9, PollsReplayIs, SubmitExhaustedIs, ThreadIs, FinishSessionIs
<1>10. CASE EndReplayAndRecorder
  BY <1>0, <1>2, <1>10, EndReplayAndRecorderIs DEF Links
<1>11. CASE AcceptReplayControl \/ AcceptRecordControl \/ AcceptDuringReplay \/ AcceptDeferred
  BY <1>0, <1>2, <1>11, AcceptReplayControlIs, AcceptRecordControlIs, AcceptDuringReplayIs,
     AcceptDeferredIs
<1> QED
  BY <1>4, <1>5, <1>6, <1>7, <1>8, <1>9, <1>10, <1>11, StepIs DEF Touches

LEMMA SectionedStep ==
    ASSUME LinkedInv, Ahead, Sectioned(recorder, wire), [Next]_vars
    PROVE  Sectioned(recorder', wire')
<1>0. Parts /\ Links
  BY DEF LinkedInv
<1>1. CASE AcceptRecordControl
  <2>1. PICK kind \in RecordKinds :
           \/ CallControl(NextId, kind, TRUE) \/ CallControl(NextId, kind, FALSE)
           \/ UNCHANGED <<recorder, worker, files, active, wire>>
    BY <1>0, <1>1, AcceptRecordControlIs
  <2>2. NextId \in NormalIds /\ wire' = wire
    BY <1>0, <1>1, AcceptRecordControlIs
  <2> QED
    BY <1>0, <2>1, <2>2, ControlSectioned DEF Parts
<1>2. CASE EndReplayAndRecorder
  <2>1. CallEnd
    BY <1>0, <1>2, EndReplayAndRecorderIs DEF Links
  <2>2. UNCHANGED <<wire, recorder.state, recorder.id, recorder.sections>>
    BY <1>0, <2>1, EndIs DEF Parts
  <2> QED
    BY <2>2, SameSectioned
<1>3. CASE AcceptReplayControl
  BY <1>0, <1>3, AcceptReplayControlIs
<1>4. CASE ~AcceptRecordControl /\ ~EndReplayAndRecorder /\ ~AcceptReplayControl
  <2>1. RecorderMoves
    BY <1>0, <1>4, MovesStep
  <2> QED
    BY <1>0, <2>1, SentBehind, MovesKeepSectioned DEF Parts
<1> QED
  BY <1>1, <1>2, <1>3, <1>4

LEMMA SectionedInit == Init => Ahead /\ Sectioned(recorder, wire)
<1>. SUFFICES ASSUME Init PROVE Ahead /\ Sectioned(recorder, wire)
  OBVIOUS
<1>1. recorder = NewRecorder /\ commands = << >> /\ deferred = << >>
  BY DEF Init, RecorderInit
<1>2. /\ recorder.id = 0 /\ recorder.state = "idle" /\ Len(recorder.sections) = 0
      /\ Len(deferred) = 0 /\ NextId = 1
  BY <1>1, EmptySeq DEF NewRecorder, NextId
<1> QED
  BY <1>2 DEF Ahead, Behind, Sectioned, IsRecording, Transitioning

LEMMA SectionedIsInterval ==
    ASSUME RecorderTypeOK, Sectioned(recorder, wire)
    PROVE  SectionIsWireInterval
<1>. SUFFICES ASSUME NEW s \in DOMAIN recorder.sections, recorder.sections[s].stop # 0
              PROVE  LET section == recorder.sections[s] IN
                     \E before \in 0 .. Len(wire) - Len(section.sent) :
                        /\ \A i \in DOMAIN section.sent : section.sent[i].id = wire[before + i]
                        /\ \A n \in DOMAIN wire :
                              section.start < wire[n] /\ wire[n] < section.stop
                                <=> n \in before + 1 .. before + Len(section.sent)
  BY DEF SectionIsWireInterval
<1>. DEFINE section == recorder.sections[s]
<1>1. /\ recorder.sections \in Seq(Sections) /\ s \in 1 .. Len(recorder.sections)
      /\ wire \in Seq(Ids) /\ Len(wire) \in Nat /\ DOMAIN wire = 1 .. Len(wire)
  BY DEF RecorderTypeOK, Recorders
<1>2. section \in Sections
  BY <1>1
<1>3. section.sent \in Seq(Entries)
  BY <1>2 DEF Sections
<1>4. Len(section.sent) \in Nat /\ DOMAIN section.sent = 1 .. Len(section.sent)
  BY <1>3
<1>5. section.stop # 0
  OBVIOUS
<1>6. PICK k : Covers(section, wire, k)
  BY <1>1, <1>5 DEF Sectioned
<1>. HIDE DEF section
<1>7. k \in 0 .. Len(wire) - Len(section.sent)
  BY <1>1, <1>4, <1>6 DEF Covers
<1>8. \A n \in 1 .. Len(wire) :
          section.start < wire[n] /\ wire[n] < section.stop
            <=> n \in k + 1 .. k + Len(section.sent)
  BY <1>1, <1>4, <1>5, <1>6 DEF Covers, Within
<1>9. \A i \in 1 .. Len(section.sent) : section.sent[i].id = wire[k + i]
  BY <1>6 DEF Covers
<1> QED
  BY <1>1, <1>4, <1>7, <1>8, <1>9 DEF section

(***************************************************************************)
(* A finished recording is an interval of the wire: what went to the game  *)
(* between its start and its stop, in this order, without a gap.  What     *)
(* was accepted while the file was being created is in it, what was        *)
(* accepted while it was being closed is not, whatever waited meanwhile    *)
(* (coordinator.rs:316-423, recording.rs record).                          *)
(***************************************************************************)
THEOREM SectionsAreIntervals == SafetySpec => []SectionIsWireInterval
<1>1. Init => LinkedInv /\ Ahead /\ Sectioned(recorder, wire)
  BY LinkedInit, SectionedInit
<1>2. /\ LinkedInv /\ Ahead /\ Sectioned(recorder, wire) /\ [Next]_vars
      => (LinkedInv /\ Ahead /\ Sectioned(recorder, wire))'
  BY LinkedStep, AheadStep, SectionedStep
<1>3. LinkedInv /\ Sectioned(recorder, wire) => SectionIsWireInterval
  BY SectionedIsInterval DEF LinkedInv, Parts
<1> QED
  BY <1>1, <1>2, <1>3, PTL DEF SafetySpec

-----------------------------------------------------------------------------
(* The control commands a replay has not answered yet *)

Unanswered(p) == Noted(p.notices) \o Waiting(p)

Keeps(p, id) == Contains(Unanswered(p), id)

\* They are the end of the line.
LEMMA UnansweredIs ==
    ASSUME NEW p, Well(p)
    PROVE  /\ Unanswered(p) \in Seq(NormalIds)
           /\ Line(p) = Noted(p.told) \o Unanswered(p)
<1>1. /\ Noted(p.told) \in Seq(NormalIds) /\ Noted(p.notices) \in Seq(NormalIds)
      /\ Waiting(p) \in Seq(NormalIds)
  BY LineType
<1> QED
  BY <1>1, ConcatProperties, Regrouped DEF Line, Unanswered

\* The i-th of them in the line.
LEMMA UnansweredAt ==
    ASSUME NEW a \in Seq(NormalIds), NEW b \in Seq(NormalIds), NEW i \in 1 .. Len(b)
    PROVE  Len(a) + i \in 1 .. Len(a \o b) /\ (a \o b)[Len(a) + i] = b[i]
<1>1. /\ Len(a \o b) = Len(a) + Len(b) /\ Len(a) \in Nat /\ Len(b) \in Nat
      /\ \A k \in 1 .. Len(a) + Len(b) : (a \o b)[k] = IF k <= Len(a) THEN a[k] ELSE b[k - Len(a)]
  BY ConcatProperties
<1>2. Len(a) + i \in 1 .. Len(a) + Len(b) /\ ~(Len(a) + i <= Len(a)) /\ (Len(a) + i) - Len(a) = i
  BY <1>1
<1> QED
  BY <1>1, <1>2

\* A call that leaves the line and what was told leaves them.
LEMMA UnansweredSame ==
    ASSUME NEW p, Well(p), NEW q, Well(q), SameLine(p, q), q.told = p.told
    PROVE  Unanswered(q) = Unanswered(p)
<1>. DEFINE a == Noted(p.told)
            b == Unanswered(p)
            c == Unanswered(q)
<1>1. a \in Seq(NormalIds) /\ b \in Seq(NormalIds) /\ c \in Seq(NormalIds) /\ a \o c = a \o b
  BY LineType, UnansweredIs DEF SameLine
<1>. HIDE DEF a, b, c
<1>2. /\ Len(a \o b) = Len(a) + Len(b) /\ Len(a \o c) = Len(a) + Len(c)
      /\ Len(a) \in Nat /\ Len(b) \in Nat /\ Len(c) \in Nat
  BY <1>1, ConcatProperties
<1>3. Len(b) = Len(c)
  BY <1>1, <1>2
<1>4. ASSUME NEW i \in 1 .. Len(b) PROVE c[i] = b[i]
  <2>1. (a \o b)[Len(a) + i] = b[i] /\ (a \o c)[Len(a) + i] = c[i]
    BY SMTT(30), <1>1, <1>3, UnansweredAt
  <2> QED
    BY <1>1, <2>1
<1> QED
  BY <1>1, <1>3, <1>4, SeqEqual DEF b, c

LEMMA UnansweredDistinct ==
    ASSUME NEW p, Well(p), Distinct(Line(p))
    PROVE  Distinct(Unanswered(p))
<1>. DEFINE a == Noted(p.told)
            b == Unanswered(p)
<1>1. a \in Seq(NormalIds) /\ b \in Seq(NormalIds) /\ Line(p) = a \o b
  BY LineType, UnansweredIs
<1>. HIDE DEF a, b
<1>2. ASSUME NEW i \in 1 .. Len(b), NEW j \in 1 .. Len(b), b[i] = b[j] PROVE i = j
  <2>1. /\ Len(a) + i \in 1 .. Len(a \o b) /\ (a \o b)[Len(a) + i] = b[i]
        /\ Len(a) + j \in 1 .. Len(a \o b) /\ (a \o b)[Len(a) + j] = b[j]
    BY <1>1, UnansweredAt
  <2>2. Len(a) + i = Len(a) + j
    BY <1>1, <1>2, <2>1 DEF Distinct
  <2> QED
    BY <1>1, <2>2
<1> QED
  BY <1>2 DEF Distinct, b

\* Which they are.
KeptBy(p, id) ==
    \/ \E i \in 1 .. Len(p.notices) : p.notices[i].id = id
    \/ IsBusy(p) /\ (id = p.run.start \/ \E i \in 1 .. Len(p.run.stops) : p.run.stops[i] = id)

LEMMA KeepsIs ==
    ASSUME NEW p, Well(p), NEW id
    PROVE  Keeps(p, id) <=> KeptBy(p, id)
<1>. DEFINE noted == Noted(p.notices)
            waits == Waiting(p)
            one == <<p.run.start>>
            stops == p.run.stops
<1>1. /\ noted \in Seq(NormalIds) /\ waits \in Seq(NormalIds) /\ p.notices \in Seq(Notices)
      /\ stops \in Seq(NormalIds)
  BY LineType DEF Well, Replays, Runs
<1>2. Keeps(p, id) <=> Contains(noted, id) \/ Contains(waits, id)
  <2>1. Unanswered(p) = noted \o waits
    BY DEF Unanswered
  <2>. HIDE DEF noted, waits
  <2> QED
    BY <1>1, <2>1, JoinedContains, ConcatContains DEF Keeps
<1>3. Contains(noted, id) <=> \E i \in 1 .. Len(p.notices) : p.notices[i].id = id
  BY <1>1, NotedIs DEF Contains
<1>4. CASE ~IsBusy(p)
  <2>1. ~Contains(waits, id)
    BY <1>4, EmptySeq DEF Waiting, Contains
  <2> QED
    BY <1>2, <1>3, <1>4, <2>1 DEF KeptBy
<1>5. CASE IsBusy(p)
  <2>1. one \in Seq(NormalIds) /\ waits = one \o stops
    BY <1>5 DEF Waiting, Well
  <2>2. Contains(one, id) <=> id = p.run.start
    BY DEF Contains
  <2>3. Contains(stops, id) <=> \E i \in 1 .. Len(p.run.stops) : p.run.stops[i] = id
    BY DEF Contains
  <2>. HIDE DEF one, stops
  <2>4. Contains(waits, id) <=> Contains(one, id) \/ Contains(stops, id)
    BY <1>1, <2>1, JoinedContains, ConcatContains
  <2>. HIDE DEF waits, noted
  <2> QED
    BY <1>2, <1>3, <1>5, <2>2, <2>3, <2>4 DEF KeptBy
<1> QED
  BY <1>4, <1>5

\* Each is a command of the replay.
LEMMA KeptUsed ==
    ASSUME NEW p, Well(p), NEW id, Keeps(p, id)
    PROVE  id \in ControlIds(p) /\ id \in NormalIds
<1>1. p.notices \in Seq(Notices) /\ p.run.stops \in Seq(NormalIds)
  BY DEF Well, Replays, Runs
<1>2. KeptBy(p, id)
  BY KeepsIs
<1>3. id \in NormalIds
  BY UnansweredIs DEF Keeps, Contains
<1>4. id \in ControlIds(p)
  BY <1>1, <1>2 DEF KeptBy, ControlIds, ToSet
<1> QED
  BY <1>3, <1>4

\* Handing the notices over answers those they are about.
LEMMA ToldKeeps ==
    ASSUME NEW p, Well(p), Distinct(Line(p)), NEW id
    PROVE  /\ Keeps(Told(p), id) <=>
                 Keeps(p, id) /\ \A i \in 1 .. Len(p.notices) : p.notices[i].id # id
           /\ Told(p).notices = << >>
<1>. DEFINE noted == Noted(p.notices)
            waits == Waiting(p)
<1>1. /\ noted \in Seq(NormalIds) /\ waits \in Seq(NormalIds) /\ p.notices \in Seq(Notices)
      /\ Well(Told(p))
  BY LineType, ToldWell DEF Well, Replays
<1>2. Told(p).notices = << >> /\ Told(p).run = p.run
  BY DEF Told, Well, Replays
<1>3. /\ Contains(noted, id) <=> \E i \in 1 .. Len(p.notices) : p.notices[i].id = id
      /\ Len(noted) = Len(p.notices)
  BY <1>1, NotedIs DEF Contains
<1>4. Keeps(p, id) <=> Contains(noted, id) \/ Contains(waits, id)
  <2>1. Unanswered(p) = noted \o waits
    BY DEF Unanswered
  <2>. HIDE DEF noted, waits
  <2> QED
    BY <1>1, <2>1, JoinedContains, ConcatContains DEF Keeps
<1>5. Keeps(Told(p), id) <=> Contains(waits, id)
  <2>1. /\ KeptBy(Told(p), id) <=>
              IsBusy(p) /\ (id = p.run.start \/ \E i \in 1 .. Len(p.run.stops) : p.run.stops[i] = id)
    BY <1>2, EmptySeq DEF KeptBy, IsBusy
  <2>. DEFINE q == [p EXCEPT !.notices = << >>]
  <2>2. q.notices = << >> /\ q.run = p.run /\ Well(q)
    BY EmptySeq DEF Well, Replays, IsBusy
  <2>3. Unanswered(q) = waits
    <3>1. Noted(<< >>) = << >>
      <4>1. << >> \in Seq(Notices) /\ Len(<< >>) = 0
        BY EmptySeq
      <4>2. Noted(<< >>) \in Seq(NormalIds) /\ Len(Noted(<< >>)) = 0
        BY <4>1, NotedIs
      <4> QED
        BY <4>2
    <3>2. Waiting(q) = waits
      BY <2>2 DEF Waiting, IsBusy
    <3> QED
      BY <1>1, <2>2, <3>1, <3>2, ConcatEmptySeq DEF Unanswered
  <2>4. KeptBy(q, id) <=> KeptBy(Told(p), id)
    BY <1>2, <2>2 DEF KeptBy, IsBusy
  <2>. HIDE DEF q, waits
  <2> QED
    BY <1>1, <2>2, <2>3, <2>4, KeepsIs DEF Keeps
<1>6. ~(Contains(noted, id) /\ Contains(waits, id))
  <2>. SUFFICES ASSUME Contains(noted, id), Contains(waits, id) PROVE FALSE
    OBVIOUS
  <2>1. Distinct(noted \o waits)
    BY UnansweredDistinct DEF Unanswered
  <2>. HIDE DEF noted, waits
  <2>2. PICK i \in 1 .. Len(noted) : noted[i] = id
    BY DEF Contains
  <2>3. PICK k \in 1 .. Len(waits) : waits[k] = id
    BY DEF Contains
  <2>4. /\ Len(noted \o waits) = Len(noted) + Len(waits) /\ Len(noted) \in Nat
        /\ Len(waits) \in Nat
        /\ \A n \in 1 .. Len(noted) + Len(waits) :
              (noted \o waits)[n] = IF n <= Len(noted) THEN noted[n] ELSE waits[n - Len(noted)]
    BY <1>1, ConcatProperties
  <2>5. i \in 1 .. Len(noted) + Len(waits) /\ i <= Len(noted)
    BY <2>4
  <2>6. Len(noted) + k \in 1 .. Len(noted \o waits) /\ (noted \o waits)[Len(noted) + k] = id
    BY <1>1, <2>3, UnansweredAt
  <2>7. i = Len(noted) + k
    BY <2>1, <2>2, <2>4, <2>5, <2>6 DEF Distinct
  <2> QED
    BY <2>4, <2>7
<1>. HIDE DEF noted, waits
<1> QED
  BY <1>2, <1>3, <1>4, <1>5, <1>6

\* No call but poll() and end() hands notices over.
LEMMA TerminalTold ==
    ASSUME NEW p, Well(p), NEW id, NEW outcome
    PROVE  RunTerminal(p, id, outcome).told = p.told
BY DEF RunTerminal, Finish, Well, Replays

LEMMA TakenTold == ASSUME NEW p, Well(p) PROVE Taken(p).told = p.told
BY DEF Taken, Well, Replays

LEMMA SubmittedTold ==
    ASSUME NEW p, Well(p), NEW id, NEW kind
    PROVE  Submitted(p, id, kind).told = p.told
BY DEF Submitted, Well, Replays

LEMMA FailedTold == ASSUME NEW p, Well(p) PROVE SubmissionFailed(p).told = p.told
BY DEF SubmissionFailed, Finish, Well, Replays

LEMMA PolledTold ==
    ASSUME NEW p, Well(p), NEW l \in Loaders, NEW barrier
    PROVE  Polled(p, l, barrier).told = p.told
<1>1. Loaded(p, l).told = p.told
  BY DEF Loaded, Well, Replays, Loaders
<1>2. Waited(p, l, barrier).told = p.told /\ Waited(p, l, barrier) \in {p, Loaded(p, l),
         [p EXCEPT !.run = Running(@, << >>)], [p EXCEPT !.run.phase = "preparing"]}
  BY <1>1 DEF Waited, Well, Replays
<1> QED
  BY <1>2 DEF Polled, Finish, Well, Replays

LEMMA EndTold ==
    ASSUME NEW p, Well(p), NEW io
    PROVE  EndReplay(p, io).told = p.told
BY DEF EndReplay, Finish, Well, Replays

\* All steps but a control command, a poll and the end keep what is unanswered.
LEMMA KeepsStay ==
    ASSUME IInv, OnceInv, IInv', NEW id,
           \/ \E new \in NormalIds : CallNext(new) \/ CallNextFailed(new)
           \/ CallNextExhausted
           \/ \E new \in Ids : \/ CallExternal(new) \/ CallExternalFailed(new)
                               \/ \E outcome \in Answers : CallAnswer(new, outcome)
    PROVE  Keeps(replay', id) <=> Keeps(replay, id)
<1>0. Well(replay) /\ Well(replay') /\ ReplayMoves
  BY DEF IInv, ReplayMoves
<1>1. SameLine(replay, replay')
  BY <1>0, MovesLine
<1>2. ASSUME Frees, NEW new \in NormalIds
      PROVE  Taken(replay).told = replay.told /\ Well(Taken(replay))
             /\ FromReplay(new).told = replay.told /\ Well(FromReplay(new))
  <2>1. Well(Taken(replay)) /\ Well(FromReplay(new))
    BY <1>0, <1>2, SubmittedWell DEF Frees, Earlier, FromReplay
  <2> QED
    BY <1>0, <2>1, TakenTold, SubmittedTold DEF FromReplay
<1>3. replay'.told = replay.told
  <2>1. ASSUME NEW new \in NormalIds, CallNext(new) \/ CallNextFailed(new)
        PROVE  replay'.told = replay.told
    BY <1>2, <2>1, TerminalTold DEF CallNext, CallNextFailed
  <2>2. CASE CallNextExhausted
    <3>1. 1 \in NormalIds
      BY LastIdAssumption DEF NormalIds
    <3> QED
      BY <1>2, <2>2, <3>1, FailedTold DEF CallNextExhausted
  <2>3. ASSUME NEW new \in Ids, CallExternal(new) \/ CallExternalFailed(new)
        PROVE  replay'.told = replay.told
    BY <2>3 DEF CallExternal, CallExternalFailed, replayVars
  <2>4. ASSUME NEW new \in Ids, NEW outcome \in Answers, CallAnswer(new, outcome)
        PROVE  replay'.told = replay.told
    BY <1>0, <2>4, TerminalTold DEF CallAnswer
  <2> QED
    BY <2>1, <2>2, <2>3, <2>4
<1> QED
  BY <1>0, <1>1, <1>3, UnansweredSame DEF Keeps

\* A poll, or the end, answers those it has notices for, and those only.
Delivers(p, q) ==
    /\ Well(q) /\ q.notices \in Seq(Notices)
    /\ \A id : /\ (\E i \in 1 .. Len(q.notices) : q.notices[i].id = id) => Keeps(p, id)
               /\ Keeps(Told(q), id) <=>
                      Keeps(p, id) /\ \A i \in 1 .. Len(q.notices) : q.notices[i].id # id

LEMMA HandsOver ==
    ASSUME NEW p, Well(p), Distinct(Line(p)), NEW q, Well(q), SameLine(p, q), q.told = p.told
    PROVE  Delivers(p, q)
<1>1. Unanswered(q) = Unanswered(p) /\ Distinct(Line(q))
  BY UnansweredSame DEF SameLine
<1>2. q.notices \in Seq(Notices)
  BY DEF Well, Replays
<1>3. ASSUME NEW id PROVE Keeps(q, id) <=> Keeps(p, id)
  BY <1>1 DEF Keeps
<1>4. ASSUME NEW id, \E i \in 1 .. Len(q.notices) : q.notices[i].id = id PROVE Keeps(p, id)
  BY <1>3, <1>4, KeepsIs DEF KeptBy
<1>5. ASSUME NEW id
      PROVE  Keeps(Told(q), id) <=>
                 Keeps(p, id) /\ \A i \in 1 .. Len(q.notices) : q.notices[i].id # id
  BY <1>1, <1>3, ToldKeeps
<1> QED
  BY <1>2, <1>4, <1>5 DEF Delivers

LEMMA PollSettles ==
    ASSUME IInv, OnceInv, NEW barrier \in BOOLEAN
    PROVE  Delivers(replay, Polled(replay, loader, barrier))
<1>1. Well(replay) /\ loader \in Loaders /\ Orderly(replay) /\ Distinct(Line(replay))
  BY DEF IInv, ReplayTypeOK, OnceInv
<1> QED
  BY <1>1, PolledWell, PolledLine, PolledTold, HandsOver

LEMMA EndSettles ==
    ASSUME IInv, OnceInv, NEW io \in BOOLEAN
    PROVE  Delivers(replay, EndReplay(replay, io))
<1>1. Well(replay) /\ Orderly(replay) /\ Distinct(Line(replay))
  BY DEF IInv, OnceInv
<1> QED
  BY <1>1, EndsWell, EndLine, EndTold, HandsOver

\* A control command waits for its answer from now on.
LEMMA ControlKeeps ==
    ASSUME NEW p, Well(p), Orderly(p), NEW id \in NormalIds, NEW x,
           NEW q \in {ControlStart(p, id), ControlStop(p, id)}
    PROVE  Keeps(q, x) <=> Keeps(p, x) \/ x = id
<1>1. /\ p \in Replays /\ p.run \in Runs /\ p.notices \in Seq(Notices)
      /\ p.run.stops \in Seq(NormalIds) /\ Well(q)
  <2>1. Well(q)
    BY ControlWell
  <2> QED
    BY <2>1 DEF Well, Replays, Runs
<1>2. /\ Keeps(q, x) <=> KeptBy(q, x)
      /\ Keeps(p, x) <=> KeptBy(p, x)
  BY <1>1, KeepsIs
<1>3. ASSUME NEW outcome \in {"failed", "not_running"},
             q = [p EXCEPT !.notices = Append(p.notices, Notice(id, outcome))]
      PROVE  KeptBy(q, x) <=> KeptBy(p, x) \/ x = id
  <2>1. q.run = p.run /\ q.notices = Append(p.notices, Notice(id, outcome))
    BY <1>1, <1>3 DEF Replays
  <2>2. Notice(id, outcome) \in Notices /\ Notice(id, outcome).id = id
    BY DEF Notice, Notices
  <2>3. /\ Len(q.notices) = Len(p.notices) + 1 /\ Len(p.notices) \in Nat
        /\ \A i \in 1 .. Len(p.notices) : q.notices[i] = p.notices[i]
        /\ q.notices[Len(p.notices) + 1] = Notice(id, outcome)
    BY <1>1, <2>1, <2>2, AppendProperties
  <2>4. (\E i \in 1 .. Len(q.notices) : q.notices[i].id = x)
           <=> x = id \/ \E i \in 1 .. Len(p.notices) : p.notices[i].id = x
    <3>1. \A i \in 1 .. Len(p.notices) : i \in 1 .. Len(q.notices)
      BY <2>3
    <3>2. \A i \in 1 .. Len(q.notices) : i \in 1 .. Len(p.notices) \/ i = Len(p.notices) + 1
      BY <2>3
    <3>3. Len(p.notices) + 1 \in 1 .. Len(q.notices)
      BY <2>3
    <3> QED
      BY <2>2, <2>3, <3>1, <3>2, <3>3
  <2> QED
    BY <2>1, <2>4 DEF KeptBy, IsBusy
<1>4. CASE ~IsBusy(p) /\ q = ControlStart(p, id)
  <2>1. q.run = [NoRun EXCEPT !.phase = "waiting", !.start = id] /\ q.notices = p.notices
    BY <1>1, <1>4 DEF ControlStart, Replays
  <2>2. IsBusy(q) /\ q.run.start = id /\ q.run.stops = << >> /\ Len(<< >>) = 0
    BY <2>1, EmptySeq DEF IsBusy, NoRun
  <2> QED
    BY <1>2, <1>4, <2>1, <2>2 DEF KeptBy
<1>5. CASE IsBusy(p) /\ q = ControlStop(p, id)
  <2>1. /\ q.run.start = p.run.start /\ q.run.stops = Append(p.run.stops, id)
        /\ q.notices = p.notices /\ IsBusy(q)
    BY <1>1, <1>5 DEF ControlStop, Replays, Runs, IsBusy
  <2>2. /\ Len(q.run.stops) = Len(p.run.stops) + 1 /\ Len(p.run.stops) \in Nat
        /\ \A i \in 1 .. Len(p.run.stops) : q.run.stops[i] = p.run.stops[i]
        /\ q.run.stops[Len(p.run.stops) + 1] = id
    BY <1>1, <2>1, AppendProperties
  <2>3. (\E i \in 1 .. Len(q.run.stops) : q.run.stops[i] = x)
           <=> x = id \/ \E i \in 1 .. Len(p.run.stops) : p.run.stops[i] = x
    <3>1. \A i \in 1 .. Len(p.run.stops) : i \in 1 .. Len(q.run.stops)
      BY <2>2
    <3>2. \A i \in 1 .. Len(q.run.stops) : i \in 1 .. Len(p.run.stops) \/ i = Len(p.run.stops) + 1
      BY <2>2
    <3>3. Len(p.run.stops) + 1 \in 1 .. Len(q.run.stops)
      BY <2>2
    <3> QED
      BY <2>2, <3>1, <3>2, <3>3
  <2> QED
    BY <1>2, <1>5, <2>1, <2>3 DEF KeptBy
<1>6. CASE IsBusy(p) /\ q = ControlStart(p, id)
  BY <1>2, <1>3, <1>6 DEF ControlStart
<1>7. CASE ~IsBusy(p) /\ q = ControlStop(p, id)
  BY <1>2, <1>3, <1>7 DEF ControlStop
<1> QED
  BY <1>4, <1>5, <1>6, <1>7

-----------------------------------------------------------------------------
(* The balance *)

CommandOutcomes == Outcomes \cup {"ok", "failed", "completed", "stopped", "blocked",
                                  "was_running", "not_running", "ended"}

IsDeferred(id) == \E i \in 1 .. Len(deferred) : deferred[i] = id

\* Who keeps an accepted command.
KeptAt(id) == \/ id \in active
              \/ IsDeferred(id)
              \/ id = recorder.id
              \/ Keeps(replay, id)

\* An accepted command is open exactly while somebody keeps it.
Balanced == /\ \A id \in AcceptedIds : KeptAt(id) <=> outcomes[id] = "open"
            /\ \A id \in NormalIds : Len(commands) < id => outcomes[id] = "open"

(***************************************************************************)
(* That only one keeps it follows from the kinds: the game and the queue   *)
(* keep commands of the game, the recorder and the replay their own, and   *)
(* what waits is younger than what is on the wire.                         *)
(***************************************************************************)
Owners == /\ \A id \in active \ {LastId} : id \in AcceptedIds /\ commands[id] \in GameKinds
          /\ recorder.id # 0 => Transitioning(recorder)

Balance == outcomes \in [Ids -> CommandOutcomes] /\ Balanced /\ Owners

SessionInv == LinkedInv /\ Balance /\ shutdown \in {"none"} \cup Answers

\* Commands that are kept were accepted.
LEMMA KeptAccepted ==
    ASSUME SessionInv, NEW id \in NormalIds, KeptAt(id)
    PROVE  id \in AcceptedIds
<1>1. Len(commands) \in Nat /\ id # LastId /\ id # 0 /\ id \in Int /\ 1 <= id
  BY LastIdAssumption DEF SessionInv, LinkedInv, Links, AcceptTypes, NormalIds
<1>2. CASE id \in active
  BY <1>1, <1>2 DEF SessionInv, Balance, Balanced, Owners
<1>3. CASE IsDeferred(id)
  BY <1>3 DEF IsDeferred, SessionInv, LinkedInv, Links, Ordered, AcceptedIds
<1>4. CASE id = recorder.id
  BY <1>1, <1>4 DEF SessionInv, LinkedInv, Links, RecorderKnows, AcceptedIds
<1>5. CASE Keeps(replay, id)
  <2>1. id \in ControlIds(replay)
    BY <1>5, KeptUsed DEF SessionInv, LinkedInv, Parts, IInv
  <2> QED
    BY <1>1, <2>1 DEF SessionInv, LinkedInv, Links, ReplayKnows, AcceptedIds
<1> QED
  BY <1>2, <1>3, <1>4, <1>5 DEF KeptAt

\* And nobody else keeps them.
LEMMA KeptOnce ==
    ASSUME SessionInv, NEW id \in NormalIds
    PROVE  /\ id \in active => /\ \A i \in 1 .. Len(deferred) : deferred[i] # id
                               /\ id # recorder.id /\ ~Keeps(replay, id)
           /\ \A i \in 1 .. Len(deferred) :
                 deferred[i] = id => id # recorder.id /\ ~Keeps(replay, id)
           /\ id = recorder.id => ~Keeps(replay, id)
           /\ \A i, j \in 1 .. Len(deferred) : deferred[i] = deferred[j] => i = j
<1>1. Len(commands) \in Nat /\ id # LastId /\ id # 0 /\ id \in Int
  BY LastIdAssumption DEF SessionInv, LinkedInv, Links, AcceptTypes, NormalIds
<1>2. id \in active => commands[id] \in GameKinds
  BY <1>1 DEF SessionInv, Balance, Balanced, Owners
<1>3. \A i \in 1 .. Len(deferred) : deferred[i] = id => commands[id] \in GameKinds
  BY DEF SessionInv, LinkedInv, Links, Ordered
<1>4. id = recorder.id => commands[id] \in RecordKinds
  BY <1>1 DEF SessionInv, LinkedInv, Links, RecorderKnows
<1>5. Keeps(replay, id) => commands[id] \in ReplayKinds
  <2>1. Keeps(replay, id) => id \in ControlIds(replay)
    BY KeptUsed DEF SessionInv, LinkedInv, Parts, IInv
  <2> QED
    BY <1>1, <2>1 DEF SessionInv, LinkedInv, Links, ReplayKnows
<1>6. id \in active => \A i \in 1 .. Len(deferred) : deferred[i] # id
  <2>. SUFFICES ASSUME id \in active, NEW i \in 1 .. Len(deferred), deferred[i] = id PROVE FALSE
    OBVIOUS
  <2>1. PICK n \in 1 .. Len(wire) : wire[n] = id
    BY DEF SessionInv, LinkedInv, Parts, Filed, Witness, OnWire
  <2>2. wire[n] < deferred[i]
    BY DEF SessionInv, LinkedInv, Links, Ordered
  <2> QED
    BY <1>1, <2>1, <2>2
<1>7. \A i, j \in 1 .. Len(deferred) : deferred[i] = deferred[j] => i = j
  <2>. SUFFICES ASSUME NEW i \in 1 .. Len(deferred), NEW j \in 1 .. Len(deferred),
                       deferred[i] = deferred[j], i < j
       PROVE FALSE
    OBVIOUS
  <2>1. deferred[i] < deferred[j] /\ deferred[i] \in NormalIds
    BY DEF SessionInv, LinkedInv, Links, AcceptTypes, Ordered
  <2> QED
    BY <2>1 DEF NormalIds
<1> QED
  BY <1>2, <1>3, <1>4, <1>5, <1>6, <1>7 DEF GameKinds, RecordKinds, ReplayKinds

(***************************************************************************)
(* A step settles the commands of S, which are kept or accepted by it, and *)
(* accepts those of N.                                                     *)
(***************************************************************************)
Moves(S, N) ==
    /\ \/ N = {} /\ UNCHANGED commands
       \/ N = {NextId} /\ \E kind : Grows(kind)
    /\ S \subseteq NormalIds
    /\ \A id \in S : (KeptAt(id) \/ id \in N) /\ outcomes'[id] # "open"
    /\ \A id \in NormalIds : KeptAt(id)' <=> (KeptAt(id) \/ id \in N) /\ id \notin S
    /\ outcomes' \in [Ids -> CommandOutcomes]
    /\ \A id \in NormalIds \ S : outcomes'[id] = outcomes[id]
    /\ outcomes'[LastId] = outcomes[LastId] \/ FinishSession

\* Outcomes are given to open commands that are accepted, and stay.
Settlings == \A id \in NormalIds :
                outcomes'[id] # outcomes[id] => outcomes[id] = "open" /\ id \in AcceptedIds'

LEMMA MovesBalanced ==
    ASSUME SessionInv, NEW S, NEW N, Moves(S, N)
    PROVE  Balanced' /\ Settlings
<1>1. Len(commands) \in Nat /\ Len(commands) < LastId
  BY DEF SessionInv, LinkedInv, Links, AcceptTypes
<1>2. /\ Len(commands') \in Nat /\ AcceptedIds' = AcceptedIds \cup N
      /\ \A id \in N : id \in NormalIds /\ Len(commands) < id
      /\ \A id \in NormalIds : Len(commands') < id => Len(commands) < id
      /\ AcceptedIds \subseteq NormalIds
  <2>1. CASE N = {} /\ UNCHANGED commands
    BY <1>1, <2>1, LastIdAssumption DEF AcceptedIds, NormalIds
  <2>2. CASE N = {NextId} /\ \E kind : Grows(kind)
    <3>1. Len(commands') = NextId /\ NextId = Len(commands) + 1 /\ NextId \in NormalIds
      BY <2>2 DEF Grows, NextId
    <3> QED
      BY <1>1, <2>2, <3>1, LastIdAssumption DEF AcceptedIds, NormalIds
  <2> QED
    BY <2>1, <2>2 DEF Moves
<1>3. \A id \in NormalIds : KeptAt(id) => id \in AcceptedIds
  BY KeptAccepted
<1>4. ASSUME NEW id \in AcceptedIds' PROVE KeptAt(id)' <=> outcomes'[id] = "open"
  BY <1>1, <1>2, <1>4 DEF Moves, SessionInv, Balance, Balanced, Owners
<1>5. ASSUME NEW id \in NormalIds, Len(commands') < id PROVE outcomes'[id] = "open"
  <2>1. id \notin AcceptedIds'
    BY <1>2, <1>5 DEF AcceptedIds
  <2> QED
    BY <1>2, <1>3, <1>5, <2>1 DEF Moves, SessionInv, Balance, Balanced, Owners
<1>6. ASSUME NEW id \in NormalIds, outcomes'[id] # outcomes[id]
      PROVE  outcomes[id] = "open" /\ id \in AcceptedIds'
  BY <1>2, <1>3, <1>6 DEF Moves, SessionInv, Balance, Balanced, Owners
<1> QED
  BY <1>4, <1>5, <1>6 DEF Balanced, Settlings

\* The owners stay what they are.
OwnersKept == /\ \A id \in active' \ {LastId} :
                    id \in active \/ (id \in AcceptedIds' /\ commands'[id] \in GameKinds)
              /\ recorder'.id # 0 => Transitioning(recorder)'

Balances == OwnersKept /\ \E S, N : Moves(S, N)

-----------------------------------------------------------------------------
(* Each action settles what it lets go of *)

\* Nothing is kept or let go of.
LEMMA NothingMoves ==
    ASSUME SessionInv, UNCHANGED <<commands, active, deferred, outcomes, replay>>,
           recorder'.id = recorder.id, recorder'.state = recorder.state
    PROVE  Balances
<1>1. \A id \in NormalIds : KeptAt(id)' <=> KeptAt(id)
  BY DEF KeptAt, IsDeferred
<1>2. Moves({}, {})
  BY <1>1 DEF Moves, SessionInv, Balance
<1>3. OwnersKept
  BY DEF OwnersKept, SessionInv, Balance, Owners, Transitioning
<1> QED
  BY <1>2, <1>3 DEF Balances

\* What the recorder is told of a command leaves its transition.
LEMMA SentMoves ==
    ASSUME RecorderTypeOK, NEW id \in Ids, NEW kind, SendsGame(id, kind) \/ SendGameFails(id, kind)
    PROVE  /\ recorder'.id = recorder.id /\ recorder'.state = recorder.state
           /\ \/ SendsGame(id, kind) /\ active' = active \cup {id}
              \/ SendGameFails(id, kind) /\ active' = active
<1>. DEFINE r == Record(recorder, id, kind)
<1>1. r \in Recorders /\ r.id = recorder.id /\ r.state = recorder.state /\ "io" \in Settled
  BY RecordIs, RecordType DEF RecorderTypeOK, Settled
<1>. HIDE DEF r
<1>2. Terminal(r, id, "io").id = r.id /\ Terminal(r, id, "io").state = r.state
  BY <1>1, TerminalIs
<1> QED
  BY <1>1, <1>2 DEF SendsGame, SendGameFails, r

\* The outcome of one command.
LEMMA OutcomeSet ==
    ASSUME outcomes \in [Ids -> CommandOutcomes], NEW id \in NormalIds,
           NEW outcome \in CommandOutcomes \ {"open"},
           outcomes' = [outcomes EXCEPT ![id] = outcome]
    PROVE  /\ outcomes' \in [Ids -> CommandOutcomes] /\ outcomes'[id] # "open"
           /\ outcomes'[LastId] = outcomes[LastId]
           /\ \A other \in NormalIds \ {id} : outcomes'[other] = outcomes[other]
<1>1. id \in Ids /\ LastId \in Ids /\ id # LastId /\ NormalIds \subseteq Ids
  BY LastIdAssumption DEF Ids, NormalIds
<1> QED
  BY <1>1

\* A reply of the recording worker settles the control command that waits for it.
LEMMA ReplyMoves ==
    ASSUME SessionInv, TakeReply
    PROVE  Balances
<1>. DEFINE reply == worker.replies[1]
<1>1. /\ PollReply /\ UNCHANGED <<replay, active, commands, deferred>>
      /\ Head(worker.replies) = reply /\ reply \in ReplySet
      /\ outcomes' = IF SettledBy(recorder, reply) = 0 THEN outcomes
                     ELSE [outcomes EXCEPT ![SettledBy(recorder, reply)] = OutcomeOf(reply)]
  <2>1. PollReply /\ UNCHANGED <<replay, active, commands, deferred>>
    BY TakeReplyIs DEF TakeReply, baseVars
  <2>2. worker.replies # << >> /\ reply \in ReplySet /\ worker.replies \in Seq(ReplySet)
    BY <2>1, PollReplyIs DEF SessionInv, LinkedInv, Parts, RecorderTypeOK, Workers
  <2>3. Head(worker.replies) = reply
    BY <2>2
  <2> QED
    BY <2>1, <2>2, <2>3 DEF TakeReply
<1>2. recorder \in Recorders /\ RecorderTypeOK /\ Protocol
  BY DEF SessionInv, LinkedInv, Parts, RecorderTypeOK
<1>3. /\ recorder' = Replied(recorder, reply)
      /\ reply.kind = "started" => recorder.state = "starting"
      /\ reply.kind = "stopped" => recorder.state = "stopping"
      /\ reply.kind = "ended" => recorder.state \notin {"starting", "stopping"}
  BY <1>1, <1>2, PollReplyIs, ReplyIsDue
<1>. HIDE DEF reply
<1>4. \/ /\ reply.kind \in {"started", "stopped"} /\ recorder'.id = 0
         /\ SettledBy(recorder, reply) = recorder.id
      \/ /\ reply.kind \in {"failed", "ended"} /\ SettledBy(recorder, reply) = 0
         /\ recorder'.id = recorder.id
         /\ Transitioning(recorder) => recorder'.state = recorder.state
  <2>1. CASE recorder' = Started(recorder) /\ reply.kind = "started"
    BY <1>2, <2>1 DEF Started, Recorders, SettledBy
  <2>2. CASE recorder' = [recorder EXCEPT !.state = "idle", !.id = 0] /\ reply.kind = "started"
    BY <1>2, <2>2 DEF Recorders, SettledBy
  <2>3. CASE recorder' = Stopped(recorder, reply.ok) /\ reply.kind = "stopped"
    BY <1>2, <2>3 DEF Stopped, Recorders, SettledBy
  <2>4. CASE recorder' = Failed(recorder, reply.path) /\ reply.kind = "failed"
    BY <1>2, <2>4 DEF Failed, Recorders, SettledBy, Transitioning
  <2>5. CASE recorder' = recorder /\ reply.kind = "ended"
    BY <1>2, <2>5 DEF SettledBy
  <2> QED
    BY <1>1, <1>3, <2>1, <2>2, <2>3, <2>4, <2>5, RepliedIs
<1>5. OwnersKept
  <2>1. recorder'.id # 0 => Transitioning(recorder)'
    BY <1>4 DEF SessionInv, Balance, Owners, Transitioning
  <2> QED
    BY <1>1, <2>1 DEF OwnersKept
<1>6. CASE SettledBy(recorder, reply) = 0
  <2>1. outcomes' = outcomes /\ recorder'.id = recorder.id
    BY <1>1, <1>4, <1>6
  <2>2. \A id \in NormalIds : KeptAt(id)' <=> KeptAt(id)
    BY <1>1, <2>1 DEF KeptAt, IsDeferred
  <2>3. Moves({}, {})
    BY <1>1, <2>1, <2>2 DEF Moves, SessionInv, Balance
  <2> QED
    BY <1>5, <2>3 DEF Balances
<1>7. CASE SettledBy(recorder, reply) # 0
  <2>. DEFINE id == recorder.id
  <2>1. id # 0 /\ recorder'.id = 0 /\ outcomes' = [outcomes EXCEPT ![id] = OutcomeOf(reply)]
    BY <1>1, <1>4, <1>7
  <2>2. id \in NormalIds
    <3>1. id \in Int /\ 1 <= id /\ id <= Len(commands)
      BY <1>2, <2>1, LastIdAssumption DEF Recorders, Paths, NormalIds, SessionInv, LinkedInv,
         Links, RecorderKnows
    <3> QED
      BY <3>1, LastIdAssumption DEF SessionInv, LinkedInv, Links, AcceptTypes, NormalIds
  <2>3. /\ outcomes' \in [Ids -> CommandOutcomes] /\ outcomes'[id] # "open"
        /\ outcomes'[LastId] = outcomes[LastId]
        /\ \A other \in NormalIds \ {id} : outcomes'[other] = outcomes[other]
    <3>1. OutcomeOf(reply) \in CommandOutcomes \ {"open"}
      BY DEF OutcomeOf, CommandOutcomes
    <3> QED
      BY <2>1, <2>2, <3>1, OutcomeSet DEF SessionInv, Balance
  <2>4. KeptAt(id)
    BY DEF KeptAt
  <2>5. ASSUME NEW other \in NormalIds
        PROVE  KeptAt(other)' <=> KeptAt(other) /\ other \notin {id}
    <3>1. other # 0
      BY DEF NormalIds
    <3>2. other = id => ~(other \in active \/ IsDeferred(other) \/ Keeps(replay, other))
      BY KeptOnce DEF IsDeferred
    <3>3. KeptAt(other)' <=> other \in active \/ IsDeferred(other) \/ Keeps(replay, other)
      BY <1>1, <2>1, <3>1 DEF KeptAt, IsDeferred
    <3> QED
      BY <3>2, <3>3 DEF KeptAt
  <2>. HIDE DEF id
  <2>6. Moves({id}, {})
    BY <1>1, <2>2, <2>3, <2>4, <2>5 DEF Moves
  <2> QED
    BY <1>5, <2>6 DEF Balances
<1> QED
  BY <1>6, <1>7

\* A response settles its command.
LEMMA ResponseMoves ==
    ASSUME SessionInv, LinkedInv', TakeResponse
    PROVE  Balances
<1>1. PICK id \in active \ {LastId}, outcome \in Answers :
         /\ active' = active \ {id}
         /\ recorder' = Terminal(recorder, id, outcome)
         /\ replay' = RunTerminal(replay, id, outcome)
         /\ outcomes' = [outcomes EXCEPT ![id] = outcome]
  BY DEF TakeResponse
<1>2. UNCHANGED <<commands, deferred, wire, loader>>
  BY DEF TakeResponse
<1>3. id \in NormalIds /\ id \in Ids /\ outcome \in Settled /\ recorder \in Recorders
  BY DEF SessionInv, LinkedInv, Parts, RecorderTypeOK, Ids, Settled
<1>4. recorder'.id = recorder.id /\ recorder'.state = recorder.state
  BY <1>1, <1>3, TerminalIs
<1>5. \A x \in NormalIds : Keeps(replay', x) <=> Keeps(replay, x)
  <2>1. CallAnswer(id, outcome)
    BY <1>1, <1>2 DEF CallAnswer
  <2> QED
    BY <1>3, <2>1, KeepsStay DEF SessionInv, LinkedInv, Parts
<1>6. /\ outcomes' \in [Ids -> CommandOutcomes] /\ outcomes'[id] # "open"
      /\ outcomes'[LastId] = outcomes[LastId]
      /\ \A other \in NormalIds \ {id} : outcomes'[other] = outcomes[other]
  <2>1. outcome \in CommandOutcomes \ {"open"}
    BY AnswersAssumption DEF CommandOutcomes, Outcomes, Settled
  <2> QED
    BY <1>1, <1>3, <2>1, OutcomeSet DEF SessionInv, Balance
<1>7. ASSUME NEW other \in NormalIds
      PROVE  KeptAt(other)' <=> KeptAt(other) /\ other \notin {id}
  <2>1. other = id => other \in active /\ ~(IsDeferred(other) \/ other = recorder.id \/ Keeps(replay, other))
    BY KeptOnce DEF IsDeferred
  <2>2. KeptAt(other)' <=> \/ other \in active \ {id} \/ IsDeferred(other)
                           \/ other = recorder.id \/ Keeps(replay, other)
    BY <1>1, <1>2, <1>4, <1>5 DEF KeptAt, IsDeferred
  <2> QED
    BY <2>1, <2>2 DEF KeptAt
<1>8. Moves({id}, {})
  BY <1>2, <1>3, <1>6, <1>7 DEF Moves, KeptAt
<1>9. OwnersKept
  BY <1>1, <1>4 DEF OwnersKept, SessionInv, Balance, Owners, Transitioning
<1> QED
  BY <1>8, <1>9 DEF Balances

\* The first of the commands that wait goes to the game, or is settled.
LEMMA DeferredMoves ==
    ASSUME SessionInv, SendDeferred
    PROVE  Balances
<1>. DEFINE id == Head(deferred)
<1>1. /\ deferred # << >> /\ deferred' = Tail(deferred) /\ UNCHANGED <<commands, replay>>
      /\ \/ SendsGame(id, commands[id]) /\ UNCHANGED outcomes
         \/ SendGameFails(id, commands[id]) /\ outcomes' = [outcomes EXCEPT ![id] = "io"]
  BY DEF SendDeferred, MaySendDeferred, replayVars
<1>2. /\ id \in NormalIds /\ id \in Ids /\ id \in 1 .. Len(commands)
      /\ commands[id] \in GameKinds /\ id = deferred[1] /\ 1 \in 1 .. Len(deferred)
  BY <1>1, FirstDeferred DEF SessionInv, LinkedInv, Links, Ids
<1>3. \A x : IsDeferred(x)' <=> IsDeferred(x) /\ x # id
  <2>1. /\ Len(deferred') = Len(deferred) - 1 /\ Len(deferred) \in Nat
        /\ \A i \in 1 .. Len(deferred) - 1 : deferred'[i] = deferred[i + 1]
    BY <1>1 DEF SessionInv, LinkedInv, Links, AcceptTypes
  <2>2. \A i, j \in 1 .. Len(deferred) : deferred[i] = deferred[j] => i = j
    BY <1>2, KeptOnce
  <2>3. ASSUME NEW x, NEW i \in 1 .. Len(deferred'), deferred'[i] = x
        PROVE  i + 1 \in 1 .. Len(deferred) /\ deferred[i + 1] = x /\ x # id
    <3>1. i + 1 \in 1 .. Len(deferred) /\ deferred[i + 1] = x /\ i + 1 # 1
      BY <2>1, <2>3
    <3> QED
      BY <1>2, <2>2, <3>1
  <2>4. ASSUME NEW x, NEW i \in 1 .. Len(deferred), deferred[i] = x, x # id
        PROVE  i - 1 \in 1 .. Len(deferred') /\ deferred'[i - 1] = x
    <3>1. i # 1
      BY <1>2, <2>4
    <3>2. i - 1 \in 1 .. Len(deferred) - 1 /\ (i - 1) + 1 = i
      BY <2>1, <3>1
    <3> QED
      BY <2>1, <2>4, <3>2
  <2> QED
    BY <2>3, <2>4 DEF IsDeferred
<1>4. IsDeferred(id) /\ KeptAt(id)
  BY <1>2 DEF IsDeferred, KeptAt
<1>5. ~(id \in active \/ id = recorder.id \/ Keeps(replay, id))
  BY <1>2, <1>4, KeptOnce DEF IsDeferred
<1>. HIDE DEF id
<1>6. RecorderTypeOK
  BY DEF SessionInv, LinkedInv, Parts
<1>7. /\ recorder'.id = recorder.id /\ recorder'.state = recorder.state
      /\ \/ active' = active \cup {id} /\ UNCHANGED outcomes
         \/ active' = active /\ outcomes' = [outcomes EXCEPT ![id] = "io"]
  BY <1>1, <1>2, <1>6, SentMoves DEF SendsGame, SendGameFails
<1>8. OwnersKept
  <2>1. AcceptedIds' = AcceptedIds /\ commands'[id] = commands[id] /\ id \in AcceptedIds
    BY <1>1, <1>2 DEF AcceptedIds
  <2> QED
    BY <1>2, <1>7, <2>1 DEF OwnersKept, SessionInv, Balance, Owners, Transitioning
<1>9. CASE active' = active \cup {id} /\ UNCHANGED outcomes
  <2>1. ASSUME NEW other \in NormalIds PROVE KeptAt(other)' <=> KeptAt(other)
    BY <1>1, <1>3, <1>4, <1>7, <1>9 DEF KeptAt, IsDeferred
  <2>2. Moves({}, {})
    BY <1>1, <1>9, <2>1 DEF Moves, SessionInv, Balance
  <2> QED
    BY <1>8, <2>2 DEF Balances
<1>10. CASE active' = active /\ outcomes' = [outcomes EXCEPT ![id] = "io"]
  <2>1. ASSUME NEW other \in NormalIds
        PROVE  KeptAt(other)' <=> KeptAt(other) /\ other \notin {id}
    <3>1. IsDeferred(other)' <=> IsDeferred(other) /\ other # id
      BY <1>3
    <3>2. KeptAt(other)' <=> \/ other \in active \/ IsDeferred(other)'
                             \/ other = recorder.id \/ Keeps(replay, other)
      BY <1>1, <1>7, <1>10 DEF KeptAt
    <3> QED
      BY <1>5, <3>1, <3>2 DEF KeptAt
  <2>2. /\ outcomes' \in [Ids -> CommandOutcomes] /\ outcomes'[id] # "open"
        /\ outcomes'[LastId] = outcomes[LastId]
        /\ \A other \in NormalIds \ {id} : outcomes'[other] = outcomes[other]
    <3>1. "io" \in CommandOutcomes \ {"open"}
      BY DEF CommandOutcomes, Outcomes, Settled
    <3> QED
      BY <1>2, <1>10, <3>1, OutcomeSet DEF SessionInv, Balance
  <2>3. Moves({id}, {})
    BY <1>1, <1>2, <1>4, <2>1, <2>2 DEF Moves
  <2> QED
    BY <1>8, <2>3 DEF Balances
<1> QED
  BY <1>7, <1>9, <1>10

\* complete() settles the commands the notices are about.
LEMMA CompletedIs ==
    ASSUME outcomes \in [Ids -> CommandOutcomes], NEW notices \in Seq(Notices)
    PROVE  /\ Completed(notices) \in [Ids -> CommandOutcomes]
           /\ \A id \in Ids :
                 IF \E i \in 1 .. Len(notices) : notices[i].id = id
                 THEN Completed(notices)[id] # "open"
                 ELSE Completed(notices)[id] = outcomes[id]
<1>1. /\ DOMAIN notices = 1 .. Len(notices)
      /\ \A i \in 1 .. Len(notices) : notices[i].outcome \in CommandOutcomes \ {"open"}
  <2>1. DOMAIN notices = 1 .. Len(notices) /\ \A i \in 1 .. Len(notices) : notices[i] \in Notices
    OBVIOUS
  <2>2. \A n \in Notices : n.outcome \in CommandOutcomes \ {"open"}
    BY DEF Notices, CommandOutcomes
  <2> QED
    BY <2>1, <2>2
<1>2. ASSUME NEW id \in Ids
      PROVE  LET told == {i \in DOMAIN notices : notices[i].id = id}
                 o    == IF told = {} THEN outcomes[id]
                         ELSE notices[CHOOSE i \in told : TRUE].outcome
             IN  /\ o \in CommandOutcomes
                 /\ IF \E i \in 1 .. Len(notices) : notices[i].id = id
                    THEN o # "open" ELSE o = outcomes[id]
  <2>. DEFINE told == {i \in DOMAIN notices : notices[i].id = id}
              first == CHOOSE i \in told : TRUE
  <2>1. told # {} => first \in told
    OBVIOUS
  <2>2. told # {} <=> \E i \in 1 .. Len(notices) : notices[i].id = id
    BY <1>1
  <2>3. told \subseteq 1 .. Len(notices)
    BY <1>1
  <2>. HIDE DEF told, first
  <2>4. told # {} => notices[first].outcome \in CommandOutcomes \ {"open"}
    BY <1>1, <2>1, <2>3
  <2>5. outcomes[id] \in CommandOutcomes
    OBVIOUS
  <2>6. LET o == IF told = {} THEN outcomes[id] ELSE notices[first].outcome
        IN  /\ o \in CommandOutcomes
            /\ IF \E i \in 1 .. Len(notices) : notices[i].id = id
               THEN o # "open" ELSE o = outcomes[id]
    BY <2>2, <2>4, <2>5
  <2> QED
    BY <2>6 DEF told, first
<1> QED
  BY <1>2 DEF Completed

\* So do a poll of the replay and its end.
LEMMA NoticesMove ==
    ASSUME SessionInv, NEW q, Delivers(replay, q),
           replay' = Told(q), outcomes' = Completed(q.notices),
           UNCHANGED <<commands, deferred, active>>,
           recorder'.id = recorder.id, recorder'.state = recorder.state
    PROVE  Balances
<1>. DEFINE S == {id \in NormalIds : \E i \in 1 .. Len(q.notices) : q.notices[i].id = id}
<1>1. q.notices \in Seq(Notices) /\ outcomes \in [Ids -> CommandOutcomes]
  BY DEF Delivers, SessionInv, Balance
<1>2. NormalIds \subseteq Ids /\ LastId \in Ids /\ LastId \notin NormalIds
  BY LastIdAssumption DEF Ids, NormalIds
<1>3. /\ outcomes' \in [Ids -> CommandOutcomes]
      /\ \A id \in S : outcomes'[id] # "open"
      /\ \A id \in NormalIds \ S : outcomes'[id] = outcomes[id]
  BY <1>1, <1>2, CompletedIs
<1>4. outcomes'[LastId] = outcomes[LastId]
  <2>1. \A i \in 1 .. Len(q.notices) : q.notices[i] \in Notices
    BY <1>1
  <2>2. \A i \in 1 .. Len(q.notices) : q.notices[i].id \in NormalIds
    BY <2>1 DEF Notices
  <2> QED
    BY <1>1, <1>2, <2>2, CompletedIs
<1>5. ASSUME NEW id \in NormalIds
      PROVE  /\ id \in S => Keeps(replay, id)
             /\ Keeps(replay', id) <=> Keeps(replay, id) /\ id \notin S
  BY DEF Delivers
<1>6. S \subseteq NormalIds
  OBVIOUS
<1>. HIDE DEF S
<1>7. ASSUME NEW id \in NormalIds PROVE KeptAt(id)' <=> KeptAt(id) /\ id \notin S
  <2>1. id \in S => ~(id \in active \/ IsDeferred(id) \/ id = recorder.id)
    BY <1>5, KeptOnce DEF IsDeferred
  <2>2. KeptAt(id)' <=> \/ id \in active \/ IsDeferred(id)
                        \/ id = recorder.id \/ Keeps(replay', id)
    BY DEF KeptAt, IsDeferred
  <2> QED
    BY <1>5, <2>1, <2>2 DEF KeptAt
<1>8. Moves(S, {})
  BY <1>3, <1>4, <1>5, <1>6, <1>7 DEF Moves, KeptAt
<1>9. OwnersKept
  BY DEF OwnersKept, SessionInv, Balance, Owners, Transitioning
<1> QED
  BY <1>8, <1>9 DEF Balances

LEMMA PollMoves ==
    ASSUME SessionInv, EndDeferred \/ TakeOperation
    PROVE  Balances
<1>. DEFINE q == Polled(replay, loader, Transitioning(recorder))
<1>1. /\ replay' = Told(q) /\ outcomes' = Completed(q.notices)
      /\ UNCHANGED <<commands, deferred, active, recorder>>
  BY DEF EndDeferred, TakeOperation, PollsReplay, baseVars, recorderVars
<1>2. Delivers(replay, q)
  <2>1. Transitioning(recorder) \in BOOLEAN
    BY DEF Transitioning
  <2> QED
    BY <2>1, PollSettles DEF SessionInv, LinkedInv, Parts
<1>. HIDE DEF q
<1> QED
  BY <1>1, <1>2, NoticesMove

LEMMA EndMoves ==
    ASSUME SessionInv, EndReplayAndRecorder
    PROVE  Balances
<1>1. PICK io \in BOOLEAN :
         /\ replay' = Told(EndReplay(replay, io))
         /\ outcomes' = Completed(EndReplay(replay, io).notices)
  BY DEF EndReplayAndRecorder
<1>2. UNCHANGED <<commands, deferred, active>> /\ CallEnd
  BY EndReplayAndRecorderIs DEF SessionInv, LinkedInv, Links
<1>3. recorder'.id = recorder.id /\ recorder'.state = recorder.state
  BY <1>2, EndIs DEF SessionInv, LinkedInv, Parts
<1>4. Delivers(replay, EndReplay(replay, io))
  BY EndSettles DEF SessionInv, LinkedInv, Parts
<1> QED
  BY <1>1, <1>2, <1>3, <1>4, NoticesMove

\* A command that is accepted was not kept before; it is kept now, or settled at once.
LEMMA AcceptMoves ==
    ASSUME SessionInv, NEW kind, Grows(kind),
           \/ /\ UNCHANGED outcomes
              /\ \A id \in NormalIds : KeptAt(id)' <=> KeptAt(id) \/ id = NextId
           \/ /\ outcomes' \in {[outcomes EXCEPT ![NextId] = "failed"],
                                [outcomes EXCEPT ![NextId] = "io"]}
              /\ \A id \in NormalIds : KeptAt(id)' <=> KeptAt(id)
    PROVE  \E S, N : Moves(S, N)
<1>. DEFINE id == NextId
<1>1. id \in NormalIds /\ ~KeptAt(id)
  <2>1. id \in NormalIds /\ id \notin AcceptedIds
    BY DEF Grows, AcceptedIds, NormalIds
  <2> QED
    BY <2>1, KeptAccepted
<1>2. CASE /\ UNCHANGED outcomes
           /\ \A other \in NormalIds : KeptAt(other)' <=> KeptAt(other) \/ other = id
  <2>1. Moves({}, {id})
    BY <1>2 DEF Moves, SessionInv, Balance
  <2> QED
    BY <2>1
<1>3. ASSUME NEW outcome \in {"failed", "io"}, outcomes' = [outcomes EXCEPT ![id] = outcome],
             \A other \in NormalIds : KeptAt(other)' <=> KeptAt(other)
      PROVE  Moves({id}, {id})
  <2>1. outcome \in CommandOutcomes \ {"open"}
    BY DEF CommandOutcomes, Outcomes, Settled
  <2>2. /\ outcomes' \in [Ids -> CommandOutcomes] /\ outcomes'[id] # "open"
        /\ outcomes'[LastId] = outcomes[LastId]
        /\ \A other \in NormalIds \ {id} : outcomes'[other] = outcomes[other]
    BY <1>1, <1>3, <2>1, OutcomeSet DEF SessionInv, Balance
  <2>. HIDE DEF id
  <2>3. id = NextId
    BY DEF id
  <2> QED
    BY <1>1, <1>3, <2>2, <2>3 DEF Moves
<1> QED
  BY <1>2, <1>3

LEMMA ReplayControlMoves ==
    ASSUME SessionInv, AcceptReplayControl
    PROVE  Balances
<1>1. /\ \E kind \in ReplayKinds : Grows(kind)
      /\ CallReplayStart(NextId) \/ CallReplayStop(NextId)
      /\ NextId \in NormalIds
      /\ UNCHANGED <<deferred, active, recorder, outcomes>>
  BY AcceptReplayControlIs DEF SessionInv, LinkedInv, AcceptReplayControl
<1>2. replay' \in {ControlStart(replay, NextId), ControlStop(replay, NextId)}
  BY <1>1 DEF CallReplayStart, CallReplayStop
<1>3. Well(replay) /\ Orderly(replay)
  BY DEF SessionInv, LinkedInv, Parts, IInv, OnceInv
<1>4. ASSUME NEW id \in NormalIds
      PROVE  Keeps(replay', id) <=> Keeps(replay, id) \/ id = NextId
  BY <1>1, <1>2, <1>3, ControlKeeps
<1>5. ASSUME NEW id \in NormalIds PROVE KeptAt(id)' <=> KeptAt(id) \/ id = NextId
  BY <1>1, <1>4 DEF KeptAt, IsDeferred
<1>6. OwnersKept
  BY <1>1 DEF OwnersKept, SessionInv, Balance, Owners, Transitioning
<1> QED
  BY <1>1, <1>5, <1>6, AcceptMoves DEF Balances

LEMMA AcceptDeferredMoves ==
    ASSUME SessionInv, AcceptDeferred
    PROVE  Balances
<1>1. /\ \E kind \in GameKinds : Grows(kind)
      /\ deferred' = Append(deferred, NextId)
      /\ UNCHANGED <<active, recorder, outcomes, replay>>
  BY AcceptDeferredIs DEF SessionInv, LinkedInv, AcceptDeferred
<1>2. ASSUME NEW id PROVE IsDeferred(id)' <=> IsDeferred(id) \/ id = NextId
  <2>1. deferred \in Seq(NormalIds) /\ NextId \in NormalIds
    BY <1>1 DEF SessionInv, LinkedInv, Links, AcceptTypes, Grows
  <2>2. /\ Len(deferred') = Len(deferred) + 1 /\ Len(deferred) \in Nat
        /\ \A i \in 1 .. Len(deferred) : deferred'[i] = deferred[i]
        /\ deferred'[Len(deferred) + 1] = NextId
    BY <1>1, <2>1, AppendProperties
  <2>3. /\ \A i \in 1 .. Len(deferred) : i \in 1 .. Len(deferred')
        /\ \A i \in 1 .. Len(deferred') : i \in 1 .. Len(deferred) \/ i = Len(deferred) + 1
        /\ Len(deferred) + 1 \in 1 .. Len(deferred')
    BY <2>2
  <2> QED
    BY <2>2, <2>3 DEF IsDeferred
<1>3. ASSUME NEW id \in NormalIds PROVE KeptAt(id)' <=> KeptAt(id) \/ id = NextId
  BY <1>1, <1>2 DEF KeptAt
<1>4. OwnersKept
  BY <1>1 DEF OwnersKept, SessionInv, Balance, Owners, Transitioning
<1> QED
  BY <1>1, <1>3, <1>4, AcceptMoves DEF Balances

LEMMA DuringReplayMoves ==
    ASSUME SessionInv, AcceptDuringReplay
    PROVE  Balances
<1>1. /\ \E kind \in Kinds : Grows(kind)
      /\ UNCHANGED <<deferred, active, recorder, replay>>
      /\ outcomes' = [outcomes EXCEPT ![NextId] = "failed"]
  BY AcceptDuringReplayIs DEF SessionInv, LinkedInv, AcceptDuringReplay
<1>2. \A id \in NormalIds : KeptAt(id)' <=> KeptAt(id)
  BY <1>1 DEF KeptAt, IsDeferred
<1>3. OwnersKept
  BY <1>1 DEF OwnersKept, SessionInv, Balance, Owners, Transitioning
<1> QED
  BY <1>1, <1>2, <1>3, AcceptMoves DEF Balances

LEMMA RecordControlMoves ==
    ASSUME SessionInv, AcceptRecordControl
    PROVE  Balances
<1>1. /\ \E kind : Grows(kind)
      /\ NextId \in NormalIds
      /\ UNCHANGED <<deferred, active, replay>>
  BY AcceptRecordControlIs DEF SessionInv, LinkedInv
<1>2. recorder \in Recorders
  BY DEF SessionInv, LinkedInv, Parts, RecorderTypeOK
<1>3. CASE UNCHANGED recorder /\ outcomes' = [outcomes EXCEPT ![NextId] = "failed"]
  <2>1. \A id \in NormalIds : KeptAt(id)' <=> KeptAt(id)
    BY <1>1, <1>3 DEF KeptAt, IsDeferred
  <2>2. OwnersKept
    BY <1>1, <1>3 DEF OwnersKept, SessionInv, Balance, Owners, Transitioning
  <2> QED
    BY <1>1, <1>3, <2>1, <2>2, AcceptMoves DEF Balances
<1>4. ASSUME NEW kind \in RecordKinds, UNCHANGED outcomes, recorder' = Control(recorder, NextId, kind),
             MayControl(recorder, kind, active # {} \/ deferred # << >>)
      PROVE  Balances
  <2>1. recorder'.id = NextId /\ Transitioning(recorder') /\ ~Transitioning(recorder)
    BY <1>2, <1>4 DEF Control, MayControl, Recorders, Transitioning
  <2>2. recorder.id = 0
    BY <2>1 DEF SessionInv, Balance, Owners
  <2>3. ASSUME NEW id \in NormalIds PROVE KeptAt(id)' <=> KeptAt(id) \/ id = NextId
    <3>1. id # 0
      BY DEF NormalIds
    <3> QED
      BY <1>1, <2>1, <2>2, <3>1 DEF KeptAt, IsDeferred
  <2>4. OwnersKept
    BY <1>1, <2>1 DEF OwnersKept, SessionInv, Balance, Owners, Transitioning
  <2> QED
    BY <1>1, <1>4, <2>3, <2>4, AcceptMoves DEF Balances
<1>5. \/ UNCHANGED recorder /\ outcomes' = [outcomes EXCEPT ![NextId] = "failed"]
      \/ \E kind \in RecordKinds :
            /\ UNCHANGED outcomes /\ recorder' = Control(recorder, NextId, kind)
            /\ MayControl(recorder, kind, active # {} \/ deferred # << >>)
  BY DEF AcceptRecordControl
<1> QED
  BY <1>3, <1>4, <1>5

\* A command that is accepted and handed on is at the game, or settled.
LEMMA SentAcceptedMoves ==
    ASSUME SessionInv, NEW kind \in GameKinds, Grows(kind), UNCHANGED deferred,
           \A id \in NormalIds : Keeps(replay', id) <=> Keeps(replay, id),
           \/ SendsGame(NextId, kind) /\ UNCHANGED outcomes
           \/ SendGameFails(NextId, kind) /\ outcomes' = [outcomes EXCEPT ![NextId] = "io"]
    PROVE  Balances
<1>1. /\ NextId \in NormalIds /\ NextId \in Ids /\ NextId \in AcceptedIds'
      /\ commands'[NextId] = kind
  BY DEF Grows, Ids, AcceptedIds, NormalIds
<1>2. RecorderTypeOK
  BY DEF SessionInv, LinkedInv, Parts
<1>3. /\ recorder'.id = recorder.id /\ recorder'.state = recorder.state
      /\ \/ active' = active \cup {NextId} /\ UNCHANGED outcomes
         \/ active' = active /\ outcomes' = [outcomes EXCEPT ![NextId] = "io"]
  BY <1>1, <1>2, SentMoves DEF SendsGame, SendGameFails
<1>4. OwnersKept
  BY <1>1, <1>3 DEF OwnersKept, SessionInv, Balance, Owners, Transitioning
<1>5. CASE active' = active \cup {NextId} /\ UNCHANGED outcomes
  <2>1. \A id \in NormalIds : KeptAt(id)' <=> KeptAt(id) \/ id = NextId
    BY <1>3, <1>5 DEF KeptAt, IsDeferred
  <2> QED
    BY <1>4, <1>5, <2>1, AcceptMoves DEF Balances
<1>6. CASE active' = active /\ outcomes' = [outcomes EXCEPT ![NextId] = "io"]
  <2>1. \A id \in NormalIds : KeptAt(id)' <=> KeptAt(id)
    BY <1>3, <1>6 DEF KeptAt, IsDeferred
  <2> QED
    BY <1>4, <1>6, <2>1, AcceptMoves DEF Balances
<1> QED
  BY <1>3, <1>5, <1>6

LEMMA SendMoves ==
    ASSUME SessionInv, AcceptSend
    PROVE  Balances
<1>1. PICK kind \in GameKinds :
         /\ Accepts(kind)
         /\ \/ SendsGame(NextId, kind) /\ UNCHANGED outcomes
            \/ SendGameFails(NextId, kind) /\ outcomes' = [outcomes EXCEPT ![NextId] = "io"]
  BY DEF AcceptSend
<1>2. Grows(kind) /\ UNCHANGED <<deferred, replay>>
  BY <1>1, AcceptsIs DEF SessionInv, LinkedInv, Links, AcceptSend, replayVars
<1> QED
  BY <1>1, <1>2, SentAcceptedMoves

LEMMA PlanMoves ==
    ASSUME SessionInv, LinkedInv', SubmitPlan
    PROVE  Balances
<1>. DEFINE kind == NextKind(replay.run)
<1>1. /\ CallNext(NextId) \/ CallNextFailed(NextId)
      /\ NextId \in NormalIds /\ UNCHANGED deferred
      /\ \E game \in GameKinds : Grows(game)
  BY SubmitPlanIs DEF SessionInv, LinkedInv
<1>2. /\ commands' = Append(commands, kind) /\ UNCHANGED deferred
      /\ \/ SendsGame(NextId, kind) /\ UNCHANGED outcomes
         \/ SendGameFails(NextId, kind) /\ outcomes' = [outcomes EXCEPT ![NextId] = "io"]
  BY DEF SubmitPlan
<1>. HIDE DEF kind
<1>3. kind \in GameKinds /\ Grows(kind)
  <2>1. PICK game \in GameKinds : Grows(game)
    BY <1>1
  <2>2. /\ commands'[Len(commands) + 1] = kind /\ NextId = Len(commands) + 1
    BY <1>2 DEF SessionInv, LinkedInv, Links, AcceptTypes, NextId
  <2> QED
    BY <2>1, <2>2 DEF Grows
<1>4. \A id \in NormalIds : Keeps(replay', id) <=> Keeps(replay, id)
  BY <1>1, KeepsStay DEF SessionInv, LinkedInv, Parts
<1> QED
  BY <1>2, <1>3, <1>4, SentAcceptedMoves

LEMMA ExhaustedMoves ==
    ASSUME SessionInv, LinkedInv', SubmitExhausted
    PROVE  Balances
<1>1. CallNextExhausted /\ UNCHANGED <<commands, deferred, recorder, active, outcomes>>
  BY SubmitExhaustedIs DEF SubmitExhausted, acceptVars
<1>2. \A id \in NormalIds : Keeps(replay', id) <=> Keeps(replay, id)
  BY <1>1, KeepsStay DEF SessionInv, LinkedInv, Parts
<1>3. \A id \in NormalIds : KeptAt(id)' <=> KeptAt(id)
  BY <1>1, <1>2 DEF KeptAt, IsDeferred
<1>4. Moves({}, {})
  BY <1>1, <1>3 DEF Moves, SessionInv, Balance
<1>5. OwnersKept
  BY <1>1 DEF OwnersKept, SessionInv, Balance, Owners, Transitioning
<1> QED
  BY <1>4, <1>5 DEF Balances

\* The shutdown is none of the commands that are kept.
LEMMA ShutdownMoves ==
    ASSUME SessionInv, AcceptShutdown \/ TakeShutdownResponse
    PROVE  Balances
<1>1. /\ UNCHANGED <<commands, deferred, outcomes, recorder, replay>>
      /\ \/ active' \subseteq active \cup {LastId} /\ active \subseteq active'
         \/ active' = active \ {LastId}
  <2>1. CASE AcceptShutdown
    <3>1. UNCHANGED <<commands, deferred, outcomes, recorder, replay>>
      BY <2>1, AcceptShutdownIs DEF SessionInv, LinkedInv, AcceptShutdown, acceptVars
    <3>2. active' \subseteq active \cup {LastId} /\ active \subseteq active'
      BY <2>1 DEF AcceptShutdown, SendsGame, SendGameFails
    <3> QED
      BY <3>1, <3>2
  <2>2. CASE TakeShutdownResponse
    BY <2>2 DEF TakeShutdownResponse, acceptVars, recorderVars, replayVars
  <2> QED
    BY <2>1, <2>2
<1>2. \A id \in NormalIds : id \in active' <=> id \in active
  <2>1. LastId \notin NormalIds
    BY LastIdAssumption DEF NormalIds
  <2> QED
    BY <1>1, <2>1
<1>3. \A id \in NormalIds : KeptAt(id)' <=> KeptAt(id)
  BY <1>1, <1>2 DEF KeptAt, IsDeferred
<1>4. Moves({}, {})
  BY <1>1, <1>3 DEF Moves, SessionInv, Balance
<1>5. OwnersKept
  BY <1>1 DEF OwnersKept, SessionInv, Balance, Owners, Transitioning
<1> QED
  BY <1>4, <1>5 DEF Balances

\* The end of the session settles the shutdown at most.
LEMMA FinishMoves ==
    ASSUME SessionInv, FinishSession
    PROVE  Balances
<1>1. UNCHANGED <<commands, deferred, active, recorder, replay>>
  BY FinishSessionIs
<1>2. ShutdownOutcome \in Answers \cup {"ended"} /\ ShutdownOutcome \in CommandOutcomes
  BY AnswersAssumption DEF ShutdownOutcome, SessionInv, CommandOutcomes, Outcomes, Settled
<1>3. LastId \in Ids /\ LastId \notin NormalIds /\ NormalIds \subseteq Ids
  BY LastIdAssumption DEF Ids, NormalIds
<1>4. outcomes \in [Ids -> CommandOutcomes]
  BY DEF SessionInv, Balance
<1>5. outcomes' = outcomes \/ outcomes' = [outcomes EXCEPT ![LastId] = ShutdownOutcome]
  BY DEF FinishSession
<1>6. outcomes' \in [Ids -> CommandOutcomes] /\ \A id \in NormalIds : outcomes'[id] = outcomes[id]
  BY <1>2, <1>3, <1>4, <1>5
<1>7. \A id \in NormalIds : KeptAt(id)' <=> KeptAt(id)
  BY <1>1 DEF KeptAt, IsDeferred
<1>8. Moves({}, {})
  BY <1>1, <1>6, <1>7 DEF Moves
<1>9. OwnersKept
  BY <1>1 DEF OwnersKept, SessionInv, Balance, Owners, Transitioning
<1> QED
  BY <1>8, <1>9 DEF Balances

LEMMA ThreadMoves ==
    ASSUME SessionInv, WorkerStep \/ LoaderStep
    PROVE  Balances
<1>1. UNCHANGED <<commands, deferred, active, outcomes>>
  BY DEF WorkerStep, LoaderStep, Outside, acceptVars, baseVars
<1>2. /\ UNCHANGED replay
      /\ UNCHANGED recorder \/ recorder' = [recorder EXCEPT !.operations = Tail(@)]
  BY DEF WorkerStep, LoaderStep, Load, Work, WorkerStart, WorkerAppend, WorkerStop, WorkerEnd,
     Takes, recorderVars, replayVars
<1>3. recorder \in Recorders
  BY DEF SessionInv, LinkedInv, Parts, RecorderTypeOK
<1>4. recorder'.id = recorder.id /\ recorder'.state = recorder.state
  BY <1>2, <1>3 DEF Recorders
<1> QED
  BY <1>1, <1>2, <1>4, NothingMoves

-----------------------------------------------------------------------------
(* The balance is kept *)

LEMMA BalanceStep ==
    ASSUME SessionInv, LinkedInv', [Next]_vars
    PROVE  Balances
<1>1. CASE Aside \/ UNCHANGED vars
  BY <1>1, AsideIs, NothingMoves DEF acceptVars, baseVars, recorderVars, replayVars
<1>2. CASE PollRecorder \/ DrainRecorder
  BY <1>2, ReplyMoves DEF PollRecorder, DrainRecorder
<1>3. CASE TakeResponse
  BY <1>3, ResponseMoves
<1>4. CASE SendDeferred
  BY <1>4, DeferredMoves
<1>5. CASE EndDeferred \/ TakeOperation
  BY <1>5, PollMoves
<1>6. CASE AcceptShutdown \/ TakeShutdownResponse
  BY <1>6, ShutdownMoves
<1>7. CASE AcceptReplayControl
  BY <1>7, ReplayControlMoves
<1>8. CASE AcceptDuringReplay
  BY <1>8, DuringReplayMoves
<1>9. CASE AcceptRecordControl
  BY <1>9, RecordControlMoves
<1>10. CASE AcceptDeferred
  BY <1>10, AcceptDeferredMoves
<1>11. CASE AcceptSend
  BY <1>11, SendMoves
<1>12. CASE SubmitPlan
  BY <1>12, PlanMoves
<1>13. CASE SubmitExhausted
  BY <1>13, ExhaustedMoves
<1>14. CASE EndReplayAndRecorder
  BY <1>14, EndMoves
<1>15. CASE FinishSession
  BY <1>15, FinishMoves
<1>16. CASE WorkerStep \/ LoaderStep
  BY <1>16, ThreadMoves
<1> QED
  BY <1>1, <1>2, <1>3, <1>4, <1>5, <1>6, <1>7, <1>8, <1>9, <1>10, <1>11, <1>12, <1>13,
     <1>14, <1>15, <1>16, StepIs DEF Touches

\* The shutdown is answered once it was sent, in one of the ways the game answers.
LEMMA ShutdownStep ==
    ASSUME [Next]_vars
    PROVE  UNCHANGED shutdown \/ (TakeShutdownResponse /\ shutdown' \in Answers)
<1>. USE DEF stopVars
<1>1. CASE BeginIteration \/ TakeNoise \/ TakeWriterFailed
           \/ (\E pipe \in {"stdout", "stderr"} : TakeClosed(pipe) \/ TakeReaderFailed(pipe))
  BY <1>1 DEF BeginIteration, TakeNoise, TakeWriterFailed, TakeClosed, TakeReaderFailed
<1>2. CASE EndEvents \/ AwaitPipes \/ Drained \/ WaitFails \/ StillRunning
  BY <1>2 DEF EndEvents, AwaitPipes, Drained, WaitFails, StillRunning
<1>3. CASE Hands \/ Refuse
  BY <1>3, HandsIs DEF Refuse
<1>4. CASE Submit \/ ReceiveEvent \/ Cancel \/ ChildExits \/ WriterBreaks \/ DeadlinePasses
           \/ WorkerStep \/ LoaderStep
  BY <1>4 DEF Submit, ReceiveEvent, Cancel, ChildExits, WriterBreaks, DeadlinePasses,
     WorkerStep, LoaderStep, Outside
<1>5. CASE PollRecorder \/ DrainRecorder \/ TakeResponse \/ EndReplayAndRecorder \/ FinishSession
  BY <1>5 DEF PollRecorder, DrainRecorder, TakeReply, TakeResponse, EndReplayAndRecorder,
     FinishSession
<1>6. CASE TakeShutdownResponse
  BY <1>6 DEF TakeShutdownResponse
<1>7. CASE UNCHANGED vars
  BY <1>7 DEF vars
<1> QED
  BY <1>1, <1>2, <1>3, <1>4, <1>5, <1>6, <1>7 DEF Next, Step, TakeEvent, Rest, Hands

LEMMA SessionStep ==
    ASSUME SessionInv, [Next]_vars
    PROVE  SessionInv' /\ Settlings /\ (outcomes'[LastId] = outcomes[LastId] \/ FinishSession)
<1>1. LinkedInv'
  BY LinkedStep DEF SessionInv
<1>2. PICK S, N : Moves(S, N)
  BY <1>1, BalanceStep DEF Balances
<1>3. Balanced' /\ Settlings
  BY <1>2, MovesBalanced
<1>4. Owners'
  <2>1. OwnersKept
    BY <1>1, BalanceStep DEF Balances
  <2>2. Grown
    BY CommandsGrow DEF SessionInv, LinkedInv
  <2>3. \A id \in AcceptedIds : id \in AcceptedIds' /\ commands'[id] = commands[id]
    BY <2>2 DEF Grown, AcceptedIds
  <2>4. ASSUME NEW id \in active' \ {LastId}
        PROVE  id \in AcceptedIds' /\ commands'[id] \in GameKinds
    BY <2>1, <2>3 DEF OwnersKept, SessionInv, Balance, Owners
  <2> QED
    BY <2>1, <2>4 DEF OwnersKept, Owners
<1>5. outcomes' \in [Ids -> CommandOutcomes] /\ (outcomes'[LastId] = outcomes[LastId] \/ FinishSession)
  BY <1>2 DEF Moves
<1>6. shutdown' \in {"none"} \cup Answers
  BY ShutdownStep DEF SessionInv
<1> QED
  BY <1>1, <1>3, <1>4, <1>5, <1>6 DEF SessionInv, Balance

LEMMA SessionInit == Init => SessionInv
<1>. SUFFICES ASSUME Init PROVE SessionInv
  OBVIOUS
<1>1. LinkedInv
  BY LinkedInit
<1>2. /\ commands = << >> /\ outcomes = [id \in Ids |-> "open"] /\ active = {}
      /\ recorder = NewRecorder /\ shutdown = "none" /\ Len(<< >>) = 0
  BY EmptySeq DEF Init, RecorderInit
<1>3. outcomes \in [Ids -> CommandOutcomes] /\ \A id \in NormalIds : outcomes[id] = "open"
  BY <1>2 DEF CommandOutcomes, Outcomes, Ids
<1>4. Balanced
  BY <1>2, <1>3 DEF Balanced, AcceptedIds
<1>5. Owners
  BY <1>2 DEF Owners, NewRecorder
<1> QED
  BY <1>1, <1>2, <1>3, <1>4, <1>5 DEF SessionInv, Balance

-----------------------------------------------------------------------------
(* One holder *)

\* Counting what is there at most once.
LEMMA CountsOnce ==
    ASSUME NEW T, \A x, y \in T : x = y
    PROVE  Cardinality(T) = IF T = {} THEN 0 ELSE 1
<1>1. CASE T = {}
  BY <1>1, FS_EmptySet
<1>2. CASE T # {}
  <2>1. PICK x : x \in T
    BY <1>2
  <2>2. T = {x}
    BY <2>1
  <2> QED
    BY <1>2, <2>2, FS_Singleton
<1> QED
  BY <1>1, <1>2

\* The places of a replay's unanswered commands.
LEMMA PlacesIs ==
    ASSUME NEW p, Well(p)
    PROVE  LET n == Len(p.notices)
               u == Unanswered(p)
           IN  /\ n \in Nat
               /\ \A i \in 1 .. n : i \in 1 .. Len(u) /\ u[i] = p.notices[i].id
               /\ IsBusy(p) =>
                     /\ n + 1 \in 1 .. Len(u) /\ u[n + 1] = p.run.start
                     /\ \A i \in 1 .. Len(p.run.stops) :
                           n + (1 + i) \in 1 .. Len(u) /\ u[n + (1 + i)] = p.run.stops[i]
<1>. DEFINE noted == Noted(p.notices)
            waits == Waiting(p)
            one == <<p.run.start>>
            stops == p.run.stops
            n == Len(p.notices)
            u == Unanswered(p)
<1>1. /\ noted \in Seq(NormalIds) /\ waits \in Seq(NormalIds) /\ p.notices \in Seq(Notices)
      /\ stops \in Seq(NormalIds) /\ n \in Nat
  <2>1. p.notices \in Seq(Notices) /\ stops \in Seq(NormalIds)
    BY DEF Well, Replays, Runs
  <2> QED
    BY <2>1, LineType
<1>2. Len(noted) = n /\ \A i \in 1 .. n : noted[i] = p.notices[i].id
  BY <1>1, NotedIs
<1>3. u = noted \o waits
  BY DEF Unanswered
<1>4. IsBusy(p) => one \in Seq(NormalIds) /\ waits = one \o stops /\ Len(one) = 1 /\ one[1] = p.run.start
  BY DEF Waiting, Well
<1>. HIDE DEF noted, waits, one, stops, n, u
<1>5. /\ Len(u) = Len(noted) + Len(waits) /\ Len(waits) \in Nat
      /\ \A i \in 1 .. Len(noted) + Len(waits) :
            u[i] = IF i <= Len(noted) THEN noted[i] ELSE waits[i - Len(noted)]
  BY <1>1, <1>3, ConcatProperties
<1>6. ASSUME NEW i \in 1 .. n PROVE i \in 1 .. Len(u) /\ u[i] = p.notices[i].id
  BY <1>1, <1>2, <1>5
<1>7. ASSUME NEW k \in 1 .. Len(waits) PROVE n + k \in 1 .. Len(u) /\ u[n + k] = waits[k]
  BY <1>1, <1>2, <1>3, UnansweredAt
<1>8. ASSUME IsBusy(p)
      PROVE  /\ 1 \in 1 .. Len(waits) /\ waits[1] = p.run.start
             /\ \A i \in 1 .. Len(stops) : 1 + i \in 1 .. Len(waits) /\ waits[1 + i] = stops[i]
  <2>0. /\ one \in Seq(NormalIds) /\ stops \in Seq(NormalIds) /\ waits = one \o stops
        /\ Len(one) = 1 /\ one[1] = p.run.start
    BY <1>1, <1>4, <1>8
  <2>1. /\ Len(one \o stops) = Len(one) + Len(stops)
        /\ \A i \in 1 .. Len(one) + Len(stops) :
              (one \o stops)[i] = IF i <= Len(one) THEN one[i] ELSE stops[i - Len(one)]
    BY <2>0, ConcatProperties
  <2>4. Len(stops) \in Nat
    BY <2>0
  <2>2. 1 \in 1 .. Len(waits) /\ waits[1] = p.run.start
    <3>1. 1 \in 1 .. Len(one) + Len(stops) /\ 1 <= Len(one)
      BY <2>0, <2>4
    <3>2. (one \o stops)[1] = one[1]
      BY <2>1, <3>1
    <3> QED
      BY <2>0, <2>1, <3>1, <3>2
  <2>3. ASSUME NEW i \in 1 .. Len(stops) PROVE 1 + i \in 1 .. Len(waits) /\ waits[1 + i] = stops[i]
    <3>1. Len(one) + i \in 1 .. Len(one \o stops) /\ (one \o stops)[Len(one) + i] = stops[i]
      BY <2>0, UnansweredAt
    <3> QED
      BY <2>0, <3>1
  <2> QED
    BY <2>2, <2>3
<1>9. ASSUME IsBusy(p)
      PROVE  /\ n + 1 \in 1 .. Len(u) /\ u[n + 1] = p.run.start
             /\ \A i \in 1 .. Len(stops) : n + (1 + i) \in 1 .. Len(u) /\ u[n + (1 + i)] = stops[i]
  BY <1>7, <1>8, <1>9
<1> QED
  BY <1>1, <1>6, <1>9 DEF n, u, stops

\* So the replay keeps a command in one place.
LEMMA ReplayHolds ==
    ASSUME NEW p, Well(p), Orderly(p), Distinct(Line(p)), NEW id \in NormalIds
    PROVE  (IF p.run.start = id THEN 1 ELSE 0)
             + Cardinality({i \in DOMAIN p.run.stops : p.run.stops[i] = id})
             + Cardinality({i \in DOMAIN p.notices : p.notices[i].id = id})
               = IF Keeps(p, id) THEN 1 ELSE 0
<1>. DEFINE S == {i \in DOMAIN p.run.stops : p.run.stops[i] = id}
            N == {i \in DOMAIN p.notices : p.notices[i].id = id}
            n == Len(p.notices)
            u == Unanswered(p)
<1>1. /\ DOMAIN p.run.stops = 1 .. Len(p.run.stops) /\ Len(p.run.stops) \in Nat
      /\ DOMAIN p.notices = 1 .. n /\ n \in Nat
  BY DEF Well, Replays, Runs
<1>2. Distinct(u)
  BY UnansweredDistinct
<1>3. \A i \in 1 .. n : i \in 1 .. Len(u) /\ u[i] = p.notices[i].id
  BY PlacesIs
<1>4. IsBusy(p) => /\ n + 1 \in 1 .. Len(u) /\ u[n + 1] = p.run.start
                   /\ \A i \in 1 .. Len(p.run.stops) :
                         n + (1 + i) \in 1 .. Len(u) /\ u[n + (1 + i)] = p.run.stops[i]
  BY PlacesIs
<1>5. ~IsBusy(p) => p.run.start # id /\ S = {}
  <2>1. ~IsBusy(p) => p.run.start = 0 /\ p.run.stops = << >>
    BY DEF Orderly, NoRun
  <2>2. id # 0 /\ DOMAIN << >> = {}
    BY DEF NormalIds
  <2> QED
    BY <2>1, <2>2
<1>6. Keeps(p, id) <=> N # {} \/ S # {} \/ p.run.start = id
  <2>1. KeptBy(p, id) <=> N # {} \/ (IsBusy(p) /\ (id = p.run.start \/ S # {}))
    BY <1>1 DEF KeptBy
  <2> QED
    BY <1>5, <2>1, KeepsIs
<1>. HIDE DEF u
<1>7. \A k, l \in 1 .. Len(u) : u[k] = id /\ u[l] = id => k = l
  BY <1>2 DEF Distinct
<1>8. ASSUME NEW i \in N PROVE i \in 1 .. n /\ i \in 1 .. Len(u) /\ u[i] = id
  BY <1>1, <1>3
<1>9. ASSUME NEW i \in S
      PROVE  i \in 1 .. Len(p.run.stops) /\ n + (1 + i) \in 1 .. Len(u) /\ u[n + (1 + i)] = id
  BY <1>1, <1>4, <1>5
<1>10. ASSUME p.run.start = id PROVE n + 1 \in 1 .. Len(u) /\ u[n + 1] = id
  BY <1>4, <1>5, <1>10
<1>. HIDE DEF S, N, n
<1>11. /\ \A i, j \in N : i = j
       /\ ~(N # {} /\ p.run.start = id)
  <2>1. \A i, j \in N : i = j
    BY <1>7, <1>8
  <2>2. ASSUME NEW i \in N, p.run.start = id PROVE FALSE
    <3>1. i = n + 1 /\ i \in 1 .. n
      BY <1>7, <1>8, <1>10, <2>2
    <3> QED
      BY <1>1, <3>1
  <2> QED
    BY <2>1, <2>2
<1>13. ASSUME NEW j \in S
       PROVE  /\ \A i \in S : i = j
              /\ N = {} /\ p.run.start # id
  <2>0. n + (1 + j) \in 1 .. Len(u) /\ u[n + (1 + j)] = id /\ j \in 1 .. Len(p.run.stops)
    BY <1>9
  <2>1. ASSUME NEW i \in S PROVE i = j
    <3>1. n + (1 + i) \in 1 .. Len(u) /\ u[n + (1 + i)] = id /\ i \in 1 .. Len(p.run.stops)
      BY <1>9
    <3>2. n + (1 + i) = n + (1 + j)
      BY <1>7, <2>0, <3>1
    <3> QED
      BY <1>1, <2>0, <3>1, <3>2
  <2>2. ASSUME NEW i \in N PROVE FALSE
    <3>1. i = n + (1 + j) /\ i \in 1 .. n
      BY <1>7, <1>8, <2>0
    <3> QED
      BY <1>1, <2>0, <3>1
  <2>3. ASSUME p.run.start = id PROVE FALSE
    <3>1. n + 1 = n + (1 + j)
      BY <1>7, <1>10, <2>0, <2>3
    <3> QED
      BY <1>1, <2>0, <3>1
  <2> QED
    BY <2>1, <2>2, <2>3
<1>12. /\ Cardinality(S) = IF S = {} THEN 0 ELSE 1
       /\ Cardinality(N) = IF N = {} THEN 0 ELSE 1
  BY <1>11, <1>13, CountsOnce
<1>14. (IF p.run.start = id THEN 1 ELSE 0) + Cardinality(S) + Cardinality(N)
         = IF Keeps(p, id) THEN 1 ELSE 0
  BY <1>6, <1>11, <1>12, <1>13
<1> QED
  BY <1>14 DEF S, N

LEMMA BalanceIsOneHolder == SessionInv => OneHolder
<1>. SUFFICES ASSUME SessionInv, NEW id \in AcceptedIds
     PROVE  Holders(id) = IF outcomes[id] = "open" THEN 1 ELSE 0
  BY DEF OneHolder
<1>. DEFINE A == active \cap {id}
            D == {i \in DOMAIN deferred : deferred[i] = id}
            R == IF recorder.id = id THEN 1 ELSE 0
            a == IF replay.run.start = id THEN 1 ELSE 0
            b == Cardinality({i \in DOMAIN replay.run.stops : replay.run.stops[i] = id})
            c == Cardinality({i \in DOMAIN replay.notices : replay.notices[i].id = id})
<1>1. /\ id \in NormalIds /\ DOMAIN deferred = 1 .. Len(deferred)
      /\ Well(replay) /\ Orderly(replay) /\ Distinct(Line(replay))
  BY LastIdAssumption DEF AcceptedIds, NormalIds, SessionInv, LinkedInv, Links, AcceptTypes,
     Parts, IInv, OnceInv
<1>2. KeptAt(id) <=> outcomes[id] = "open"
  BY DEF SessionInv, Balance, Balanced
<1>3. KeptAt(id) <=> A # {} \/ D # {} \/ id = recorder.id \/ Keeps(replay, id)
  BY <1>1 DEF KeptAt, IsDeferred
<1>4. /\ A # {} => D = {} /\ id # recorder.id /\ ~Keeps(replay, id)
      /\ D # {} => id # recorder.id /\ ~Keeps(replay, id)
      /\ id = recorder.id => ~Keeps(replay, id)
      /\ \A x, y \in D : x = y
  BY <1>1, KeptOnce
<1>5. a + b + c = IF Keeps(replay, id) THEN 1 ELSE 0
  BY <1>1, ReplayHolds
<1>6. b \in Nat /\ c \in Nat
  <2>1. /\ IsFiniteSet({i \in DOMAIN replay.run.stops : replay.run.stops[i] = id})
        /\ IsFiniteSet({i \in DOMAIN replay.notices : replay.notices[i].id = id})
    <3>1. /\ DOMAIN replay.run.stops = 1 .. Len(replay.run.stops) /\ Len(replay.run.stops) \in Nat
          /\ DOMAIN replay.notices = 1 .. Len(replay.notices) /\ Len(replay.notices) \in Nat
      BY <1>1 DEF Well, Replays, Runs
    <3>2. \A n \in Nat : IsFiniteSet(1 .. n)
      BY FS_Interval
    <3> QED
      BY <3>1, <3>2, FS_Subset
  <2> QED
    BY <2>1, FS_CardinalityType
<1>7. Holders(id) = Cardinality(A) + Cardinality(D) + R + a + b + c
  BY DEF Holders
<1>8. /\ Cardinality(A) = IF A = {} THEN 0 ELSE 1
      /\ Cardinality(D) = IF D = {} THEN 0 ELSE 1
  <2>1. \A x, y \in A : x = y
    OBVIOUS
  <2>. HIDE DEF A, D
  <2> QED
    BY <1>4, <2>1, CountsOnce
<1>9. a \in Nat
  OBVIOUS
<1>. HIDE DEF A, D, a, b, c
<1> QED
  BY <1>2, <1>3, <1>4, <1>5, <1>6, <1>7, <1>8, <1>9

(***************************************************************************)
(* Whatever happens to it, an accepted command is open exactly while one   *)
(* part of the session keeps it, and nobody keeps a settled one: no        *)
(* command is lost and none is answered twice, for every number of         *)
(* commands, plans and recordings and every order of failures              *)
(* (coordinator.rs, run).                                                  *)
(***************************************************************************)
THEOREM CommandsAreKept == SafetySpec => []OneHolder
<1>1. SessionInv /\ [Next]_vars => SessionInv'
  BY SessionStep, LinkedStep DEF SessionInv
<1> QED
  BY <1>1, SessionInit, BalanceIsOneHolder, PTL DEF SafetySpec

-----------------------------------------------------------------------------
(* How the session ends *)

(***************************************************************************)
(* A session that comes to its end without a reason was told to shut down  *)
(* and did, or its shutdown was refused.                                   *)
(***************************************************************************)
EndsForAReason ==
    AtEnd /\ reason = "none" /\ ~cancel =>
        \/ shutdown \notin {"none", "ok"}
        \/ /\ stopping /\ shutdown = "ok" /\ exitStatus = "success" /\ closed = 2
           /\ ~exitFailure

EndsOnce == pc # "done" => outcomes[LastId] = "open"

EndInv == EndsForAReason /\ EndsOnce /\ CleanShutdown

\* What a step does to the end of the session.
EndKept == /\ EndsForAReason'
           /\ pc' = "done" => pc = "done" \/ FinishSession
           /\ pc = "done" => UNCHANGED <<pc, shutdown, exitStatus, closed, reason, exitFailure>>

LEMMA EndStep == EndsForAReason /\ [Next]_vars => EndKept
<1>. SUFFICES ASSUME EndsForAReason, [Next]_vars PROVE EndKept
  OBVIOUS
<1>. USE DEF Works, Over, AtEnd, loopVars, stopVars, endVars, outsideVars, EndKept, EndsForAReason
<1>1. CASE Hands
  BY <1>1, HandsIs
<1>2. CASE PollRecorder \/ DrainRecorder
  <2>1. /\ reason' = reason \/ reason' = ReasonAfterPush
        /\ pc \in {"top", "drain"}
        /\ UNCHANGED <<pc, stopVars, eof, closed, exitStatus, cleanup, exitFailure, cancel>>
    BY <1>2 DEF PollRecorder, DrainRecorder, TakeReply, Pushes
  <2> QED
    BY <2>1, PushesIs
<1>3. CASE BeginIteration
  BY <1>3 DEF BeginIteration
<1>4. CASE TakeEvent
  <2>1. CASE TakeResponse \/ TakeShutdownResponse
    BY <2>1 DEF TakeResponse, TakeShutdownResponse
  <2>2. CASE TakeNoise \/ TakeWriterFailed
    BY <2>2 DEF TakeNoise, TakeWriterFailed
  <2>3. ASSUME NEW pipe \in {"stdout", "stderr"}, TakeClosed(pipe) \/ TakeReaderFailed(pipe)
        PROVE  EndKept
    BY <2>3 DEF TakeClosed, TakeReaderFailed
  <2> QED
    BY <1>4, <2>1, <2>2, <2>3 DEF TakeEvent
<1>5. CASE EndEvents
  BY <1>5 DEF EndEvents, ShutdownFailed
<1>6. CASE AwaitPipes
  BY <1>6 DEF AwaitPipes
<1>7. CASE Drained
  <2>1. /\ pc = "exit" /\ pc' = "end" /\ closed = 2
        /\ UNCHANGED <<closed, stopping, shutdown, cancel>>
        /\ exitFailure' => ~stopping
        /\ reason' = "none" => stopping /\ exitStatus' = "success" /\ shutdown = "ok"
    BY <1>7 DEF Drained, ReportsExit
  <2> QED
    BY <2>1
<1>8. CASE WaitFails
  BY <1>8 DEF WaitFails
<1>9. CASE StillRunning
  BY <1>9 DEF StillRunning, AfterExit
<1>10. CASE Refuse
  BY <1>10 DEF Refuse
<1>11. CASE EndReplayAndRecorder
  <2>1. /\ pc = "end" /\ pc' = "drain"
        /\ reason' = reason \/ reason' = ReasonAfterPush
        /\ UNCHANGED <<stopVars, closed, exitStatus, exitFailure, cancel>>
    BY <1>11 DEF EndReplayAndRecorder, Pushes
  <2> QED
    BY <2>1, PushesIs
<1>12. CASE FinishSession
  BY <1>12 DEF FinishSession
<1>13. CASE Submit \/ ReceiveEvent \/ Cancel \/ ChildExits \/ WriterBreaks
  BY <1>13 DEF Submit, ReceiveEvent, Cancel, ChildExits, WriterBreaks, Outside
<1>14. CASE DeadlinePasses
  BY <1>14 DEF DeadlinePasses
<1>15. CASE WorkerStep \/ LoaderStep
  BY <1>15 DEF WorkerStep, LoaderStep, Outside
<1>16. CASE UNCHANGED vars
  BY <1>16 DEF vars
<1> QED
  BY <1>1, <1>2, <1>3, <1>4, <1>5, <1>6, <1>7, <1>8, <1>9, <1>10, <1>11, <1>12, <1>13,
     <1>14, <1>15, <1>16 DEF Next, Step, Hands, Rest

\* What the shutdown learns as the session ends.
LEMMA FinishIs ==
    ASSUME SessionInv, FinishSession
    PROVE  /\ outcomes'[LastId] = IF stopping THEN ShutdownOutcome ELSE outcomes[LastId]
           /\ pc = "drain" /\ pc' = "done"
           /\ UNCHANGED <<stopping, shutdown, reason, closed, exitStatus, exitFailure>>
<1>1. outcomes \in [Ids -> CommandOutcomes] /\ LastId \in Ids
  BY LastIdAssumption DEF SessionInv, Balance, Ids
<1> QED
  BY <1>1 DEF FinishSession, stopVars, endVars

LEMMA EndInvStep == SessionInv /\ EndInv /\ [Next]_vars => EndInv'
<1>. SUFFICES ASSUME SessionInv, EndInv, [Next]_vars PROVE EndInv'
  OBVIOUS
<1>1. EndKept /\ EndsForAReason'
  BY EndStep DEF EndInv, EndKept
<1>2. outcomes'[LastId] = outcomes[LastId] \/ FinishSession
  BY SessionStep
<1>3. CASE FinishSession
  <2>1. outcomes[LastId] = "open" /\ pc = "drain" /\ pc' = "done"
    BY <1>3, FinishIs DEF EndInv, EndsOnce
  <2>2. outcomes'[LastId] = "ok" =>
            /\ stopping /\ shutdown = "ok" /\ reason = "none" /\ ~cancel
    BY <1>3, <2>1, FinishIs DEF ShutdownOutcome
  <2> QED
    BY <1>1, <1>3, <2>1, <2>2, FinishIs
       DEF EndInv, EndsForAReason, AtEnd, Over, EndsOnce, CleanShutdown
<1>4. CASE ~FinishSession
  BY <1>1, <1>2, <1>4 DEF EndInv, EndKept, EndsOnce, CleanShutdown
<1> QED
  BY <1>3, <1>4

LEMMA EndInvInit == Init => EndInv
<1>. SUFFICES ASSUME Init PROVE EndInv
  OBVIOUS
<1>1. LastId \in Ids /\ outcomes = [id \in Ids |-> "open"] /\ pc = "top"
  BY LastIdAssumption DEF Init, Ids
<1> QED
  BY <1>1 DEF EndInv, EndsForAReason, EndsOnce, CleanShutdown, AtEnd, Over

(***************************************************************************)
(* A shutdown that succeeded was a clean one: confirmed by the game, exit  *)
(* status 0, both pipes drained, and nothing else wrong, whatever failed   *)
(* in between and whatever the outside did at the same time                *)
(* (coordinator.rs, run, after its loop).                                  *)
(***************************************************************************)
THEOREM ShutdownsAreClean == SafetySpec => []CleanShutdown
<1>1. SessionInv /\ EndInv /\ [Next]_vars => (SessionInv /\ EndInv)'
  BY SessionStep, EndInvStep
<1>2. EndInv => CleanShutdown
  BY DEF EndInv
<1> QED
  BY <1>1, <1>2, SessionInit, EndInvInit, PTL DEF SafetySpec

-----------------------------------------------------------------------------
(* The session keeps its contract *)

EventKinds == {"protocolError", "failure", "recordingFailed", "ended"}

\* The coordinator has polled the replay before it looks at an operation.
Polls == pc = "accept" => replay.notices = << >>

ContractInv == SessionInv /\ EndInv /\ Polls /\ events \in Seq(EventKinds)

\* One event, if there is room for it.
Notifying == \/ UNCHANGED events
             \/ /\ Len(events) < EventCap
                /\ \E event \in EventKinds \ {"ended"} : events' = Append(events, event)

LEMMA PushNotifies ==
    ASSUME events \in Seq(EventKinds), NEW event \in EventKinds \ {"ended"},
           events' = Queued(event)
    PROVE  Notifying
<1>1. Len(events) \in Nat /\ EventCap \in Nat
  BY BoundsAssumption
<1> QED
  BY <1>1 DEF Queued, Overflows, Notifying

LEMMA EventStep ==
    ASSUME events \in Seq(EventKinds), [Next]_vars, ~ReceiveEvent, ~FinishSession
    PROVE  Notifying
<1>. USE DEF outsideVars
<1>0. {"protocolError", "failure", "recordingFailed"} = EventKinds \ {"ended"}
  BY DEF EventKinds
<1>1. CASE Hands
  <2>1. CASE Accept
    BY <2>1 DEF Accept, RefuseOperation, AcceptShutdown, AcceptReplayControl, AcceptDuringReplay,
       AcceptRecordControl, AcceptDeferred, AcceptSend, Untouched, Notifying
  <2>2. CASE SendDeferred \/ EndDeferred \/ TakeOperation
    BY <2>2 DEF SendDeferred, EndDeferred, TakeOperation, Notifying
  <2>3. CASE EndInput \/ SubmitPlan \/ SubmitExhausted \/ EndPlan
    BY <2>3 DEF EndInput, SubmitPlan, SubmitExhausted, EndPlan, Notifying
  <2> QED
    BY <1>1, <2>1, <2>2, <2>3 DEF Hands
<1>2. CASE PollRecorder \/ DrainRecorder
  <2>1. UNCHANGED events \/ events' = Queued("recordingFailed")
    BY <1>2 DEF PollRecorder, DrainRecorder, TakeReply, Pushes
  <2> QED
    BY <1>0, <2>1, PushNotifies DEF Notifying
<1>3. CASE TakeEvent
  <2>1. UNCHANGED events \/ events' = Queued("protocolError") \/ events' = Queued("failure")
    BY <1>3 DEF TakeEvent, TakeResponse, TakeShutdownResponse, TakeNoise, TakeWriterFailed,
       TakeClosed, TakeReaderFailed, Pushes
  <2> QED
    BY <1>0, <2>1, PushNotifies DEF Notifying
<1>4. CASE Drained \/ EndReplayAndRecorder
  <2>1. UNCHANGED events \/ events' = Queued("failure")
    BY <1>4 DEF Drained, EndReplayAndRecorder, Pushes
  <2> QED
    BY <1>0, <2>1, PushNotifies DEF Notifying
<1>5. CASE BeginIteration \/ EndEvents \/ AwaitPipes \/ WaitFails \/ StillRunning \/ Refuse
  BY <1>5 DEF BeginIteration, EndEvents, AwaitPipes, WaitFails, StillRunning, Refuse, Notifying
<1>6. CASE Submit \/ Cancel \/ ChildExits \/ WriterBreaks \/ DeadlinePasses
  BY <1>6 DEF Submit, Cancel, ChildExits, WriterBreaks, DeadlinePasses, Notifying
<1>7. CASE WorkerStep \/ LoaderStep \/ UNCHANGED vars
  BY <1>7 DEF WorkerStep, LoaderStep, vars, Notifying
<1> QED
  BY <1>1, <1>2, <1>3, <1>4, <1>5, <1>6, <1>7 DEF Next, Step, Hands, Rest

LEMMA EventType ==
    ASSUME events \in Seq(EventKinds), [Next]_vars
    PROVE  events' \in Seq(EventKinds)
<1>1. CASE ReceiveEvent
  BY <1>1, HeadTailProperties DEF ReceiveEvent
<1>2. CASE FinishSession
  <2>1. "ended" \in EventKinds
    BY DEF EventKinds
  <2> QED
    BY <1>2, <2>1, AppendProperties DEF FinishSession
<1>3. CASE ~ReceiveEvent /\ ~FinishSession
  <2>1. Notifying
    BY <1>3, EventStep
  <2> QED
    BY <2>1, AppendProperties DEF Notifying
<1> QED
  BY <1>1, <1>2, <1>3

\* An ended session settles, accepts and reports nothing.
LEMMA DoneRests ==
    ASSUME pc = "done", [Next]_vars, ~ReceiveEvent
    PROVE  UNCHANGED <<pc, commands, outcomes, stopping, events>>
<1>. USE DEF loopVars, acceptVars, stopVars, endVars, outsideVars
<1>1. ~Hands
  BY HandsIs DEF Works
<1>2. ~TakeEvent
  BY DEF TakeEvent, TakeResponse, TakeShutdownResponse, TakeNoise, TakeWriterFailed,
     TakeClosed, TakeReaderFailed
<1>3. ~(PollRecorder \/ DrainRecorder \/ BeginIteration \/ EndEvents \/ AwaitPipes \/ Drained
        \/ WaitFails \/ StillRunning \/ Refuse \/ EndReplayAndRecorder \/ FinishSession)
  BY DEF PollRecorder, DrainRecorder, BeginIteration, EndEvents, AwaitPipes, Drained,
     WaitFails, StillRunning, Refuse, EndReplayAndRecorder, FinishSession
<1>4. CASE Submit \/ Cancel \/ ChildExits \/ WriterBreaks \/ DeadlinePasses
           \/ WorkerStep \/ LoaderStep
  BY <1>4 DEF Submit, Cancel, ChildExits, WriterBreaks, DeadlinePasses, WorkerStep, LoaderStep,
     Outside
<1>5. CASE UNCHANGED vars
  BY <1>5 DEF vars
<1> QED
  BY <1>1, <1>2, <1>3, <1>4, <1>5 DEF Next, Step, Hands, Rest

LEMMA PollsStep ==
    ASSUME SessionInv, Polls, [Next]_vars
    PROVE  Polls'
<1>. USE DEF Polls, loopVars
<1>1. CASE Hands
  <2>1. CASE TakeOperation
    <3>1. replay' = Told(Polled(replay, loader, Transitioning(recorder)))
      BY <2>1 DEF TakeOperation, PollsReplay
    <3>2. Well(Polled(replay, loader, Transitioning(recorder)))
      <4>1. Well(replay) /\ loader \in Loaders /\ Transitioning(recorder) \in BOOLEAN
        BY DEF SessionInv, LinkedInv, Parts, IInv, ReplayTypeOK, Transitioning
      <4> QED
        BY <4>1, PolledWell
    <3> QED
      BY <3>1, <3>2 DEF Told, Well, Replays
  <2>2. CASE Accept
    <3>1. pc' \in {"input", "top"}
      BY <2>2 DEF Accept, RefuseOperation, AcceptShutdown, AcceptReplayControl,
         AcceptDuringReplay, AcceptRecordControl, AcceptDeferred, AcceptSend
    <3> QED
      BY <3>1
  <2>3. CASE SendDeferred \/ EndDeferred \/ EndInput \/ SubmitPlan \/ SubmitExhausted \/ EndPlan
    BY <2>3 DEF SendDeferred, MaySendDeferred, EndDeferred, EndInput, SubmitPlan, MaySubmit,
       SubmitExhausted, EndPlan
  <2> QED
    BY <1>1, <2>1, <2>2, <2>3 DEF Hands
<1>2. CASE TakeEvent
  BY <1>2 DEF TakeEvent, TakeResponse, TakeShutdownResponse, TakeNoise, TakeWriterFailed,
     TakeClosed, TakeReaderFailed
<1>3. CASE PollRecorder \/ DrainRecorder \/ BeginIteration \/ EndEvents \/ AwaitPipes \/ Drained
           \/ WaitFails \/ StillRunning \/ Refuse \/ EndReplayAndRecorder \/ FinishSession
  BY <1>3 DEF PollRecorder, DrainRecorder, BeginIteration, EndEvents, AwaitPipes, Drained,
     WaitFails, StillRunning, AfterExit, Refuse, EndReplayAndRecorder, FinishSession
<1>4. CASE Submit \/ ReceiveEvent \/ Cancel \/ ChildExits \/ WriterBreaks \/ DeadlinePasses
           \/ WorkerStep \/ LoaderStep
  BY <1>4 DEF Submit, ReceiveEvent, Cancel, ChildExits, WriterBreaks, DeadlinePasses, WorkerStep,
     LoaderStep, Load, Outside, replayVars
<1>5. CASE UNCHANGED vars
  BY <1>5 DEF vars, replayVars
<1> QED
  BY <1>1, <1>2, <1>3, <1>4, <1>5 DEF Next, Step, Hands, Rest

\* What the shutdown waits for.
LEMMA AllSettled ==
    ASSUME SessionInv, Polls, AcceptShutdown, NEW id \in AcceptedIds
    PROVE  outcomes[id] # "open"
<1>1. /\ pc = "accept" /\ active = {} /\ deferred = << >> /\ recorder.state = "idle"
      /\ ~IsBusy(replay)
  BY DEF AcceptShutdown, Replies, ShutdownBlocked, Busy
<1>2. recorder.id = 0
  BY <1>1 DEF SessionInv, Balance, Owners, Transitioning
<1>3. id # 0
  BY DEF AcceptedIds
<1>4. ~IsDeferred(id)
  BY <1>1, EmptySeq DEF IsDeferred
<1>5. ~Keeps(replay, id)
  <2>1. Well(replay)
    BY DEF SessionInv, LinkedInv, Parts, IInv
  <2>2. ~KeptBy(replay, id)
    BY <1>1, EmptySeq DEF Polls, KeptBy
  <2> QED
    BY <2>1, <2>2, KeepsIs
<1>6. ~KeptAt(id)
  BY <1>1, <1>2, <1>3, <1>4, <1>5 DEF KeptAt
<1> QED
  BY <1>6 DEF SessionInv, Balance, Balanced

\* Each step of the session is a step of its contract.
LEMMA ContractStep ==
    ASSUME ContractInv, [Next]_vars
    PROVE  [Contract!Next]_(Contract!vars)
<1>. DEFINE n == Len(commands)
            Settling(m) == \A id \in DOMAIN outcomes :
                              outcomes'[id] # outcomes[id] => outcomes[id] = "open" /\ id <= m
<1>0. /\ n \in Nat /\ n < LastId /\ LastId \in Nat /\ LastId \in Ids
      /\ Ids = 1 .. LastId /\ DOMAIN outcomes = Ids /\ NormalIds = Ids \ {LastId}
      /\ events \in Seq(EventKinds) /\ SessionInv /\ Polls /\ EndInv
  BY LastIdAssumption
     DEF ContractInv, SessionInv, LinkedInv, Links, AcceptTypes, Balance, Ids, NormalIds
<1>1. Settlings /\ (outcomes'[LastId] = outcomes[LastId] \/ FinishSession)
  BY <1>0, SessionStep
<1>2. CASE FinishSession
  <2>1. /\ ~Ended /\ Ended' /\ UNCHANGED <<commands, stopping>>
        /\ outcomes' = IF ~stopping THEN outcomes
                       ELSE [outcomes EXCEPT ![LastId] = ShutdownOutcome]
        /\ events' = IF reason = "none" THEN events ELSE Append(events, "ended")
    BY <1>2 DEF FinishSession, Ended, stopVars
  <2>2. ShutdownOutcome \in {"ok", "rejected", "protocol", "ended"}
    BY <1>0, AnswersAssumption DEF SessionInv, ShutdownOutcome
  <2>3. outcomes'[LastId] = "ok" /\ stopping => reason = "none"
    BY <1>0, <1>2, FinishIs DEF ShutdownOutcome
  <2>4. Contract!End
    BY <2>1, <2>2, <2>3 DEF Contract!End
  <2> QED
    BY <2>4 DEF Contract!Next
<1>3. CASE ReceiveEvent
  <2>1. Contract!Receive
    BY <1>3 DEF ReceiveEvent, Outside, loopVars, acceptVars, stopVars, Contract!Receive, Ended
  <2> QED
    BY <2>1 DEF Contract!Next
<1>4. CASE pc = "done" /\ ~ReceiveEvent
  BY <1>4, DoneRests DEF Contract!vars, Ended
<1>5. CASE pc # "done" /\ ~ReceiveEvent /\ ~FinishSession
  <2>1. ~Ended /\ UNCHANGED Ended /\ Notifying
    BY <1>0, <1>5, EndStep, EventStep DEF Ended, EndInv, EndKept
  <2>2. Contract!Notifies
    BY <2>1 DEF Notifying, EventKinds, Contract!Notifies
  <2>3. CASE AcceptShutdown
    <3>1. UNCHANGED <<commands, outcomes, events>> /\ ~stopping /\ stopping' = TRUE
      BY <2>3 DEF AcceptShutdown, acceptVars
    <3>2. \A id \in 1 .. n : outcomes[id] # "open"
      BY <1>0, <2>3, AllSettled DEF AcceptedIds
    <3>3. Contract!Stop
      BY <2>1, <3>1, <3>2 DEF Contract!Stop
    <3> QED
      BY <3>3 DEF Contract!Next
  <2>4. CASE ~AcceptShutdown
    <3>1. UNCHANGED stopping
      BY <2>4, StoppingStays
    <3>2. outcomes'[LastId] = outcomes[LastId]
      BY <1>1, <1>5
    <3>3. Settling(Len(commands'))
      BY <1>0, <1>1, <3>2 DEF Settlings, AcceptedIds
    <3>4. CASE UNCHANGED commands
      <4>1. Contract!Settle
        BY <2>1, <2>2, <3>1, <3>3, <3>4 DEF Contract!Settle, Contract!Settles
      <4> QED
        BY <4>1 DEF Contract!Next
    <3>5. ASSUME ~stopping, NEW kind, Grows(kind) PROVE Contract!Accept
      <4>1. Len(commands') = n + 1 /\ n + 1 < LastId
        <5>1. NextId \in NormalIds /\ Len(commands') = NextId /\ NextId = n + 1
          BY <3>5 DEF Grows, NextId
        <5> QED
          BY <1>0, <5>1 DEF NormalIds
      <4> QED
        BY <2>1, <2>2, <3>1, <3>3, <3>5, <4>1 DEF Contract!Accept, Contract!Settles
    <3> QED
      BY <1>0, <3>4, <3>5, CommandsStay DEF Contract!Next, SessionInv, LinkedInv
  <2> QED
    BY <2>3, <2>4
<1> QED
  BY <1>2, <1>3, <1>4, <1>5

LEMMA ContractInit == Init => ContractInv /\ Contract!Init
<1>. SUFFICES ASSUME Init PROVE ContractInv /\ Contract!Init
  OBVIOUS
<1>1. /\ pc = "top" /\ commands = << >> /\ Len(<< >>) = 0 /\ events = << >>
      /\ outcomes = [id \in Ids |-> "open"] /\ stopping = FALSE
  BY EmptySeq DEF Init
<1>2. Ids = 1 .. LastId
  BY LastIdAssumption DEF Ids, NormalIds
<1>3. << >> \in Seq(EventKinds)
  BY EmptySeq
<1> QED
  BY <1>1, <1>2, <1>3, SessionInit, EndInvInit DEF ContractInv, Polls, Contract!Init, Ended

(***************************************************************************)
(* Whatever happens inside, the client sees a session that keeps its       *)
(* contract (SessionContract): no outcome before its acceptance, after     *)
(* another one or after the end, the shutdown accepted when all before it  *)
(* is settled and nothing after it, events within their bound and Ended    *)
(* behind all of them (coordinator.rs, run; session/mod.rs, Pending).      *)
(***************************************************************************)
THEOREM SessionKeepsContract == SafetySpec => KeepsContract
<1>1. ContractInv /\ [Next]_vars => ContractInv'
  BY SessionStep, EndInvStep, PollsStep, EventType DEF ContractInv
<1>2. ContractInv /\ [Next]_vars => [Contract!Next]_(Contract!vars)
  BY ContractStep
<1> QED
  BY <1>1, <1>2, ContractInit, PTL DEF SafetySpec, KeepsContract, Contract!Spec
=============================================================================
