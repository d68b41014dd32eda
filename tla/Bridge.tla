------------------------------- MODULE Bridge -------------------------------
(***************************************************************************)
(* The session plugin in a controlled game (session/plugin.rs): one thread *)
(* reads request lines from stdin, one writes responses to stdout, and the *)
(* Control schedule of the main thread takes lines, polls screenshots and  *)
(* runs the ticks of a warp.  Input.tla and Screenshot.tla are the devices *)
(* and the capture service it calls.                                       *)
(*                                                                         *)
(* pc names the segment of Control the main thread is in; one action is a  *)
(* line it takes, a poll, or a tick.                                       *)
(***************************************************************************)
EXTENDS Screenshot

CONSTANTS
    MaxId,      \* requests are numbered 1 .. MaxId
    Requests,   \* Requests[n]: the peer's n-th request is one of these commands
    Repeats,    \* those a faulty peer sends under an id being worked on
    Batch,      \* 64 lines and 64 ticks in one run of Control at most
    Faults      \* of those below

(***************************************************************************)
(* malformed: the peer sends no request; eof: stdin ends; stdout: writing  *)
(* a response fails.                                                       *)
(***************************************************************************)
ASSUME FaultsAssumption == Faults \subseteq {"malformed", "eof", "stdout"}
ASSUME BoundsAssumption == MaxId \in Nat \ {0} /\ Batch \in Nat \ {0}

RequestIds == 1 .. MaxId

\* All the peer may ask for; the ticks of a warp are an unsigned number.
Asked == (UNION {Requests[id] : id \in RequestIds}) \cup Repeats

ASSUME RequestsAssumption ==
    \A request \in Asked : request.kind = "start" => request.ticks \in Nat

VARIABLES
    pc,         \* idle, intake, flush, poll, ticks, exited
    budget,     \* lines or ticks left in this segment
    exit,       \* was AppExit written?
    warp,       \* the active warp; id 0: none
    pace,       \* the pace of a warp that names none
    ticks,      \* Bridge.ticks
    lines,      \* lines in the channel of the reader thread
    stdin,      \* "open", or "ended" when the reader thread is gone
    output,     \* responses in the channel of the writer thread
    stdout,     \* does the writer thread still write?
    ack,        \* is the acknowledgement in the channel that shutdown waits on?
    sent,       \* history: how often each id was sent
    answered,   \* history: how often each id was answered on stdout
    warped      \* history: the ticks of all finished warps

loopVars  == <<pc, budget, exit>>
warpVars  == <<warp, pace, ticks, warped>>
pipeVars  == <<lines, stdin, output, stdout, ack, sent, answered>>
vars == <<loopVars, warpVars, pipeVars, inputVars, shotVars>>

NoWarp == [id |-> 0, requested |-> 0, executed |-> 0, slow |-> FALSE, recent |-> FALSE]

-----------------------------------------------------------------------------
(* Responses *)

Respond(responses) == output' = output \o responses

\* finish(): the warp, if there is one, is answered and gone.
WarpAnswer(outcome) == IF warp.id = 0 THEN << >> ELSE <<Answer(warp.id, outcome)>>

EndsWarp(executed) ==
    /\ warp' = NoWarp
    /\ warped' = warped + executed

-----------------------------------------------------------------------------
(* Control: intake of lines *)

BeginRun ==
    /\ pc = "idle" /\ ~exit
    /\ pc' = "intake"
    /\ budget' = Batch
    /\ gate' = Captured(gate)
    /\ UNCHANGED <<exit, warpVars, pipeVars, world, pointer, keyboard, text, game, shotVars>>

\* Mutation of IsDuplicate: a running warp may be asked for again.
IsDuplicateShot(id) == IsPending(id)

IsDuplicate(id) == warp.id = id \/ IsPending(id)

\* The head of the channel, which this step consumes.
Line == Head(lines)
Takes == pc = "intake" /\ budget > 0 /\ lines # << >>
                       /\ lines' = Tail(lines) /\ budget' = budget - 1

\* What taking a line leaves alone in every case.
PipesRest == UNCHANGED <<stdin, stdout, ack, sent, answered>>

\* Not a request: an answer that names the id if the line has one.
TakeMalformed ==
    /\ Takes /\ Line.request.kind = "malformed"
    /\ Respond(<<Answer(Line.id, "protocol")>>)
    /\ PipesRest
    /\ UNCHANGED <<pc, exit, warpVars, inputVars, shotVars>>

TakeDuplicate ==
    /\ Takes /\ Line.request.kind # "malformed" /\ IsDuplicate(Line.id)
    /\ Respond(<<Answer(Line.id, "protocol")>>)
    /\ PipesRest
    /\ UNCHANGED <<pc, exit, warpVars, inputVars, shotVars>>

Dispatch(kinds) ==
    /\ Takes /\ Line.request.kind \in kinds /\ ~IsDuplicate(Line.id)
    /\ PipesRest

Answers(ok) == Respond(<<Answer(Line.id, IF ok THEN "completed" ELSE "rejected")>>)

\* inspect.query answers from the world; the coordinator's commands are unknown here.
TakeQuery ==
    /\ Dispatch({"inspect", "recordingStart"})
    /\ \E ok \in BOOLEAN : (ok => Line.request.kind = "inspect") /\ Answers(ok)
    /\ UNCHANGED <<pc, exit, warpVars, inputVars, shotVars>>

PointerResult(r) ==
    CASE r.kind = "moveTo"  -> MoveTo(r.position)
      [] r.kind = "moveBy"  -> MoveBy(r.position)
      [] r.kind = "press"   -> Button(r.button, TRUE)
      [] r.kind = "release" -> Button(r.button, FALSE)
      [] r.kind = "scroll"  -> Scroll(r.position)

TakePointer ==
    /\ Dispatch({"moveTo", "moveBy", "press", "release", "scroll"})
    /\ pointer' = PointerResult(Line.request).device
    /\ Answers(PointerResult(Line.request).ok)
    /\ UNCHANGED <<pc, exit, warpVars, world, keyboard, text, gate, game, shotVars>>

TakeKey ==
    /\ Dispatch({"keyPress", "keyRelease"})
    /\ LET result == PressKey(Line.request.key, Line.request.kind = "keyPress") IN
       /\ keyboard' = result.device
       /\ Answers(result.ok)
    /\ UNCHANGED <<pc, exit, warpVars, world, pointer, text, gate, game, shotVars>>

TakeText ==
    /\ Dispatch({"text"})
    /\ text' = TextInput(Line.request.value).device
    /\ Answers(TextInput(Line.request.value).ok)
    /\ UNCHANGED <<pc, exit, warpVars, world, pointer, keyboard, gate, game, shotVars>>

\* Accepted, it is answered by poll().
TakeScreenshot ==
    /\ Dispatch({"screenshot"})
    /\ \/ /\ MayCapture(ticks)
          /\ Enqueue(Line.id, Line.request.path)
          /\ UNCHANGED output
       \/ /\ ~MayCapture(ticks) \/ DiskFails
          /\ Answers(FALSE)
          /\ UNCHANGED service
    /\ UNCHANGED <<pc, exit, warpVars, inputVars, spawned, live, frame, gpu, images,
                   writers, files>>

\* pace: "" names none, "never" is not valid.
TakeStart ==
    /\ Dispatch({"start"})
    /\ LET r     == Line.request
           named == IF r.pace = "" THEN pace ELSE r.pace
       IN  IF r.ticks = 0 \/ named = "never" \/ warp.id # 0
           THEN Answers(FALSE) /\ UNCHANGED warp
           ELSE /\ warp' = [NoWarp EXCEPT !.id = Line.id, !.requested = r.ticks,
                                          !.slow = (named = "slow")]
                /\ UNCHANGED output
    /\ UNCHANGED <<pc, exit, pace, ticks, warped, inputVars, shotVars>>

TakeSetPace ==
    /\ Dispatch({"setPace"})
    /\ LET named == Line.request.pace IN
       /\ Answers(named # "never")
       /\ pace' = IF named = "never" THEN pace ELSE named
       /\ warp' = IF named = "never" \/ warp.id = 0 THEN warp
                  ELSE [warp EXCEPT !.slow = (named = "slow"), !.recent = FALSE]
    /\ UNCHANGED <<pc, exit, ticks, warped, inputVars, shotVars>>

\* The warp is answered first, then the stop.
TakeStop ==
    /\ Dispatch({"stop"})
    /\ Respond(WarpAnswer("stopped") \o <<Answer(Line.id, "completed")>>)
    /\ EndsWarp(warp.executed)
    /\ UNCHANGED <<pc, exit, pace, ticks, inputVars, shotVars>>

\* Sent with a sender for the acknowledgement; the main thread waits for it.
TakeShutdown ==
    /\ Dispatch({"shutdown"})
    /\ Respond(<<Answer(Line.id, "shutdown")>>)
    /\ pc' = "flush"
    /\ UNCHANGED <<exit, warpVars, inputVars, shotVars>>

TakeLine == \/ TakeMalformed \/ TakeDuplicate \/ TakeQuery \/ TakePointer \/ TakeKey
            \/ TakeText \/ TakeScreenshot \/ TakeStart \/ TakeSetPace \/ TakeStop
            \/ TakeShutdown

\* rx.recv() returns with the acknowledgement, or an error when the writer that
\* ended dropped the channel and every sender in it.
Flushed == ack \/ stdout = "broken"

\* AppExit is written; this run of Control goes on.
FlushShutdown ==
    /\ pc = "flush" /\ Flushed
    /\ exit' = TRUE
    /\ pc' = "intake"
    /\ ack' = FALSE
    /\ UNCHANGED <<budget, warpVars, lines, stdin, output, stdout, sent, answered,
                   inputVars, shotVars>>

\* The channel is empty and its reader gone: neither poll nor tick follows.
Disconnected ==
    /\ pc = "intake" /\ budget > 0 /\ lines = << >> /\ stdin = "ended"
    /\ exit' = TRUE
    /\ pc' = "idle"
    /\ UNCHANGED <<budget, warpVars, pipeVars, inputVars, shotVars>>

EndIntake ==
    /\ pc = "intake"
    /\ budget = 0 \/ (lines = << >> /\ stdin = "open")
    /\ pc' = "poll"
    /\ UNCHANGED <<budget, exit, warpVars, pipeVars, inputVars, shotVars>>

-----------------------------------------------------------------------------
(* Control: screenshots and ticks *)

PollStep ==
    /\ pc = "poll"
    /\ LET polled == Polled IN
       /\ PollScreenshots(polled)
       /\ Respond(polled.responses)
    /\ pc' = "ticks" /\ budget' = Batch
    /\ UNCHANGED <<exit, warpVars, lines, stdin, stdout, ack, sent, answered, inputVars>>

\* A paced warp waits for the time since its last tick.
MayTick == warp.id # 0 /\ budget > 0 /\ ~(warp.slow /\ warp.recent)

\* Mutation of Executed: the ticks of a warp are counted from zero to its number.
ExecutedLate == warp.executed

Executed == warp.executed + 1

Tick ==
    /\ pc = "ticks" /\ MayTick
    /\ Flush(Captured(gate))
    /\ ticks' = ticks + 1
    /\ IF Executed = warp.requested
       THEN /\ Respond(WarpAnswer("completed"))
            /\ EndsWarp(Executed)
            /\ budget' = 0
       ELSE /\ warp' = [warp EXCEPT !.executed = Executed, !.recent = TRUE]
            /\ budget' \in {0, budget - 1}      \* 2 ms may have passed
            /\ UNCHANGED <<warped, output>>
    /\ UNCHANGED <<pc, exit, pace, lines, stdin, stdout, ack, sent, answered, world, shotVars>>

EndRun ==
    /\ pc = "ticks" /\ ~MayTick
    /\ pc' = "idle"
    /\ UNCHANGED <<budget, exit, warpVars, pipeVars, inputVars, shotVars>>

AppExits ==
    /\ pc = "idle" /\ exit
    /\ pc' = "exited"
    /\ UNCHANGED <<budget, exit, warpVars, pipeVars, inputVars, shotVars>>

Main == \/ BeginRun \/ TakeLine \/ FlushShutdown \/ Disconnected \/ EndIntake
        \/ PollStep \/ Tick \/ EndRun \/ AppExits

-----------------------------------------------------------------------------
(* The other threads, and the peer *)

\* Mutation of Acknowledges: the writer acknowledges whatever it wrote.
AcknowledgesAny(response) == TRUE

\* Only the response of shutdown comes with a sender to acknowledge it.
Acknowledges(response) == response.outcome = "shutdown"

\* Every response is written in the order it was given to the channel.
WriteResponse ==
    /\ output # << >> /\ stdout = "open" /\ pc # "exited"
    /\ output' = Tail(output)
    /\ answered' = [answered EXCEPT ![Head(output).id] = @ + 1]
    /\ ack' = (ack \/ Acknowledges(Head(output)))
    /\ UNCHANGED <<loopVars, warpVars, lines, stdin, stdout, sent, inputVars, shotVars>>

\* The thread ends with the first write that fails.
StdoutBreaks ==
    /\ "stdout" \in Faults /\ stdout = "open" /\ output # << >>
    /\ stdout' = "broken"
    /\ UNCHANGED <<loopVars, warpVars, lines, stdin, output, ack, sent, answered,
                   inputVars, shotVars>>

(***************************************************************************)
(* The peer numbers its requests; a faulty one repeats an id that is being *)
(* worked on, once in a behaviour, or sends no request.                    *)
(***************************************************************************)
Sends(id, request) ==
    /\ stdin = "open" /\ pc # "exited"
    /\ Len(lines) < Batch
    /\ lines' = Append(lines, [id |-> id, request |-> request])
    /\ sent' = [sent EXCEPT ![id] = @ + 1]
    /\ UNCHANGED <<loopVars, warpVars, stdin, output, stdout, ack, answered, inputVars, shotVars>>

IsFresh(id) == \A other \in RequestIds : other >= id <=> sent[other] = 0

SendRequest ==
    \E id \in RequestIds : \E request \in Requests[id] : IsFresh(id) /\ Sends(id, request)

SendAgain ==
    /\ \A id \in RequestIds : sent[id] <= 1
    /\ \E id \in RequestIds, request \in Repeats :
          (warp.id = id \/ IsPending(id)) /\ Sends(id, request)

SendMalformed ==
    /\ "malformed" \in Faults
    /\ \E id \in RequestIds : IsFresh(id) /\ Sends(id, [kind |-> "malformed"])

CloseStdin ==
    /\ "eof" \in Faults /\ stdin = "open"
    /\ stdin' = "ended"
    /\ UNCHANGED <<loopVars, warpVars, lines, output, stdout, ack, sent, answered,
                   inputVars, shotVars>>

\* The time between two ticks of a paced warp has passed.
PacePasses ==
    /\ warp.slow /\ warp.recent
    /\ warp' = [warp EXCEPT !.recent = FALSE]
    /\ UNCHANGED <<loopVars, pace, ticks, warped, pipeVars, inputVars, shotVars>>

\* The platform's events and the extraction of a frame come between two runs.
Between ==
    /\ pc = "idle"
    /\ \/ (WorldChanges \/ NativeEvent) /\ UNCHANGED shotVars
       \/ Extract /\ UNCHANGED inputVars
    /\ UNCHANGED <<loopVars, warpVars, pipeVars>>

Render == /\ pc # "exited"
          /\ Check \/ Readback \/ ReadbackTimeout
          /\ UNCHANGED <<loopVars, warpVars, pipeVars, inputVars>>

WriterStep == pc # "exited" /\ Writer /\ UNCHANGED <<loopVars, warpVars, pipeVars, inputVars>>

Rest == pc = "exited" /\ UNCHANGED vars

-----------------------------------------------------------------------------
Init ==
    /\ InputInit /\ ShotInit
    /\ pc = "idle" /\ budget = 0 /\ exit = FALSE
    /\ warp = NoWarp /\ pace = "fast" /\ ticks = 0 /\ warped = 0
    /\ lines = << >> /\ stdin = "open" /\ output = << >> /\ stdout = "open" /\ ack = FALSE
    /\ sent = [id \in RequestIds |-> 0] /\ answered = sent

Next == \/ Main
        \/ WriteResponse \/ StdoutBreaks
        \/ SendRequest \/ SendAgain \/ SendMalformed \/ CloseStdin
        \/ PacePasses \/ Between \/ Render \/ WriterStep
        \/ Rest

(***************************************************************************)
(* The main loop, the writer thread and the threads that write images run, *)
(* and time passes.  The renderer and the GPU owe nothing.                 *)
(***************************************************************************)
Fairness ==
    /\ WF_loopVars(Main)
    /\ WF_output(WriteResponse)
    /\ WF_warp(PacePasses)
    /\ WF_writers(WriterStep)
    /\ WF_service(pc # "exited" /\ ReadbackTimeout
                    /\ UNCHANGED <<loopVars, warpVars, pipeVars, inputVars>>)

SafetySpec == Init /\ [][Next]_vars
Spec       == SafetySpec /\ Fairness

-----------------------------------------------------------------------------
(* Properties *)

(***************************************************************************)
(* Every line is answered by exactly one response, whoever answers it: the *)
(* dispatch, a later tick, a stop, or the capture service.  At any time    *)
(* the lines that were sent are those that wait, those being worked on and *)
(* those that are answered.  An id that is sent again never names two      *)
(* pieces of work at once.                                                 *)
(***************************************************************************)
Count(sequence, id) == Cardinality({i \in DOMAIN sequence : sequence[i].id = id})

Work(id) == (IF warp.id = id THEN 1 ELSE 0)
              + (IF service.active.job.id = id THEN 1 ELSE 0)
              + Count(service.queue, id)

AnsweredOnce ==
    \A id \in RequestIds :
        /\ sent[id] = Count(lines, id) + Work(id) + Count(output, id) + answered[id]
        /\ Work(id) <= 1

(***************************************************************************)
(* The simulation advances in warps only and by what they report: the      *)
(* ticks of the game are those of the finished warps and of the active     *)
(* one, which has not run to its end.                                      *)
(***************************************************************************)
TicksAreWarps ==
    /\ ticks = warped + warp.executed
    /\ warp.id # 0 => warp.executed < warp.requested

(***************************************************************************)
(* When the main thread leaves the wait of a shutdown and writes AppExit,  *)
(* the peer has its confirmation and every answer before it, although only *)
(* the last response was acknowledged: each request it sent is answered on *)
(* stdout, still unread, or the open warp or capture, which shutdown does  *)
(* not wait for (plugin.rs:75-90, 353-361).                                *)
(***************************************************************************)
ExitIsFlushed ==
    [][pc = "flush" /\ pc' # "flush" =>
          \/ stdout = "broken"
          \/ \A id \in RequestIds : sent[id] = Count(lines, id) + Work(id) + answered[id]]_vars

(***************************************************************************)
(* Every request of the peer is answered, however long the GPU is silent   *)
(* and however slow a warp is, unless the game exits or stdout broke.      *)
(***************************************************************************)
EveryLineAnswered ==
    \A id \in RequestIds :
        sent[id] = 1 ~> (answered[id] >= 1 \/ exit \/ stdout = "broken")
=============================================================================
