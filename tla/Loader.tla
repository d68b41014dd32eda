------------------------------- MODULE Loader -------------------------------
(***************************************************************************)
(* The replay loader (session/replay/loader.rs): what it makes of the      *)
(* lines of a recording file.  The loader reads line by line and keeps no  *)
(* more than parsed below, so a file is folded over one step per line.     *)
(*                                                                         *)
(* A line is a record with the fields its type has; "torn" is a line that  *)
(* is no JSON object.  A command is a kind, the ticks it asks for (of a    *)
(* warp start) and tag, which stands for its remaining arguments.          *)
(***************************************************************************)
EXTENDS Integers, Sequences, SequencesExt

HeaderLine(version) == [type |-> "recording_started", version |-> version]
FooterLine(outcome, count) ==
    [type |-> "recording_ended", outcome |-> outcome, count |-> count]
CommandLine(command, status, output) ==
    [type |-> "command", command |-> command, status |-> status, output |-> output]
TornLine == [type |-> "torn"]

Command(kind, ticks, tag) == [kind |-> kind, ticks |-> ticks, tag |-> tag]

NoOutput == [is |-> "none"]
Completion(requested, executed, outcome) ==
    [is |-> "completion", requested |-> requested, executed |-> executed,
     outcome |-> outcome]
StopOutput(wasRunning) == [is |-> "stopped", was_running |-> wasRunning]
OtherOutput == [is |-> "other"]

-----------------------------------------------------------------------------
(* What entry() writes for a command: its outcome, as a status *)

StatusOf(outcome) ==
    CASE outcome = "ok"       -> "completed"
      [] outcome = "io"       -> "io_failed"
      [] outcome = "protocol" -> "protocol_failed"
      [] outcome = "open"     -> "unanswered"
      [] OTHER                -> "rejected"

Recorded(command, outcome, output) ==
    CommandLine(command, StatusOf(outcome), IF outcome = "ok" THEN output ELSE NoOutput)

-----------------------------------------------------------------------------
(* What parse() reads *)

OutputFits(command, output) ==
    CASE command.kind = "warp" ->
            /\ output.is = "completion"
            /\ output.requested = command.ticks
            /\ output.executed <= output.requested
            /\ output.outcome # "stopped" => output.executed = output.requested
      [] command.kind = "warpStop" -> output.is = "stopped"
      [] OTHER -> output.is = "other"

NothingRead == [line |-> 0, count |-> 0, ended |-> FALSE, unanswered |-> FALSE,
           stopped_warp |-> FALSE, plan |-> << >>, error |-> "none"]

Refused(p, error) == [p EXCEPT !.error = error]

TakeHeader(p, line) ==
    IF line.type # "recording_started" THEN Refused(p, "invalid_recording")
    ELSE IF line.version # 1 THEN Refused(p, "unsupported_recording_version")
    ELSE p

TakeFooter(p, line) ==
    IF \/ line.count # p.count
       \/ p.unanswered /\ line.outcome # "session_ended"
    THEN Refused(p, "invalid_recording")
    ELSE [p EXCEPT !.ended = TRUE]

\* Mutation of UncertainStop: only a stop that was never answered counts.
UnansweredStop(p, line) ==
    /\ p.stopped_warp
    /\ line.command.kind = "warpStop"
    /\ line.status = "unanswered"

\* The answer of the stop is lost, but the warp before it says it was stopped.
UncertainStop(p, line) ==
    /\ p.stopped_warp
    /\ line.command.kind = "warpStop"
    /\ line.status \in {"protocol_failed", "io_failed", "unanswered"}

Planned(p, command) == [p EXCEPT !.plan = Append(@, command)]

\* A completed warp is replayed with the ticks it executed, if any.
TakeCompletion(p, command, output) ==
    LET q == [p EXCEPT !.stopped_warp = (output.outcome = "stopped")] IN
    IF output.executed = 0 THEN q
    ELSE Planned(q, [command EXCEPT !.ticks = output.executed])

TakeCompleted(p, command, output) ==
    CASE ~OutputFits(command, output) -> Refused(p, "invalid_recording")
      [] command.kind = "warp" /\ OutputFits(command, output) ->
            TakeCompletion(p, command, output)
      [] command.kind = "warpStop" /\ p.stopped_warp /\ OutputFits(command, output) ->
            IF output.was_running THEN [p EXCEPT !.stopped_warp = FALSE]
                                  ELSE Planned(p, command)
      [] OTHER -> Planned(p, command)

\* is_recordable(), of the kinds a file can name.
MayStand(kind) == kind \in {"game", "warp", "warpStop"}

TakeCommand(p, line) ==
    LET q == [p EXCEPT !.count = @ + 1,
                       !.unanswered = @ \/ line.status = "unanswered"] IN
    IF ~MayStand(line.command.kind) THEN Refused(p, "invalid_recording")
    ELSE IF line.status = "completed" THEN TakeCompleted(q, line.command, line.output)
    ELSE IF UncertainStop(p, line) THEN [q EXCEPT !.stopped_warp = FALSE]
    ELSE Planned(q, line.command)

Read(p, line) ==
    LET q == [p EXCEPT !.line = @ + 1] IN
    CASE p.error # "none"                -> p
      [] line.type = "torn"              -> Refused(q, "invalid_recording")
      [] q.line = 1                      -> TakeHeader(q, line)
      [] p.ended                         -> Refused(q, "invalid_recording")
      [] line.type = "recording_ended"   -> TakeFooter(q, line)
      [] line.type = "command"           -> TakeCommand(q, line)
      [] OTHER                           -> Refused(q, "invalid_recording")

Finished(p) ==
    IF p.error = "none" /\ ~p.ended THEN Refused(p, "invalid_recording") ELSE p

Parse(lines) == Finished(FoldLeft(Read, NothingRead, lines))
=============================================================================
