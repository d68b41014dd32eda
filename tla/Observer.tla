------------------------------ MODULE Observer ------------------------------
(***************************************************************************)
(* The observer of a game's stderr (report/observer.rs): markers come in   *)
(* frames (report/marker.rs), the frames of several markers and other      *)
(* output are interleaved, and only the frames of a marker that proved     *)
(* valid as a whole leave the output that is meant for people.             *)
(*                                                                         *)
(* A line of stderr is a frame of a marker; a line that looks like one and *)
(* is none; the beginning of such a line, cut off by the end of the pipe;  *)
(* or text.  How reads cut the lines is abstracted: the buffer joins them. *)
(***************************************************************************)
EXTENDS Naturals, Sequences, FiniteSets, Functions, SequencesExt, FiniteSetsExt

Text     == [kind |-> "text"]
BadFrame == [kind |-> "badFrame"]
Torn     == [kind |-> "torn"]

(***************************************************************************)
(* One line for each chunk of the payload.  data: "good"; "undecodable";   *)
(* or "altered", which only the checksum of the whole payload tells.       *)
(***************************************************************************)
FrameLine(event, payload, count, index, data) ==
    [kind |-> "frame", event |-> event, payload |-> payload, count |-> count,
     index |-> index, data |-> data]

Encode(event, payload, count) ==
    [index \in 1 .. count |-> FrameLine(event, payload, count, index, "good")]

(***************************************************************************)
(* pieces: lines in their order, each with the event it waits for, or 0.   *)
(* groups: the frames of each marker that is not complete.  human: what    *)
(* was released as diagnostics.  torn: the buffer holds a marker's prefix. *)
(***************************************************************************)
NewObserver ==
    [pieces |-> << >>, groups |-> {}, panicSeen |-> FALSE, human |-> << >>, torn |-> FALSE]

\* What push() and finish() return, with the observer after it.
Result(o, notices) == [observer |-> o, notices |-> notices]
Invalid == [kind |-> "invalid"]

Piece(o, event, line) ==
    [o EXCEPT !.pieces = Append(@, [event |-> event, line |-> line])]

\* A sequence without those of its elements that are gone.
Without(seq, gone) ==
    FoldLeft(LAMBDA rest, x : IF x \in gone THEN rest ELSE Append(rest, x), << >>, seq)

\* The pieces of a valid marker vanish, those of an invalid one become text.
Resolve(o, event, isValid) ==
    [o EXCEPT !.pieces =
        IF isValid THEN Without(@, {piece \in Range(@) : piece.event = event})
        ELSE [i \in DOMAIN @ |-> IF @[i].event = event THEN [@[i] EXCEPT !.event = 0]
                                 ELSE @[i]]]

Waiting(o) == {i \in DOMAIN o.pieces : o.pieces[i].event # 0}

\* Mutation of Released: a marker that is not complete holds nothing back.
ReleasedAll(o) == Len(o.pieces)

\* How many pieces at the front wait for nothing.
Released(o) == IF Waiting(o) = {} THEN Len(o.pieces) ELSE Min(Waiting(o)) - 1

Flush(o) ==
    [o EXCEPT !.human = @ \o [i \in 1 .. Released(o) |-> o.pieces[i].line],
              !.pieces = SubSeq(@, Released(o) + 1, Len(@))]

-----------------------------------------------------------------------------
GroupOf(o, event) == {frame \in o.groups : frame.event = event}
IsConsistent(o, frame) ==
    /\ frame.data # "undecodable"
    /\ \A other \in GroupOf(o, frame.event) :
          other.count = frame.count /\ other.index # frame.index

WithoutGroup(o, event) == [o EXCEPT !.groups = @ \ GroupOf(o, event)]

(***************************************************************************)
(* What a complete payload tells.  The exit of a process is never told by  *)
(* a marker; a tracing error counts when tracing is observed.              *)
(***************************************************************************)
NoticesOf(payload, tracing) ==
    IF payload = "tracing" /\ ~tracing THEN << >> ELSE << [kind |-> payload] >>

IsPayload(frames) ==
    \A frame \in frames : frame.data = "good" /\ frame.payload # "processExit"

Reassembled(o, frames, tracing) ==
    LET event   == (CHOOSE frame \in frames : TRUE).event
        payload == (CHOOSE frame \in frames : TRUE).payload
        valid   == IsPayload(frames)
    IN  Result([Resolve(WithoutGroup(o, event), event, valid)
                    EXCEPT !.panicSeen = @ \/ (valid /\ payload = "panic")],
               IF valid THEN NoticesOf(payload, tracing) ELSE <<Invalid>>)

\* line()
Frame(o, frame, tracing) ==
    LET held  == Piece(o, frame.event, frame)
        group == GroupOf(o, frame.event) \cup {frame}
    IN  IF ~IsConsistent(o, frame)
        THEN Result(Resolve(WithoutGroup(held, frame.event), frame.event, FALSE), <<Invalid>>)
        ELSE IF Cardinality(group) < frame.count
        THEN Result([held EXCEPT !.groups = @ \cup {frame}], << >>)
        ELSE Reassembled(held, group, tracing)

Line(o, line, tracing) ==
    CASE line.kind = "text"     -> Result(Piece(o, 0, line), << >>)
      [] line.kind = "badFrame" -> Result(Piece(o, 0, line), <<Invalid>>)
      [] line.kind = "torn"     -> Result([o EXCEPT !.torn = TRUE], << >>)
      [] line.kind = "frame"    -> Frame(o, line, tracing)

Flushed(result) == [result EXCEPT !.observer = Flush(@)]

Push(o, line, tracing) == Flushed(Line(o, line, tracing))

\* finish(): what is not complete at the end of stderr never will be.
Finish(o) ==
    LET events == {frame.event : frame \in o.groups}
        ended  == IF o.torn THEN Piece([o EXCEPT !.torn = FALSE], 0, Torn) ELSE o
        count  == Cardinality(events) + (IF o.torn THEN 1 ELSE 0)
    IN  Flushed(Result([ended EXCEPT !.groups = {},
                            !.pieces = [i \in DOMAIN @ |-> [@[i] EXCEPT !.event = 0]]],
                       [i \in 1 .. count |-> Invalid]))

\* Mutation of ProcessExit: an exit is reported beside the panic that led to it.
ProcessExitAnyway(o, intentional) ==
    IF intentional THEN << >> ELSE << [kind |-> "processExit"] >>

\* process_exit()
ProcessExit(o, intentional) ==
    IF intentional \/ o.panicSeen THEN << >> ELSE << [kind |-> "processExit"] >>
=============================================================================
