------------------------------- MODULE Server -------------------------------
(***************************************************************************)
(* The server for several sessions: the directory with its one shutdown    *)
(* deadline (server/mod.rs), an entry per session with the thread that     *)
(* owns the session and stops it in order (server/entry.rs), its activity  *)
(* (server/activity.rs), its report worker (server/reports.rs), and the    *)
(* connections that submit commands (server/transport.rs).                 *)
(*                                                                         *)
(* An owner thread is where its pc says; one action is what it does under  *)
(* one lock, or one call into its session.                                 *)
(***************************************************************************)
EXTENDS Activity, ServedSession

CONSTANTS
    Sessions,   \* the sessions that are created
    Callers,    \* connections; each one submits one command
    TargetOf,   \* TargetOf[c]: the session caller c is connected to
    Offered,    \* the kinds of command they submit
    Batch,      \* 64 submissions and 64 events in one turn of an owner
    Faults      \* of those below

(***************************************************************************)
(* start: a session does not start; crash: the game ends by itself;        *)
(* refusal: it refuses what an orderly stop asks for; disk: a recording    *)
(* fails; report: the game reports a failure; listener: axum returns.      *)
(***************************************************************************)
ASSUME FaultsAssumption ==
    Faults \subseteq {"start", "crash", "refusal", "disk", "report", "listener"}
ASSUME TargetAssumption == TargetOf \in [Callers -> Sessions]
ASSUME OfferedAssumption == Offered \subseteq ServedKinds
ASSUME BatchAssumption == Batch \in Nat \ {0}

VARIABLES
    entry,      \* Entry: what locks and atomics guard, for each session
    owner,      \* the local variables of each owner thread
    session,    \* the Session it owns
    reports,    \* jobs of its report worker
    inbox,      \* callers whose submission waits for the owner
    caller,     \* idle, checked, waiting, accepted, refused
    directory,  \* stopping (it has its deadline), forced, the result of Server::run
    trouble,    \* history: did something outside go wrong?
    admitted    \* history: commands of callers that were accepted

vars == <<entry, owner, session, reports, inbox, caller, directory, trouble,
          admitted>>

NewEntry ==
    [life |-> "absent", pending |-> {}, store |-> NewStore, cancel |-> FALSE,
     forced |-> FALSE, reportCancel |-> FALSE, incomplete |-> FALSE, done |-> FALSE]

NewOwner ==
    [pc |-> "absent", budget |-> 0, tokens |-> << >>, at |-> 1,
     replayStop |-> 0, replayStopped |-> FALSE, stopSent |-> FALSE, recordingStop |-> 0,
     shutdownSent |-> FALSE, shutdownCompleted |-> FALSE,
     eventEnd |-> FALSE, failed |-> FALSE]

-----------------------------------------------------------------------------
(* Entry: everything that takes the data lock *)

IsTerminal(life) == life \in {"Ended", "Failed"}

\* What changes an entry pushes an activity under the same lock.
Pushed(e, what, size) == [e EXCEPT !.store = Push(@, what, size, e.pending)]

Lifecycle(life) == [kind |-> "lifecycle", life |-> life, id |-> 0]

\* transition(): a terminal state stays, and clears what is pending.
Transitioned(e, life) ==
    IF IsTerminal(e.life) THEN e
    ELSE Pushed([e EXCEPT !.life = life,
                          !.pending = IF IsTerminal(life) THEN {} ELSE @],
                Lifecycle(life), 1)

Accepted(e, id) ==
    Pushed([e EXCEPT !.pending = @ \cup {id}], [kind |-> "pending", life |-> "", id |-> id], 1)

\* An output may be as large as the whole store, or larger.
OutputSizes == {Limit, Limit + 1}

SettledEntry(e, id, size) ==
    Pushed([e EXCEPT !.pending = @ \ {id}], [kind |-> "settled", life |-> "", id |-> id], size)

\* A report that is interrupted leaves its outcome unknown.
ReportedEntry(e, interrupted) ==
    Pushed([e EXCEPT !.incomplete = @ \/ interrupted],
           [kind |-> "report", life |-> "", id |-> 0], 1)

\* stop(), under the admission lock as well: no submission is being accepted.
Stopped(e) ==
    IF IsTerminal(e.life) \/ e.life \in {"Stopping", "absent"} THEN e
    ELSE Pushed([e EXCEPT !.cancel = @ \/ e.life = "Starting", !.life = "Stopping"],
                Lifecycle("Stopping"), 1)

\* Mutation of Aborted: the report worker is not cancelled.
AbortedSession(e) ==
    IF e.done \/ e.life = "absent" THEN e ELSE [e EXCEPT !.forced = TRUE, !.cancel = TRUE]

Aborted(e) ==
    IF e.done \/ e.life = "absent" THEN e
    ELSE [e EXCEPT !.forced = TRUE, !.cancel = TRUE, !.reportCancel = TRUE]

-----------------------------------------------------------------------------
(* Callers *)

\* connection() and submit(): refused at once when stopping or not Ready.
Check(c) ==
    LET s == TargetOf[c] IN
    /\ caller[c] = "idle" /\ entry[s].life # "absent"
    /\ caller' = [caller EXCEPT ![c] =
                    IF ~directory.stopping /\ entry[s].life = "Ready"
                    THEN "checked" ELSE "refused"]
    /\ UNCHANGED <<entry, owner, session, reports, inbox, directory, trouble,
                   admitted>>

\* The receiver of the channel lives as long as run().
Listens(s) == owner[s].pc \notin {"drop", "join", "done"}

Send(c) ==
    LET s == TargetOf[c] IN
    /\ caller[c] = "checked"
    /\ IF Listens(s)
       THEN /\ inbox' = [inbox EXCEPT ![s] = Append(@, c)]
            /\ caller' = [caller EXCEPT ![c] = "waiting"]
       ELSE /\ caller' = [caller EXCEPT ![c] = "refused"]
            /\ UNCHANGED inbox
    /\ UNCHANGED <<entry, owner, session, reports, directory, trouble, admitted>>

-----------------------------------------------------------------------------
(* Start of an owner thread *)

\* The owner of s goes on at pc; nothing but entry and owner changes.
OwnerOnly == UNCHANGED <<session, reports, inbox, caller, directory, trouble, admitted>>
Goes(s, pc) == owner' = [owner EXCEPT ![s].pc = pc]

(***************************************************************************)
(* A start that was stopped, by nothing but an orderly stop, has ended     *)
(* regularly; every other one has failed.                                  *)
(***************************************************************************)
StartFailed(s, isEnded) ==
    /\ entry' = [entry EXCEPT ![s] =
        Transitioned(@, IF @.life = "Stopping" /\ isEnded /\ ~@.forced
                        THEN "Ended" ELSE "Failed")]
    /\ Goes(s, "join")

\* prepare() and the look at the cancel flag before the start.
Prepare(s) ==
    /\ owner[s].pc = "prepare"
    /\ \/ /\ "start" \in Faults
          /\ StartFailed(s, FALSE)
          /\ trouble' = [trouble EXCEPT ![s] = TRUE]
       \/ /\ IF entry[s].cancel THEN StartFailed(s, TRUE)
             ELSE Goes(s, "launch") /\ UNCHANGED entry
          /\ UNCHANGED trouble
    /\ UNCHANGED <<session, reports, inbox, caller, directory, admitted>>

\* start_cancellable(): a cancel meets a start that is still under way, or comes too late.
LaunchFails(s) ==
    /\ owner[s].pc = "launch"
    /\ \/ entry[s].cancel /\ StartFailed(s, TRUE) /\ UNCHANGED trouble
       \/ /\ "start" \in Faults /\ StartFailed(s, FALSE)
          /\ trouble' = [trouble EXCEPT ![s] = TRUE]
    /\ UNCHANGED <<session, reports, inbox, caller, directory, admitted>>

Launches(s) ==
    /\ owner[s].pc = "launch"
    /\ session' = [session EXCEPT ![s].life = "live"]
    /\ Goes(s, "ready")
    /\ UNCHANGED <<entry, reports, inbox, caller, directory, trouble, admitted>>

BecomesReady(s) ==
    /\ owner[s].pc = "ready"
    /\ entry' = [entry EXCEPT ![s] = IF @.life = "Starting" THEN Transitioned(@, "Ready") ELSE @]
    /\ Goes(s, "cancel")
    /\ OwnerOnly

-----------------------------------------------------------------------------
(* run(): one turn of the owner's loop *)

\* A forced end, or a stop that came while the session started.
CheckCancel(s) ==
    /\ owner[s].pc = "cancel"
    /\ IF entry[s].cancel
       THEN /\ entry' = [entry EXCEPT ![s] = Transitioned(@, "Failed")]
            /\ Goes(s, "drop")
       ELSE /\ owner' = [owner EXCEPT ![s].pc = "take", ![s].budget = Batch]
            /\ UNCHANGED entry
    /\ OwnerOnly

(***************************************************************************)
(* accept(): the token is kept, the command is pending.  An accepted       *)
(* shutdown is the beginning of the stop, whoever asked for it.            *)
(***************************************************************************)
AcceptedEntry(e, id) ==
    IF id = LastId THEN Transitioned(Accepted(e, id), "Stopping") ELSE Accepted(e, id)

Accepts(s, kind, after) ==
    LET id == IdFor(session[s], kind) IN
    /\ Refusal(session[s], kind) = "none"
    /\ entry' = [entry EXCEPT ![s] = AcceptedEntry(@, id)]
    /\ session' = [session EXCEPT ![s] = Submitted(@, kind)]
    /\ owner' = [owner EXCEPT ![s] = [after EXCEPT !.tokens = Append(after.tokens, id)]]

\* Mutation of Admits: what passed the caller's check is accepted.
AdmitsChecked(s) == TRUE

Admits(s) == entry[s].life = "Ready"

Take(s) ==
    /\ owner[s].pc = "take" /\ owner[s].budget > 0 /\ inbox[s] # << >>
    /\ inbox' = [inbox EXCEPT ![s] = Tail(@)]
    /\ LET c    == Head(inbox[s])
           rest == [owner[s] EXCEPT !.budget = @ - 1]
       IN  \/ /\ Admits(s)
              /\ \E kind \in Offered : Accepts(s, kind, rest)
              /\ caller' = [caller EXCEPT ![c] = "accepted"]
              /\ admitted' = [admitted EXCEPT ![s] = @ + 1]
           \/ /\ ~Admits(s) \/ \E kind \in Offered : Refusal(session[s], kind) # "none"
              /\ caller' = [caller EXCEPT ![c] = "refused"]
              /\ owner' = [owner EXCEPT ![s] = rest]
              /\ UNCHANGED <<entry, session, admitted>>
    /\ UNCHANGED <<reports, directory, trouble>>

EndTake(s) ==
    /\ owner[s].pc = "take" /\ (owner[s].budget = 0 \/ inbox[s] = << >>)
    /\ owner' = [owner EXCEPT ![s].pc = "receive", ![s].at = 1,
                            ![s].budget = Batch]
    /\ OwnerOnly /\ UNCHANGED entry

\* The outcomes that end the orderly stop when they are bad.
IsOfTheStop(o, id) == id = LastId \/ (id # 0 /\ id \in {o.recordingStop, o.replayStop})

Receive(s) ==
    /\ owner[s].pc = "receive" /\ owner[s].at <= Len(owner[s].tokens)
    /\ LET id      == owner[s].tokens[owner[s].at]
           outcome == Received(session[s], id)
           ok      == outcome = "ok"
       IN IF outcome = "nothing"
          THEN /\ owner' = [owner EXCEPT ![s].at = @ + 1]
               /\ UNCHANGED <<entry, session>>
          ELSE /\ owner' = [owner EXCEPT
                    ![s].tokens = RemoveAt(@, owner[s].at),
                    ![s].shutdownSent = @ \/ id = LastId,
                    ![s].shutdownCompleted = @ \/ (ok /\ id = LastId),
                    ![s].replayStopped = @ \/ (ok /\ id = owner[s].replayStop),
                    ![s].failed = @ \/ (~ok /\ IsOfTheStop(owner[s], id))]
               /\ \E size \in IF ok THEN OutputSizes ELSE {1} :
                     entry' = [entry EXCEPT ![s] = SettledEntry(@, id, size)]
               /\ session' = [session EXCEPT ![s] = Taken(@, id)]
    /\ UNCHANGED <<reports, inbox, caller, directory, trouble, admitted>>

\* All tokens were looked at: the events are next.
AtEvents(s) == owner[s].pc = "receive" /\ owner[s].at > Len(owner[s].tokens)

\* A failure is captured as a report, which the worker takes over.
TakeEvent(s) ==
    /\ AtEvents(s) /\ owner[s].budget > 0 /\ ~owner[s].eventEnd
    /\ session[s].events > 0
    /\ session' = [session EXCEPT ![s].events = @ - 1]
    /\ entry' = [entry EXCEPT ![s] = Pushed(@, [kind |-> "event", life |-> "", id |-> 0], 1)]
    /\ reports' = [reports EXCEPT ![s] = @ + 1]
    /\ owner' = [owner EXCEPT ![s].budget = @ - 1]
    /\ UNCHANGED <<inbox, caller, directory, trouble, admitted>>

\* run() returns when a part of the stop failed or the session has ended.
Fails(o, drained) == o.failed /\ ((~o.shutdownSent /\ drained) \/ o.eventEnd)
Ends(o)           == o.tokens = << >> /\ o.eventEnd

\* try_receive_event() finds nothing, or that the session has ended.
EndEvents(s) ==
    /\ AtEvents(s)
    /\ owner[s].budget = 0 \/ owner[s].eventEnd \/ session[s].events = 0
    /\ LET looks   == owner[s].budget > 0 /\ ~owner[s].eventEnd
           ended   == session[s].life = "ended"
           drained == looks /\ ~ended
           o       == [owner[s] EXCEPT !.eventEnd = @ \/ (looks /\ ended)]
           next    == IF Fails(o, drained) THEN "failed" ELSE IF Ends(o) THEN "ended" ELSE "act"
       IN  owner' = [owner EXCEPT ![s] = [o EXCEPT !.pc = next, !.at = 1,
                        !.shutdownSent = \/ o.shutdownSent
                                         \/ next = "act" /\ LastId \in Range(o.tokens)]]
    /\ OwnerOnly /\ UNCHANGED entry

\* The last transition of the lifecycle.
Returns(s) ==
    /\ owner[s].pc \in {"failed", "ended"}
    /\ entry' = [entry EXCEPT ![s] =
            Transitioned(@, IF owner[s].pc = "ended" /\ owner[s].shutdownCompleted
                            THEN "Ended" ELSE "Failed")]
    /\ Goes(s, "drop")
    /\ OwnerOnly

-----------------------------------------------------------------------------
(* The orderly stop: one of these steps in each turn *)

Acts(s) == owner[s].pc = "act" /\ entry[s].life = "Stopping" /\ ~owner[s].shutdownSent
ActOnly == UNCHANGED <<reports, inbox, caller, directory, trouble, admitted>>
Turn(s) == [owner[s] EXCEPT !.pc = "cancel"]

\* The session refuses a command of the stop: it has ended by itself.
RefusedStop(s, kind) ==
    /\ Refusal(session[s], kind) # "none"
    /\ entry' = [entry EXCEPT ![s] = Transitioned(@, "Failed")]
    /\ Goes(s, "drop")
    /\ UNCHANGED session

StopReplay(s) ==
    /\ Acts(s) /\ owner[s].replayStop = 0
    /\ \/ Accepts(s, "replayStop", [Turn(s) EXCEPT !.replayStop = session[s].next])
       \/ RefusedStop(s, "replayStop")
    /\ ActOnly

StopWarp(s) ==
    /\ Acts(s) /\ owner[s].replayStop # 0 /\ owner[s].replayStopped /\ ~owner[s].stopSent
    /\ \/ Accepts(s, "warpStop", [Turn(s) EXCEPT !.stopSent = TRUE])
       \/ RefusedStop(s, "warpStop")
    /\ ActOnly

\* Mutation of MayShutDown: shutdown follows the stop of a warp at once.
MayShutDownAtOnce(s) == Acts(s) /\ owner[s].stopSent

MayShutDown(s) == Acts(s) /\ owner[s].stopSent /\ owner[s].tokens = << >>

Blocked(s) == Refusal(session[s], "shutdown") = "shutdown_recording_active"

\* A shutdown that is refused because a recording is active closes the recording.
ShutDown(s) ==
    /\ MayShutDown(s)
    /\ IF Blocked(s)
       THEN Goes(s, "close") /\ UNCHANGED <<entry, session>>
       ELSE \/ Accepts(s, "shutdown", [Turn(s) EXCEPT !.shutdownSent = TRUE])
            \/ RefusedStop(s, "shutdown")
    /\ ActOnly

\* By now the recording may have failed; a later turn tries the shutdown again.
CloseRecording(s) ==
    /\ owner[s].pc = "close"
    /\ \/ Accepts(s, "recordingStop", [Turn(s) EXCEPT !.recordingStop = session[s].next])
       \/ RefusedStop(s, "recordingStop")
    /\ ActOnly

\* Nothing to do, or something to wait for.
Wait(s) ==
    /\ owner[s].pc = "act"
    /\ \/ ~Acts(s)
       \/ owner[s].replayStop # 0 /\ ~owner[s].replayStopped
       \/ owner[s].stopSent /\ owner[s].tokens # << >>
    /\ Goes(s, "cancel")
    /\ OwnerOnly /\ UNCHANGED entry

-----------------------------------------------------------------------------
(* The end of an owner thread *)

\* The session is cancelled and joined; submissions in the channel are lost.
DropSession(s) ==
    /\ owner[s].pc = "drop"
    /\ session' = [session EXCEPT ![s] = [EndOf(@) EXCEPT !.life = "gone"]]
    /\ caller' = [c \in Callers |-> IF c \in Range(inbox[s]) THEN "refused" ELSE caller[c]]
    /\ inbox' = [inbox EXCEPT ![s] = << >>]
    /\ owner' = [owner EXCEPT ![s] = [NewOwner EXCEPT !.pc = "join"]]
    /\ UNCHANGED <<entry, reports, directory, trouble, admitted>>

\* finish() waits for the report worker.
Joins(s) == owner[s].pc = "join" /\ reports[s] = 0

Done(s) ==
    /\ Joins(s)
    /\ entry' = [entry EXCEPT ![s].done = TRUE]
    /\ Goes(s, "done")
    /\ OwnerOnly

-----------------------------------------------------------------------------
(* The report worker, and the inside of the session *)

\* A job ends with a result, or is interrupted.
RunReport(s) ==
    /\ reports[s] > 0
    /\ reports' = [reports EXCEPT ![s] = @ - 1]
    /\ \E interrupted \in BOOLEAN :
          entry' = [entry EXCEPT ![s] = ReportedEntry(@, interrupted)]
    /\ UNCHANGED <<owner, session, inbox, caller, directory, trouble, admitted>>

SessionOnly == UNCHANGED <<entry, owner, reports, inbox, caller, directory, admitted>>

\* What an orderly stop relies on is refused by a fault only.
Settle(s) ==
    /\ session[s].life = "live"
    /\ \E command \in session[s].open : \E outcome \in OutcomesOf(session[s], command) :
          LET refuses == outcome # "ok"
                            /\ command.kind \in {"replayStop", "recordingStop", "shutdown"}
          IN  /\ refuses => "refusal" \in Faults
              /\ command.kind = "shutdown" => refuses \/ ~entry[s].cancel
              /\ trouble' = [trouble EXCEPT ![s] = @ \/ refuses]
              /\ session' = [session EXCEPT ![s] = SettledWith(@, command, outcome)]
    /\ SessionOnly

\* The end after a shutdown, or one that was cancelled.
SessionEnds(s) ==
    /\ \/ session[s].life = "closing"
       \/ session[s].life = "live" /\ entry[s].cancel
    /\ session' = [session EXCEPT ![s] = EndOf(@)]
    /\ UNCHANGED trouble
    /\ SessionOnly

\* The game ends by itself.
Crash(s) ==
    /\ "crash" \in Faults /\ session[s].life = "live"
    /\ session' = [session EXCEPT ![s] = EndOf(@)]
    /\ trouble' = [trouble EXCEPT ![s] = TRUE]
    /\ SessionOnly

RecordingFails(s) ==
    /\ "disk" \in Faults /\ session[s].life = "live" /\ session[s].recording
    /\ session' = [session EXCEPT ![s].recording = FALSE]
    /\ trouble' = [trouble EXCEPT ![s] = TRUE]
    /\ SessionOnly

\* The game reports one failure at most.
GameReports(s) ==
    /\ "report" \in Faults /\ session[s].life = "live" /\ ~session[s].reported
    /\ session' = [session EXCEPT ![s].events = 1, ![s].reported = TRUE]
    /\ UNCHANGED trouble
    /\ SessionOnly

-----------------------------------------------------------------------------
(* The directory *)

Create(s) ==
    /\ entry[s].life = "absent" /\ ~directory.stopping
    /\ entry' = [entry EXCEPT ![s] = [NewEntry EXCEPT !.life = "Starting"]]
    /\ Goes(s, "prepare")
    /\ UNCHANGED <<session, reports, inbox, caller, directory, trouble, admitted>>

EntriesOnly == UNCHANGED <<owner, session, reports, inbox, caller, trouble, admitted>>

StopSession(s) ==
    /\ Stopped(entry[s]) # entry[s]
    /\ entry' = [entry EXCEPT ![s] = Stopped(@)]
    /\ UNCHANGED directory
    /\ EntriesOnly

\* Inner::stop(): one deadline for all, and what was forced stays forced.
StopAll(force) ==
    /\ directory' = [directory EXCEPT !.stopping = TRUE, !.forced = @ \/ force]
    /\ entry' = [s \in Sessions |-> IF directory'.forced THEN Aborted(Stopped(entry[s]))
                                                         ELSE Stopped(entry[s])]
    /\ EntriesOnly

\* A request or a signal asks, an interrupt after an interrupt forces.
Asked ==
    /\ directory.result = "none"
    /\ \/ StopAll(FALSE)
       \/ directory.stopping /\ StopAll(TRUE)

\* Listening fails: everything is forced, and the server reports that.
ListenerEnds ==
    /\ "listener" \in Faults /\ directory.result = "none"
    /\ StopAll(TRUE)

Created == {s \in Sessions : entry[s].life # "absent"}

\* Mutation of AllDone: a session is done when its lifecycle is over.
AllTerminal == \A s \in Created : IsTerminal(entry[s].life)

AllDone == \A s \in Created : entry[s].done

(***************************************************************************)
(* finished(), every 5 ms: at the deadline what is not done is forced, and *)
(* the server returns when all are done.                                   *)
(***************************************************************************)
Finished(late) ==
    /\ directory.stopping /\ directory.result = "none"
    /\ LET forced == directory.forced \/ late
           clean  == ~forced /\ \A s \in Created : entry[s].life # "Failed"
                                                     /\ ~entry[s].incomplete
       IN  directory' = [directory EXCEPT
                !.forced = forced,
                !.result = IF ~AllDone THEN @ ELSE IF clean THEN "ok" ELSE "incomplete"]
    /\ entry' = IF late THEN [s \in Sessions |-> Aborted(entry[s])] ELSE entry
    /\ directory' # directory
    /\ EntriesOnly

-----------------------------------------------------------------------------
Init ==
    /\ entry = [s \in Sessions |-> NewEntry]
    /\ owner = [s \in Sessions |-> NewOwner]
    /\ session = [s \in Sessions |-> NewSession]
    /\ reports = [s \in Sessions |-> 0]
    /\ inbox = [s \in Sessions |-> << >>]
    /\ caller = [c \in Callers |-> "idle"]
    /\ directory = [stopping |-> FALSE, forced |-> FALSE, result |-> "none"]
    /\ trouble = [s \in Sessions |-> FALSE]
    /\ admitted = [s \in Sessions |-> 0]

Owner(s) ==
    \/ Prepare(s) \/ LaunchFails(s) \/ Launches(s) \/ BecomesReady(s)
    \/ CheckCancel(s) \/ Take(s) \/ EndTake(s) \/ Receive(s)
    \/ TakeEvent(s) \/ EndEvents(s) \/ Returns(s)
    \/ StopReplay(s) \/ StopWarp(s) \/ ShutDown(s) \/ CloseRecording(s) \/ Wait(s)
    \/ DropSession(s) \/ Done(s)

Inside(s) == \/ Settle(s) \/ SessionEnds(s) \/ Crash(s) \/ RecordingFails(s)
             \/ GameReports(s)

Next ==
    \/ \E c \in Callers : Check(c) \/ Send(c)
    \/ \E s \in Sessions : Owner(s) \/ RunReport(s) \/ Inside(s) \/ Create(s) \/ StopSession(s)
    \/ Asked \/ ListenerEnds
    \/ \E late \in BOOLEAN : Finished(late)

(***************************************************************************)
(* Threads run and time passes.  A start, a game and a report provider may *)
(* hang: only a cancelled one is bound to return.                          *)
(***************************************************************************)
Fairness ==
    /\ \A s \in Sessions :
          /\ WF_vars(Owner(s) /\ (owner[s].pc = "launch" => entry[s].cancel))
          /\ WF_vars(entry[s].reportCancel /\ RunReport(s))
    /\ WF_vars(Finished(TRUE))

SafetySpec == Init /\ [][Next]_vars
Spec       == SafetySpec /\ Fairness

-----------------------------------------------------------------------------
(* Properties *)

(***************************************************************************)
(* A stop is orderly: replay, warp, open commands, recording, shutdown, in *)
(* an order in which the session accepts each of them.  A session that was *)
(* stopped after its start and not forced fails only if something went     *)
(* wrong outside or its request ids ran out, and has ended only if the     *)
(* game confirmed the shutdown or had not come up (entry.rs:282-439).      *)
(***************************************************************************)
StateIsTruthful ==
    \A s \in Sessions :
        /\ entry[s].life = "Failed" =>
               trouble[s] \/ entry[s].cancel \/ IsExhausted(session[s])
        /\ entry[s].life = "Ended" => session[s].confirmed \/ session[s].life = "none"

(***************************************************************************)
(* The admission closes with the stop: the first command of an orderly     *)
(* stop follows all that callers had accepted, and none of theirs comes    *)
(* after it, whatever a caller saw when it looked (entry.rs:119, 303-316). *)
(***************************************************************************)
AdmissionCloses ==
    \A s \in Sessions : owner[s].replayStop # 0 => owner[s].replayStop = admitted[s] + 1

(***************************************************************************)
(* A client takes a snapshot at any time and polls from its cursor later:  *)
(* the pending commands of the snapshot and the activity since then give   *)
(* those that are pending now, or the client is told of a gap.  What is    *)
(* kept stays within its bytes (entry.rs:81-119, activity.rs:31-73).       *)
(***************************************************************************)
Applied(known, activity) ==
    CASE activity.what.kind = "pending" -> known \cup {activity.what.id}
      [] activity.what.kind = "settled" -> known \ {activity.what.id}
      [] IsTerminal(activity.what.life) -> {}
      [] OTHER -> known

CursorsAgree ==
    \A s \in Sessions :
        LET store == entry[s].store IN
        /\ Bytes(store.entries) <= Limit
        /\ \A cursor \in 0 .. store.position :
              ~IsGap(store, cursor) =>
                \E snapshot \in Snapshots(store) :
                    /\ snapshot.position = cursor
                    /\ FoldLeft(Applied, snapshot.pending, News(store, cursor))
                         = entry[s].pending

(***************************************************************************)
(* The server returns when nothing of a session is left, neither its game  *)
(* nor a report; it returns Ok only if every session has ended by itself   *)
(* and every report has its result.                                        *)
(***************************************************************************)
ResultIsTruthful ==
    directory.result # "none" =>
        /\ \A s \in Created : session[s].life \in {"none", "gone"} /\ reports[s] = 0
        /\ directory.result = "ok" =>
              \A s \in Created : entry[s].life = "Ended" /\ ~entry[s].incomplete
                                    /\ ~entry[s].forced

(***************************************************************************)
(* A server that was told to stop returns, though starts, games and report *)
(* providers may hang: one deadline cancels them all (mod.rs:177-207).     *)
(***************************************************************************)
StopReturns == directory.stopping ~> directory.result # "none"
=============================================================================
