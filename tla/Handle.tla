------------------------------- MODULE Handle -------------------------------
(***************************************************************************)
(* A session from Session::start() to its end, as its owner sees it: the   *)
(* launch (session/launch.rs, process.rs), the handshake over two pipes    *)
(* (observation.rs), what the game reports on stderr (report/observer.rs,  *)
(* marker.rs, capture.rs), and the outcomes and events of the commands     *)
(* (mod.rs).  What the coordinator does between acceptance and completion  *)
(* of a command is the business of Coordinator.tla.                        *)
(***************************************************************************)
EXTENDS Observer, Delivery

(***************************************************************************)
(* What may happen, chosen at the start.  tracing: is the layer asked for? *)
(* layer: did the game install it?  reports: payloads a thread of the game *)
(* may report.  commands: how many are accepted.  faults, of: launch, a    *)
(* tool or the spawn fails; cancel, the start is cancelled; ready, the     *)
(* game says something else than one Ready of this version; damage, lines  *)
(* of stderr are spoilt; crash, the game ends by itself; eof, it closes    *)
(* its pipes and stays.                                                    *)
(***************************************************************************)
CONSTANT Settings

ASSUME SettingsAssumption ==
    Settings \subseteq
        [tracing : BOOLEAN, layer : BOOLEAN,
         reports : SUBSET {"panic", "tracing", "processExit"}, commands : Ids \cup {0},
         faults : SUBSET {"launch", "cancel", "ready", "damage", "crash", "eof"}]

VARIABLES
    setting,    \* one of Settings
    game,       \* none, running, exited, killed
    stdout,     \* lines the game wrote to stdout and the coordinator did not read
    stderr,     \* all lines it wrote to stderr
    read,       \* how many of them the observer got
    emitting,   \* frames each thread of the game has still to write
    observer,
    observation,\* wireReady, layer, initialized
    pc,         \* of the coordinator: metadata, optional, spawn, loop, end, done
    closed,     \* pipes it knows to be closed
    reason, stopping, cleanup, cancel,
    ready,      \* what was sent over the channel of the start
    start,      \* its result, or "waiting"
    said,       \* history: what the game wrote to stdout
    told        \* history: what was pushed as an event, kept or lost

gameVars == <<setting, game, stdout, stderr, emitting>>
loopVars == <<read, observer, observation, pc, closed, reason, stopping, cleanup>>
startVars == <<cancel, ready, start>>
vars == <<gameVars, loopVars, startVars, deliveryVars, said, told>>

Threads == {"main", "other"}
Layer   == 1    \* the event ids of the two markers
Report  == 2

Init ==
    /\ DeliveryInit
    /\ setting \in Settings
    /\ game = "none" /\ stdout = << >> /\ stderr = << >>
    /\ emitting = [thread \in Threads |-> << >>]
    /\ read = 0 /\ observer = NewObserver
    /\ observation = [wireReady |-> FALSE, layer |-> "unknown", initialized |-> FALSE]
    /\ pc = "metadata" /\ closed = {} /\ reason = "none"
    /\ stopping = FALSE /\ cleanup = FALSE
    /\ cancel = FALSE /\ ready = << >> /\ start = "waiting"
    /\ said = << >> /\ told = << >>

-----------------------------------------------------------------------------
(* The game: layer_status() and Ready by its main thread, and one report *)

GameOnly == UNCHANGED <<loopVars, startVars, deliveryVars, told>>
Runs == game = "running"

\* A frame is written at once; what it meets in the pipe may spoil it.
Spoilt(frame) ==
    IF "damage" \in setting.faults
    THEN {BadFrame, [frame EXCEPT !.data = "undecodable"], [frame EXCEPT !.data = "altered"]}
    ELSE {}

IsWhole(line) == line.kind = "frame" /\ line.data = "good"
WasSpoilt == \E i \in DOMAIN stderr : stderr[i].kind # "text" /\ ~IsWhole(stderr[i])

\* emit()
WriteFrame(thread) ==
    /\ Runs /\ emitting[thread] # << >> /\ "stderr" \notin closed
    /\ LET frame == Head(emitting[thread]) IN
       \E line \in {frame} \cup (IF WasSpoilt THEN {} ELSE Spoilt(frame)) :
          stderr' = Append(stderr, line)
    /\ emitting' = [emitting EXCEPT ![thread] = Tail(@)]
    /\ UNCHANGED <<setting, game, stdout, said>> /\ GameOnly

\* Ready follows the marker of the layer.
SayReady ==
    /\ Runs /\ emitting["main"] = << >> /\ said = << >> /\ "stdout" \notin closed
    /\ \E lines \in {<<"ready">>} \cup (IF "ready" \in setting.faults
                          THEN {<<"oldReady">>, <<"text">>, <<"ready", "ready">>} ELSE {}) :
          stdout' = lines /\ said' = lines
    /\ UNCHANGED <<setting, game, stderr, emitting>> /\ GameOnly

HasReported == \E i \in DOMAIN stderr : stderr[i].kind = "frame" /\ stderr[i].event = Report

\* The panic hook, or the tracing layer.
Raise(payload) ==
    /\ Runs /\ ~HasReported /\ emitting["other"] = << >>
    /\ payload = "tracing" => setting.tracing /\ setting.layer
    /\ emitting' = [emitting EXCEPT !["other"] = Encode(Report, payload, 2)]
    /\ UNCHANGED <<setting, game, stdout, stderr, said>> /\ GameOnly

\* One line of other output.
WriteText ==
    /\ Runs /\ "stderr" \notin closed /\ \A i \in DOMAIN stderr : stderr[i].kind # "text"
    /\ stderr' = Append(stderr, Text)
    /\ UNCHANGED <<setting, game, stdout, emitting, said>> /\ GameOnly

\* It exits by itself, in the middle of a marker or not, or after a shutdown.
Exit ==
    /\ Runs /\ ("crash" \in setting.faults \/ stopping)
    /\ game' = "exited"
    /\ stderr' \in {stderr} \cup (IF "damage" \in setting.faults /\ ~WasSpoilt /\ "stderr" \notin closed
                                  THEN {Append(stderr, Torn)} ELSE {})
    /\ UNCHANGED <<setting, stdout, emitting, said>> /\ GameOnly

GameStep ==
    \/ \E thread \in Threads : WriteFrame(thread)
    \/ SayReady \/ WriteText \/ Exit
    \/ \E payload \in setting.reports : Raise(payload)

-----------------------------------------------------------------------------
(* The launch *)

LaunchOnly == UNCHANGED <<gameVars, read, observer, observation, closed, reason, stopping,
                          cleanup, said, told>>

(***************************************************************************)
(* The coordinator returns without an end of its own: the process is       *)
(* dropped, and EndOnDrop wakes the receivers.                             *)
(***************************************************************************)
GivesUp(error) ==
    /\ ready' = Append(ready, error)
    /\ pc' = "done"
    /\ ended' = TRUE /\ caller' = Notified
    /\ UNCHANGED <<accepted, open, results, abandoned, events, pending>>

LaunchFails ==
    /\ pc \in {"metadata", "optional", "spawn"}
    /\ \/ cancel /\ GivesUp("ended")
       \/ "launch" \in setting.faults /\ pc # "optional" /\ GivesUp("launch")
    /\ UNCHANGED <<cancel, start>> /\ LaunchOnly

\* cargo metadata, polled until it exited and both its pipes are closed.
ResolveMetadata ==
    /\ pc = "metadata" /\ pc' = "optional"
    /\ UNCHANGED <<startVars, deliveryVars>> /\ LaunchOnly

\* git and the versions of the tools: missing, hanging or failing is no failure.
ResolveOptional ==
    /\ pc = "optional" /\ pc' = "spawn"
    /\ UNCHANGED <<startVars, deliveryVars>> /\ LaunchOnly

Spawn ==
    /\ pc = "spawn" /\ ~cancel
    /\ pc' = "loop" /\ game' = "running"
    /\ emitting' = [emitting EXCEPT !["main"] =
            Encode(Layer, IF setting.layer THEN "layerOn" ELSE "layerOff", 2)]
    /\ UNCHANGED <<setting, stdout, stderr, read, observer, observation, closed, reason,
                   stopping, cleanup, startVars, deliveryVars, said, told>>

-----------------------------------------------------------------------------
(* What an observation does: the step of the coordinator so far is a record *)

Now == [observation |-> observation, ready |-> ready, events |-> events, reason |-> reason,
        told |-> told, failed |-> FALSE]

\* push_event()
Told(now, notice) ==
    [now EXCEPT !.told = Append(@, notice.kind),
                !.events = IF Len(@) < EventCap THEN Append(@, notice.kind) ELSE @,
                !.reason = IF Len(now.events) >= EventCap /\ @ = "none" THEN "overflow" ELSE @]

\* Mutation of IsConfirmed: Ready alone starts a session.
IsConfirmedByReady(o) == o.wireReady

IsConfirmed(o) == o.wireReady /\ (setting.tracing => o.layer = "layerOn")

\* confirm(): the first time everything is there, the start has succeeded.
Confirmed(now) ==
    LET o == now.observation IN
    CASE o.initialized -> now
      [] ~o.initialized /\ setting.tracing /\ o.layer = "layerOff" ->
            [now EXCEPT !.failed = TRUE, !.ready = Append(@, "launch")]
      [] OTHER ->
            IF IsConfirmed(o)
            THEN [now EXCEPT !.observation.initialized = TRUE, !.ready = Append(@, "ok")]
            ELSE now

\* deliver(): before Ready, failures are diagnostics of the start.
Noticed(now, notice) ==
    CASE now.failed -> now
      [] ~now.failed /\ notice.kind \in {"layerOn", "layerOff"} ->
            Confirmed([now EXCEPT !.observation.layer = notice.kind])
      [] OTHER -> IF now.observation.initialized THEN Told(now, notice) ELSE now

Delivered(notices) == FoldLeft(Noticed, Now, notices)

\* The process is dropped: its group is killed.
Killed == IF Runs THEN "killed" ELSE game

\* The loop goes on with what the observation did, or it gave up.
Becomes(now) ==
    /\ observation' = now.observation /\ ready' = now.ready
    /\ events' = now.events /\ reason' = now.reason /\ told' = now.told
    /\ pc' = IF now.failed THEN "done" ELSE pc
    /\ ended' = now.failed
    /\ game' = IF now.failed THEN Killed ELSE game
    /\ caller' = IF now.failed \/ now.events # events THEN Notified ELSE caller
    /\ UNCHANGED <<accepted, open, results, abandoned, pending, setting, emitting, stopping,
                   cleanup, cancel, start, said>>

-----------------------------------------------------------------------------
(* The loop of the coordinator, one event of the process in each step *)

Loops == pc = "loop" /\ ~cancel

\* What a line is before Ready, and after it.
LineRead(line) ==
    CASE observation.initialized -> Told(Now, [kind |-> "protocol"])
      [] ~observation.initialized /\ line = "ready" /\ ~observation.wireReady ->
            Confirmed([Now EXCEPT !.observation.wireReady = TRUE])
      [] OTHER -> [Now EXCEPT !.failed = TRUE,
                              !.ready = Append(@, IF line = "oldReady" THEN "unsupported"
                                                  ELSE "invalidReady")]

TakeLine ==
    /\ Loops /\ stdout # << >>
    /\ stdout' = Tail(stdout)
    /\ Becomes(LineRead(Head(stdout)))
    /\ UNCHANGED <<stderr, read, observer, closed>>

TakeDiagnostic ==
    /\ Loops /\ read < Len(stderr)
    /\ LET result == Push(observer, stderr[read + 1], setting.tracing) IN
       /\ observer' = result.observer
       /\ Becomes(Delivered(result.notices))
    /\ read' = read + 1
    /\ UNCHANGED <<stdout, stderr, closed>>

Closes(pipe) ==
    /\ Loops /\ pipe \notin closed /\ (~Runs \/ "eof" \in setting.faults)
    /\ closed' = closed \cup {pipe}

TakeClosedStdout ==
    /\ Closes("stdout") /\ stdout = << >>
    /\ Becomes(Now)
    /\ UNCHANGED <<stdout, stderr, read, observer>>

TakeClosedStderr ==
    /\ Closes("stderr") /\ read = Len(stderr)
    /\ LET result == Finish(observer) IN
       /\ observer' = result.observer
       /\ Becomes(Delivered(result.notices))
    /\ UNCHANGED <<stdout, stderr, read>>

\* The deadline after the first EOF.
DeadlinePasses ==
    /\ Loops /\ Runs /\ closed # {} /\ reason = "none"
    /\ reason' = "closed" /\ cleanup' = TRUE
    /\ UNCHANGED <<gameVars, read, observer, observation, pc, closed, stopping, startVars,
                   deliveryVars, said, told>>

\* Whatever ended the session, the game is killed unless it ended before.
Terminate ==
    /\ Loops /\ Runs /\ reason # "none"
    /\ game' = "killed" /\ cleanup' = TRUE
    /\ UNCHANGED <<setting, stdout, stderr, emitting, read, observer, observation, pc, closed,
                   reason, stopping, startVars, deliveryVars, said, told>>

\* The game is dead, and its pipes are drained.
Exited ==
    /\ Loops /\ game \in {"exited", "killed"} /\ closed = {"stdout", "stderr"}
    /\ LET notices == IF observation.initialized
                      THEN ProcessExit(observer, stopping \/ cleanup) ELSE << >>
           now     == FoldLeft(Told, Now, notices)
       IN  \E clean \in {FALSE, stopping} :
              /\ events' = now.events /\ told' = now.told
              /\ reason' = IF clean \/ now.reason # "none" THEN now.reason ELSE "exit"
    /\ pc' = "end" /\ caller' = Notified
    /\ UNCHANGED <<gameVars, read, observer, observation, closed, stopping, cleanup, startVars,
                   accepted, open, results, abandoned, ended, pending, said>>

Cancelled ==
    /\ pc = "loop" /\ cancel
    /\ pc' = "end"
    /\ UNCHANGED <<gameVars, read, observer, observation, closed, reason, stopping, cleanup,
                   startVars, deliveryVars, said, told>>

\* The last notices, the verdict on a start that came to none, and Ended.
EndSession ==
    /\ pc = "end"
    /\ LET result  == Finish(observer)
           now     == Delivered(result.notices)
           closing == IF cancel THEN "ended" ELSE "launch"
       IN  /\ observer' = result.observer /\ told' = now.told /\ reason' = now.reason
           /\ observation' = now.observation
           /\ ready' = IF now.observation.initialized THEN now.ready
                       ELSE Append(now.ready, closing)
           /\ events' = IF now.reason = "none" THEN now.events
                        ELSE Append(now.events, "ended")
    /\ pc' = "done" /\ game' = Killed /\ ended' = TRUE /\ caller' = Notified
    /\ UNCHANGED <<setting, stdout, stderr, emitting, read, closed, stopping, cleanup, cancel,
                   start, accepted, open, results, abandoned, pending, said>>

LoopStep ==
    \/ LaunchFails \/ ResolveMetadata \/ ResolveOptional \/ Spawn
    \/ TakeLine \/ TakeDiagnostic \/ TakeClosedStdout \/ TakeClosedStderr
    \/ DeadlinePasses \/ Terminate \/ Exited \/ Cancelled \/ EndSession

-----------------------------------------------------------------------------
(* The commands of the owner, and its start *)

CommandOnly == UNCHANGED <<gameVars, read, observer, observation, pc, closed, reason, cleanup,
                           startVars, said, told>>

MayAccept ==
    Loops /\ observation.initialized /\ closed = {} /\ reason = "none" /\ ~stopping

AcceptCommand(internal) ==
    /\ MayAccept /\ accepted < setting.commands
    /\ Accept(internal) /\ CommandOnly /\ UNCHANGED stopping

RefuseCommand ==
    /\ ~MayAccept \/ accepted = setting.commands
    /\ Refused /\ CommandOnly /\ UNCHANGED stopping

CompleteCommand(id) ==
    /\ pc \in {"loop", "end"} /\ Complete(id)
    /\ CommandOnly /\ UNCHANGED stopping

\* shutdown() is accepted when nothing is open.
AcceptShutdown ==
    /\ MayAccept /\ caller.pc = "submitting" /\ open = {}
    /\ stopping' = TRUE
    /\ caller' = At("idle", AnEvent)
    /\ UNCHANGED <<accepted, open, results, abandoned, events, ended, pending>> /\ CommandOnly

Owns == start = "ok" /\ caller.pc # "gone"

OwnerStep == Owns /\ DeliveryStep /\ CommandOnly /\ UNCHANGED stopping

StartOnly == UNCHANGED <<gameVars, loopVars, ready, said, told>>

\* start_cancellable(): what came first over the channel; a failure cancels and joins.
Starts ==
    /\ start = "waiting" /\ ready # << >>
    /\ start' = Head(ready)
    /\ cancel' = (cancel \/ Head(ready) # "ok")
    /\ UNCHANGED deliveryVars /\ StartOnly

CancelStart ==
    /\ "cancel" \in setting.faults /\ start = "waiting" /\ ~cancel
    /\ cancel' = TRUE
    /\ UNCHANGED <<start, deliveryVars>> /\ StartOnly

\* Drop for Session: the coordinator is cancelled and joined.
DropSession ==
    /\ Owns /\ caller.pc = "idle"
    /\ cancel' = TRUE /\ caller' = At("gone", AnEvent)
    /\ UNCHANGED <<start, accepted, open, results, abandoned, events, ended, pending>>
    /\ StartOnly

Rest == pc = "done" /\ start # "waiting" /\ (start = "ok" => caller.pc = "gone")
        /\ UNCHANGED vars

Next ==
    \/ GameStep \/ LoopStep
    \/ \E internal \in BOOLEAN : AcceptCommand(internal)
    \/ \E id \in Ids : CompleteCommand(id)
    \/ RefuseCommand \/ AcceptShutdown \/ OwnerStep
    \/ Starts \/ CancelStart \/ DropSession
    \/ Rest

Spec == Init /\ [][Next]_vars

-----------------------------------------------------------------------------
(* Properties *)

\* Every frame of a marker is among the first n lines of stderr, unspoilt.
Whole(event, payload, n) == Range(Encode(event, payload, 2)) \subseteq Range(SubSeq(stderr, 1, n))

(***************************************************************************)
(* A start has one verdict, and it is true: Ok after a Ready and, when     *)
(* tracing is observed, the whole marker of an installed layer, in either  *)
(* order on their two pipes; Ended only when the start was cancelled; and  *)
(* with no session, no game is left (observation.rs:63-93,                 *)
(* coordinator.rs:451-466, mod.rs:175-201).                                *)
(***************************************************************************)
StartIsConfirmed ==
    /\ Len(ready) <= 1
    /\ ready = <<"ok">> => /\ said # << >> /\ Head(said) = "ready"
                          /\ (setting.tracing => Whole(Layer, "layerOn", read))
    /\ ready = <<"ended">> => cancel
    /\ ready # << >> /\ ready # <<"ok">> => ~Runs

Count(kind) == Cardinality({i \in DOMAIN told : told[i] = kind})

(***************************************************************************)
(* A game that died by itself after its start is no silent end and no two  *)
(* failures: its exit is one exactly if the marker of no panic came        *)
(* through as a whole, before the Ready or after it, and a damaged or cut  *)
(* off marker is no panic (observer.rs:113-206, observation.rs:105-142).   *)
(***************************************************************************)
DeathIsReportedOnce ==
    /\ Count("panic") + Count("processExit") <= 1
    /\ Count("panic") = 1 => Whole(Report, "panic", read)
    /\ pc = "done" /\ observation.initialized /\ reason = "exit" /\ ~stopping =>
          (Count("processExit") = 0 <=> Whole(Report, "panic", read))

\* The frames, of what was read, that tell something.
Markers ==
    {line \in Range(SubSeq(stderr, 1, read)) :
        /\ line.kind = "frame" /\ line.payload # "processExit"
        /\ Whole(line.event, line.payload, read)}

(***************************************************************************)
(* Only the frames of valid markers leave stderr: at the end, what was     *)
(* released for people is all the rest, in its order, nothing twice        *)
(* (observer.rs:50-111, 208-226).                                          *)
(***************************************************************************)
DiagnosticsAreTheRest ==
    pc = "done" /\ closed = {"stdout", "stderr"} =>
        observer.human = Without(SubSeq(stderr, 1, read), Markers)
=============================================================================
