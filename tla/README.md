# Woodpecker sessions in TLA+

This directory specifies woodpecker. Its core is a *session*, which launches an
instrumented Bevy game, sends it commands over stdin, reads its answers from
stdout and its diagnostics from stderr, records commands to files, replays
recordings, and ends in a way its client can rely on. Inside the game a bridge
plugin executes the commands; around the session a server publishes it to
scripts, to a REPL and to the workers that report failures. All three are
modelled. TLC checks small instances of every module; TLAPS proves what is
stated as a theorem for every value of the constants. Paths below are relative
to the repository root.

## 1. Inventory

| Component | State it keeps | Operations | Talks to |
|---|---|---|---|
| Coordinator (`src/session/coordinator.rs`) | open commands, next id, deferred queue, shutdown, end reason, EOF deadline, exit status | one thread, one loop: process events, exit, queue, operations, plan of a replay, end | everything below |
| Recorder (`src/session/recording.rs`) | transition, buffer of unwritten entries, active path | `control`, `record`, `terminal`, `poll`, `end` | its worker, by two channels |
| Recording worker, file (`recording/worker.rs`, `recording/file.rs`) | the open file | start, append, stop, end | recorder; the disk |
| Replay engine (`src/session/replay.rs`) | the run: phase, plan, pending commands, warp, stops, block | `control`, `poll`, `next`, `submitted`, `terminal`, `submission_failed`, `end` | loader thread |
| Replay loader (`replay/loader.rs`) | a file being parsed | load, cancel | replay engine, by a channel and a flag |
| Process (`src/session/process.rs`) | child, two reader threads, one writer thread | spawn, `terminate` | coordinator, by a channel |
| Session handle (`src/session/mod.rs`) | results, abandoned ids, events, history | `submit`, `receive`, `receive_event`, drop | coordinator: a channel, a mutex with a condition variable, a cancel flag |
| Observation (`observation.rs`), failure observer (`report/observer.rs`, `marker.rs`) | Ready handshake, partial markers, panic seen | `ready`, `bytes`, `finish`, `exit` | coordinator |
| Bridge plugin (`src/session/plugin.rs`) | active warp, tick budget, lines read, responses to be written | one run of the `Control` schedule: take lines, poll screenshots, tick | the coordinator, over the pipes; input, screenshots |
| Input (`session/input.rs`, `input/`) | pointer, keyboard and text devices; window events held back | one operator per command; the flush before a tick | the bridge; the game's systems |
| Screenshot (`session/screenshot.rs`, `screenshot/`) | queue, active capture, images, writer thread | request, start, surface check, readback, deadline, write | the bridge; the render world; the disk |
| Inspect (`session/inspect.rs`) | none | reads the world | the bridge |
| Server entry (`src/server/entry.rs`) | lifecycle, admission, pending commands; its owner thread | start, submit, receive, orderly stop, forced stop, join | one session; callers; reports |
| Activity (`server/activity.rs`) | a log bounded in bytes, its floor | `push`, `since`, snapshot | entry; clients |
| Directory (`server/mod.rs`) | the entries, stopping, one deadline, the result | create, stop all, signals, return | entries |
| Transport (`server/transport.rs`, `protocol.rs`) | none that is shared | one request, one answer | clients; entries |
| Script client (`src/cli/script/`) | commands pending, cursor, interrupt | submit, poll, abort, exit code | server |
| REPL (`src/cli/repl/`) | input queue, connection, cursor | submit, poll, gap, backoff, leave | server; terminal |
| Reports and providers (`src/report/`, `server/reports.rs`) | one worker a session, its job, a temporary file | local file, `gh` search and issue, fallback, cancel | entry; the disk; GitHub |
| Arguments, launch configuration, single-owner handle | none | parsing, paths, bits of an entity id | |

What is hard in this code: the loop runs beside two readers, a writer, a
recording worker, a loader, the game and the client; messages of different
channels arrive in any order; pipes fail separately; connections break after
the server has acted and before its client knows; a log evicts what a reader has
not seen; the GPU answers late or never; two workers write one file name; a process may exit, hang
or close a pipe alone; several parts hold an accepted command at different
times; and each of these may meet a shutdown, an EOF deadline, a full event
queue, exhausted ids or a cancelled session. `PROJECT.json` lists these hazards
line by line, with the properties that cover each.

What makes each part correct:

* coordinator: no accepted command is lost or settled twice; order of
  acceptance is the order on the wire; shutdown is last and truthful; whatever
  happens, the session ends and releases everybody;
* recorder: a file with a footer is the whole section, in order, with outcomes;
  a loss is reported, against the right recording;
* replay: a warp runs alone; outcomes are truthful; a stop is answered once,
  after the run is drained; runs end;
* handle: each result is delivered once, no wake-up is lost, nothing leaks;
* startup: nobody sees a session before Ready *and* the confirmed marker layer;
  a death is one report, a marker or an exit;
* loader: a recording is replayed as what happened, or refused;
* bridge: one answer per request; time advances in explicit ticks only; an image
  answers the request it was taken for;
* input: what was accepted arrives whole, and nothing else does;
* server: an orderly stop is replay, warp, recording, shutdown, in this order; a
  submission never slips in behind the stop; a cursor sees each event once, or a
  gap; the server returns though everything below it hangs;
* clients: what they say of a command is so, and a broken connection makes no
  command run twice or behind its user's back;
* reports: a named file is whole, nothing of somebody else is replaced, a
  cancelled job is told as such.

## 2. Modules

| Module | What it is |
|---|---|
| `SessionBase` | ids, kinds, outcomes; `active` and `wire`, which every part reads |
| `Recorder` | recorder, worker thread, files; `RecorderSpec` is any disciplined caller |
| `Replay` | replay engine and loader thread; `ReplaySpec` likewise |
| `Coordinator` | EXTENDS both; the loop, the process, the client; `SafetySpec`, `Spec`, `GameSpec` |
| `SessionContract` | the abstract contract a client relies on |
| `Loader` | what the replay loader makes of the lines of a file, as a fold |
| `Recordings` | EXTENDS `Recorder` and `Loader`: what was written is what is replayed |
| `Observer` | marker frames on stderr, their reassembly and what people see |
| `Delivery` | `results`, `abandoned`, `Pending`, the two looks of `receive()` |
| `Handle` | EXTENDS both: launch, handshake, loop and owner, from start to end |
| `Input`, `Screenshot` | the devices and the capture service of the bridge |
| `Bridge` | EXTENDS both: the plugin, its peer, its writer thread, time |
| `Activity` | the bounded log: push, floor, news, gap, snapshot |
| `ServedSession` | a session as its owner thread sees it |
| `Server` | EXTENDS both: entry, owner thread, callers, directory, report worker |
| `Remote` | EXTENDS `Activity`: a served session as its clients see it |
| `Script`, `Repl`, `Reports` | EXTEND `Remote`: the two clients and the report workers |
| `Outside` | EXTENDS all three: everything around one served session |
| `RecorderProofs`, `ReplayProofs` | EXTEND `Recorder`, `Replay`: theorems about either, under any disciplined caller |
| `CoordinatorProofs` | EXTENDS `Coordinator` and the two: the discipline, the contract, the whole session |
| `BridgeProofs`, `HandleProofs` | EXTEND `Bridge` (with its devices and the capture service), `Handle` (with observer and delivery) |
| `ActivityProofs` | EXTENDS `Activity`: lemmas about the log, for the next two |
| `ServerProofs`, `OutsideProofs` | EXTEND `Server`, `Outside` |
| `MCRecorder`, `MCReplay`, `MCCoordinator`, `MCHandle`, `MCBridge`, `MCServer`, `MCOutside` | instances for TLC |

Four groups share no variable: the session's inside (`Coordinator` and what it
extends), its outside (`Handle`), the game (`Bridge`), and the server with its
clients (`Server`, `Outside`). At each seam the smaller side is abstract:
`ServedSession` is the session for `Server`, `Remote` is the server for `Outside`.
`Handle` leaves out the recorder and the replay, `Coordinator` leaves out the text on
the pipes.

**Calls are operators, threads are actions.** `Recorder` and `Replay` are passive
objects in the code, called by the coordinator. Each of their methods is an
operator from the object to the object after the call (`Terminal`, `Polled`,
`Submitted`, ...), and the coordinator's actions apply them, in the order the
code does. Stand-alone, the actions named `Call...` apply them under the caller's
discipline (ids grow, answers come once, a transition holds commands back), and
the composed run checks that the coordinator *has* this discipline:
`RecorderSpec` and `ReplaySpec` are properties of `Coordinator`. What the
stand-alone runs and the theorems show therefore holds in the session.

**The loop.** `pc` names the segment the coordinator's thread is in; an action
is one message taken or one command handed on:

| `pc` | Code in `coordinator.rs` | Actions |
|---|---|---|
| `top` | 134-138 | `PollRecorder`, `BeginIteration` |
| `events` | 139-269 | `TakeResponse`, `TakeShutdownResponse`, `TakeNoise`, `TakeClosed`, `TakeReaderFailed`, `TakeWriterFailed`, `EndEvents` |
| `exit` | 270-305 | `AwaitPipes`, `Drained`, `WaitFails`, `StillRunning` |
| `refuse` | 306-315 | `Refuse` |
| `deferred` | 316-336 | `SendDeferred`, `EndDeferred` |
| `input`, `accept` | 337-423 | `TakeOperation`, the `Accept...` actions, `RefuseOperation`, `EndInput` |
| `plan` | 424-447 | `SubmitPlan`, `SubmitExhausted`, `EndPlan` |
| `end`, `drain` | 451-488 | `EndReplayAndRecorder`, `DrainRecorder`, `FinishSession` |

**The contract.** `SessionContract` knows only what a client can observe: how many
commands were accepted, how each was settled, whether shutdown was accepted,
which events wait in the bounded queue with its place reserved for `Ended`, and
whether the session ended. `Coordinator` implements it under the refinement
mapping of `Contract`; the run `ending` checks `KeepsContract`.

**Start and delivery.** In `Handle` the game's threads write frames and text to
stderr, one of them says Ready on stdout, and `pc` is the coordinator's thread:
`metadata`, `optional` and `spawn` are the launch, `loop` and `end` the coordinator. A
notice of the observer is applied in the code's order by the fold `Delivered`.
`receive()` is two actions: it looks at the state, unlocks, and looks again under the
lock before it sleeps.

**The game.** In `Bridge` `pc` is where one run of `Control` is: `intake` takes lines
until the batch or the stdin is used up, `flush` follows a shutdown and waits for
the writer's acknowledgement, `poll` serves the capture service, `ticks`
runs the ticks that the pace and the budget allow, and `idle` is the time between
two runs. The writer thread acknowledges only the response of shutdown, and the main thread
knows of the channel nothing else; that the answers before it are written as well is
the property. A tick flushes every device, as the code does, before the systems of
the game read it.

**The server.** In `Server` each session has an owner with its own `pc`, through the turn
of `entry.rs`: `cancel`, `take` (submissions), `receive` (outcomes), events, `act` (what an
orderly stop asks for next; `close` is a shutdown refused for an active recording, whose
stop is sent in a step of its own), then `drop`, `join` and `done`. A caller looks at the
state (`Check`) and sends later (`Send`). One action is what is done under one lock.

**The clients.** An exchange in `Remote` is one step of the server with three results:
it answers, it breaks before the server acted, or it breaks after. `Script` and
`Repl` see only the answer; the REPL may also be turned away for good, by a binding
that is refused or not understood, or a poll that is refused. A worker of `Reports` goes through the provider call by
call, down to the temporary file and its link, while another program may take a name
in the directory, or free it, at any time.

**Abstractions.**

* `LastId` stands for `u64::MAX`, the id of shutdown: ids run out within reach.
* All commands the loop treats alike are the kind `game`; `warp`, `warpStop`,
  the four control commands and `shutdown` are their own.
* An answer is `ok`, `rejected` or `protocol` (any invalid one), chosen when the
  coordinator takes it from the channel: what a reader thread did before is
  invisible. So is the kind of an operation before it is looked at.
* A batch of 128 process events is any number of them; a batch of 64 commands is
  `Batch`.
* A recording's path is the id of its start; its content is ids with outcomes.
* The loader's thread answers once: with a plan, an error, its cancellation, or by
  dying. What it makes of a file is `Loader`, on lines that are records: a torn
  line is one value, a command is a kind with its ticks and a tag.
* `terminate()` with its `wait()` is one step. Between the look at the child and
  `terminate()` the child may exit by itself: `EndEvents` takes the process as it was seen,
  or as it is by now. A `try_wait()` that fails is a fault of the run `composed` only.
* In `Coordinator` the failure observer is a choice: whether a marker is an event,
  and whether a panic marker has taken the place of the exit failure. `Observer`
  says which; there a frame is one line, and a marker has at most two frames.
* A key, a button or a position is one of a few values; scrolling, coordinates
  and what lies under the pointer are not told apart. An image is the entity it
  was taken for and whether the renderer filled it.
* An entry of the activity has a size: 1, or for an output as much as the store
  holds, or one more.
* A failure's signature is a value; so is what a file holds: nothing, something
  foreign, a part, or the whole.
* History variables (`wire`, `recorder.sections`, `recorder.lost`,
  `replay.run.loaded`, `.submitted`, `replay.told`, `.last`, `exitFailure`)
  record what happened for the properties, as do those marked `history` in the
  other modules. No guard of the coordinator, the recorder or the replay engine
  reads them; the stand-alone callers read `wire`
  and the used ids to choose fresh ones.

## 3. Runs

| Run | Bounds | What it shows |
|---|---|---|
| `recorder` | 5 normal ids, 2 kinds of answer, every failing operation of the disk; 3 operations wait at most; files of up to 4 commands are loaded | `RepliesMatch`: the recorder never meets a reply it has no arm for; `FooterMeansComplete`; `LossIsReported`; `FailureHitsItsRecording`; `RecordingsLoad`: the loader makes of each file what the game did, or refuses it |
| `replay` | 5 normal ids, three plans (two commands; a warp between two; a warp and an explicit stop), 1 external command, failing loader | `ReplayTypeOK`, `WarpRunsAlone`, `EndsTruthfully`, `ControlAnsweredOnce`, `CancelOnlyByStop`, and under fairness `RunsEnd` |
| `composed` | 4 normal ids, every kind (a warp comes from the plan), failing disk, a `try_wait()` that fails | `SectionIsWireInterval`; implements `RecorderSpec` and `ReplaySpec` |
| `ending` | 2 normal ids and shutdown; one plan; exit, EOF, reader, writer, marker and cancel faults; one event fits | `OneHolder`, `CleanShutdown`, `OwnKillIsNoFailure`, `EofStopsWork`; implements the contract, its event queue included |
| `progress` | 1 normal id and shutdown; exit, EOF, writer, stray and cancel faults | `SessionEnds`, `SubmitReturns` |
| `answers` | 4 normal ids out of game commands, starts and stops of recordings and of replays; failing disk; `GameSpec`: the game answers | `AcceptedSettles` |
| `reader` | the one fault that a pipe cannot be read | `SessionEnds` is violated: see section 6 |
| `handle` | launches with and without tracing and its layer, each with every fault; three reports of the game; one command beside a panic; two commands | `StartIsConfirmed`, `DeathIsReportedOnce`, `DiagnosticsAreTheRest`, `PendingsAreServed` |
| `bridge` | 4 requests out of warps, keys, buttons, moves, text, a capture, stop and shutdown; batches of 1; one event of the platform; malformed lines and EOF | `TicksAreWarps`, `InputArrivesWhole`, `ExitIsFlushed` |
| `shots` | 2 requests: a warp or a capture, then one of these, a stop or a shutdown; captures sent again while they are worked on; destinations that cannot be prepared, writes that fail, broken stdout | `AnsweredOnce`, `WriterServesActive`, and under fairness `EveryLineAnswered` |
| `server` | one session with one caller; a warp, a recording, a replay or a shutdown; an activity of 3 bytes; every fault | `StateIsTruthful`, `AdmissionCloses`, `CursorsAgree`, `ResultIsTruthful`, and under fairness `StopReturns` |
| `outside` | scripts of up to three commands with boundaries, three inputs to a REPL of which one can wait, both at once; two workers with two failures and one, local or `gh`; an activity of 2 bytes; faults | `ScriptIsTruthful`, `ReplKeepsItsWord`, `ReportsAreTruthful` |

Why the bounds are enough. The recorder and the replay engine relate at most
three commands at a time (a start, one before and one after it; a warp, its
internal stop, one external command). Four ids reach start, command, stop and a
second start; five let a replay run a warp with its stop out of ids. One event
in the queue is enough to fill it and to need the reserved place. `Batch` = 1
makes every batch end early and forces the loop around between two commands. A
recording of three commands holds a warp, the stop that ended it and a stop that
came too late, which is all the loader has to tell apart. In the bridge a press
needs its position, a release its press and a tick its warp: four requests reach
each, and both keys that mean shift. One capture behind another needs two, and so does
an image that comes when the next capture is active. In `answers` four ids hold a
recording that is started and stopped with a command deferred behind either, or a
replay with its own command beside them. The
log of the server evicts from its fourth entry on, and an output as large as the
log, or larger, empties it at once. Two workers are enough for a race on one
name, two failures of one worker for a job behind a cancelled one.

`RecordingsLoad` quantifies over what the game may have done: the kind of each
recorded command, how many of them reached it, and how long each warp ran. Its
reference, `PlanOf`, computes the plan from that history; `Parse` computes it from
the file, where an answer may be missing or malformed.

One guard of the loop is stronger than it needs to be: that the plan waits for an
empty queue (`deferred.is_empty()`, coordinator.rs:425). While the queue is not
empty and no transition holds it, the same iteration has just sent one of its
commands, whose answer can only be read in the next one; `earlier` holds the plan
already. No run can tell `MaySubmit` with this guard from `MaySubmit` without it,
so no property claims it.

Deadlock is checked in every run but `server`: an ended session rests (`Rest`),
every other state has a step. A served session may stand still for good: a start
or a report provider may hang with no one to stop it, and a server that has
returned takes no step.

## 4. Fairness

`CoordinatorFairness` assumes only that threads run. The loop has no wait but a
sleep of 2 ms, so every segment is left (`WF` of `Leaves`); it looks at each
channel in each iteration, so a message that keeps being there is taken, though
the channel is not looked at *between* iterations (`SF` of `PollRecorder`,
`TakeOperation`, `TakeWriterFailed`, `DeadPipeCloses`). A dead process group has
its pipes closed by the kernel. The deadline passes. The worker and the loader
threads run and file operations return. Nothing is assumed of the game:
`SessionEnds` and `SubmitReturns` hold though it may never answer.
`AcceptedSettles` cannot hold then, and `GameSpec` adds that the game answers what it
was sent (`SF` of `TakeResponse`); it needs of `CoordinatorFairness` only the threads
(`ThreadFairness`), as nothing in its run closes a pipe.

In `Bridge` the main loop, the thread that writes stdout and the one that writes
images run, and time passes, for the pace of a warp and for the deadline of a
readback. Nothing is assumed of the renderer or the GPU: `EveryLineAnswered` holds
though no image ever comes. In `Server` the owner threads run, the deadline passes,
and a start or a report that was *cancelled* returns; one that was not may hang,
and so may the game. The other modules claim safety only.

`MCReplay` assumes of the coordinator what the composed loop does: it polls, it
asks for the next command, and the game answers.

## 5. Proofs

The theorems below hold for every value of the constants the modules' named
assumptions allow: ids up to any bound, any set of answers, plans of any length,
any number of sessions and callers, any finite set of ids at the handle, faults
on or off. Every assumption is evaluated by a run. Each proof module EXTENDS the
module it is about, and each proof has the same order: a type invariant, what
each call changes of the fields an invariant reads, one lemma per named part of
the invariant with one step per action, and the theorem of the specification.
The inductive invariants were checked by TLC on the instances of the runs before
they were proved. The type invariants of `Recorder`, `Coordinator`, `Server`,
`Bridge` and `Handle` live with the proofs that need them.

**The recorder** (`RecorderProofs`)

* `RecorderTypeCorrect`: types, and that the worker writes only into a file that
  exists.
* `NoReplyPanics` (`RepliesMatch`): both `unreachable!()` of `Recorder::reply()` are
  unreachable. The strengthening, `Protocol`, says for each transition of the recorder
  what may be under way to the worker and back: at most one start, one stop or one
  end, the appends before it, and the replies the worker still owes.
* `LateFailureHitsItsRecording` (`FailureHitsItsRecording`) and
  `NoRecordingIsLostSilently` (`LossIsReported`) follow from the same protocol: a
  failure names a path, and the path is the recorder's, or a past one that is
  already lost.
* `FooterIsAPromise` (`FooterMeansComplete`): the entries of a file, of the appends
  under way and of the buffer, one behind the other, are exactly what was sent. The
  invariant says so by offsets: each append starts where the one before ends.

**The replay engine** (`ReplayProofs`)

* `ReplayTypeCorrect`. The type invariant is not inductive alone: `finish()` answers
  the start of the run, and an idle engine must own nothing. `Well` adds both.
* `OnlyStopCancels` (`CancelOnlyByStop`): the `unreachable!()` of `poll()` is
  unreachable. `LoaderInv`: a *preparing* run whose loader has its flag raised was
  stopped; the end of a session raises the flag too, but leaves no run.
* `WarpIsABarrier` (`WarpRunsAlone`). `Owned` says which commands a run may own: halts
  are pending, pending commands are open, a warp is open with nothing but its
  halt, there is at most one halt and none before the internal stop, and a run
  that submitted nothing owns nothing. The last part keeps external commands
  from arriving beside a warp.
* `ControlsAreAnsweredOnce` (`ControlAnsweredOnce`): the controls that were answered and
  those that are still owed, put in one line, name no id twice (`OnceInv`).
* `OutcomesAreTrue` (`EndsTruthfully`): what was submitted is a prefix of the plan,
  in its order, and a cause that blames the game names an answer it gave
  (`Faithful`, `Honest`).

**The coordinator** (`CoordinatorProofs`)

* `OwnKillIsNotReported`, `EofEndsTheWork`: from `Alive`, what a dead process, a closed
  pipe and a reason to end imply for each other. A child that exits by itself after the
  decision to end it (`condemned`) counts as killed by us.
* `CoordinatorDrivesRecorder`, `CoordinatorDrivesReplay`: the coordinator implements
  `RecorderSpec` and `ReplaySpec`, which makes the theorems above theorems about
  sessions. `LinkedInv` is what the calls need of their caller: the recorder's and
  the replay's own invariants (`Parts`) and `Links` between them and the loop: what
  waits in `deferred` was accepted in order and is younger than all that is on the wire
  (`Ordered`), the recorder and the replay keep ids of accepted commands of their own
  kinds only (`RecorderKnows`, `ReplayKnows`), and a session that shuts down does
  nothing else (`StopsAlone`).
* `SectionsAreIntervals` (`SectionIsWireInterval`): a section that ended is a piece of the
  wire, the one that is open is the last piece of it (`Sectioned`), and an id that is yet
  to be sent is younger than every start and stop the recorder has seen (`Ahead`).
* `CommandsAreKept` (`OneHolder`): an accepted command is open exactly while one part
  of the session keeps it. `Balance` counts the keepers; each action moves a
  command from one to the next.
* `ShutdownsAreClean` (`CleanShutdown`): `EndInv` follows the shutdown from its
  acceptance to the status of the exit.
* `SessionKeepsContract` (`KeepsContract`): the refinement of `SessionContract`, initial
  state and every step; one lemma per action says which step of the contract it is,
  or that it is a stutter.

**The game** (`BridgeProofs`)

* `TimeAdvancesInWarps` (`TicksAreWarps`): from `WarpInv`, which adds to it what ticks,
  responses and the writer are.
* `ExitsAreFlushed` (`ExitIsFlushed`): the main thread sees one acknowledgement.
  `AckedIsLast` says that a response that will be acknowledged is the last one in the
  channel and that the main thread waits for it, so nothing comes behind; once it is
  acknowledged, the channel is empty. With the balance of `AnsweredOnce` each request
  sent is then answered, unread, or the open warp or capture.
* `WritersServeActives` (`WriterServesActive`): `ShotInv` says that one capture is
  active, that its verdict matches what is in flight, and that there is one writer
  or one result for it.
* `LinesAreAnsweredOnce` (`AnsweredOnce`): the counts of lines sent, waiting, worked on
  and answered balance.
* `InputsArriveWhole` (`InputArrivesWhole`): the fold of the events held back, applied
  to what the game knows, gives what the client pressed.

**The server** (`ServerProofs`)

* `AdmissionIsClosed` (`AdmissionCloses`), `StatesAreTrue` (`StateIsTruthful`),
  `ResultsAreTrue` (`ResultIsTruthful`): for any number of sessions and callers, where
  the run has one of each. `Admission` and `Tokens` say what is on its way to an owner,
  `Orderly` where an orderly stop stands (between a refused shutdown and the stop of the
  recording, which is still active or has failed and then excuses the result), `Placed`,
  `Truthful` and `Concluded` what the state, the reports and the owner's thread imply for
  each other.
* `CursorsKeepUp` (`CursorsAgree`), for any limit of the log. `Chain` says of the kept
  entries that each makes of what was pending at the entry before it what a snapshot
  at it says, the first of what was pending at the floor, and the last of what is pending
  now; the fold of the property is then unfolded entry by entry. `ActivityProofs` has the
  lemmas about the log: a push keeps positions consecutive and the bytes below the
  limit, and what it evicts goes below the floor.

**The outside** (`OutsideProofs`), for any number of workers and jobs, any length of a
script and of the inputs. All three rest on `RemoteInv`: what the session has accepted and
how it was settled agrees with what is open, and an entry of its activity about an
outcome or the end tells what is so.

* `ScriptsTellTheTruth` (`ScriptIsTruthful`): by `ScriptInv` each command of a script that was
  sent is either pending, with the id the session gave it, or reported, once, and what the
  session still has open of the script is among the pending; that is why a boundary
  runs alone. A script that passed has an outcome `completed` for each of its commands.
* `ReplsKeepTheirWord` (`ReplKeepsItsWord`): `ReplInv` says that each input is waiting or
  said, once (`SaidOnce`); that what the session accepted was said to be
  pending or unknown, and nothing else is said to be pending (`SaidTruly`); and that
  what is printed ends at the cursor (`PrintedUpTo`).
* `ReportsTellTheTruth` (`ReportsAreTruthful`): `ReportInv` relates the step a worker is at to
  its temporary file, to the file it links (`Placed`) and to what all have
  published; a report counts as created from the link on, before its result is there
  (`CreatedOnce`), and what another program put under a name is never replaced.

**Start and delivery** (`HandleProofs`)

* `OutcomesAreServed` (`PendingsAreServed`): `DeliveryInv` relates kept results, abandoned
  ids, the Pendings and the two looks of `receive()`.
* `StartsAreConfirmed` (`StartIsConfirmed`): `StartInv`, on top of what the layer has
  written of its marker and the observer has read of it.
* `DeathsAreReportedOnce` (`DeathIsReportedOnce`): `LinesInv` and `EmitInv` say that the
  frames of a marker are written once and share their payload; `ObserverInv` that the
  observer holds exactly the whole frames it has read alone, and that it has seen a
  panic exactly if the panic's marker came through. The folds over the notices are
  unfolded notice by notice, with the least element of a finite set.
* `DiagnosticsAreKept` (`DiagnosticsAreTheRest`): `RestInv` says that what was shown and
  what is held back are, one behind the other (`ShowsAll`), what was read without the
  frames of the markers that are valid by now; that a piece waits exactly while its
  frame is held (`Holds`); and that a cut off frame is the last line of a game that
  ended (`TornInv`). It rests on lemmas about `Without`, the fold that takes elements out
  of a sequence: what it keeps, over a concatenation, twice, and over the lines of pieces.

**Model-checked only**

* All liveness: `SessionEnds`, `SubmitReturns`, `AcceptedSettles`, `RunsEnd`,
  `EveryLineAnswered`, `StopReturns`. TLAPS has no rule for fairness that fits.
* `RecordingsLoad`: what the loader computes from a file of any length, compared with
  what is computed from the history. The two are folds of different shape; this needs
  induction with an operator as parameter, which no prover here instantiates.

Other folds are within reach, as their definition by recursion over the length is a
fact that can be cited: a lemma gives the value for the empty sequence and the step of
an `Append`, and a least element of a finite set takes the place of induction.

## 6. Finding

A reader thread whose read fails sends `Event::Failed` and returns *without*
`Event::Closed` (`src/session/process.rs:56-59`, `79-82`). The coordinator notes
`TransportFailed`, kills the child, and then loops on `closed < 2`
(`src/session/coordinator.rs:277`) with nobody left to close the pipe. A line of
the game's stdout that is not UTF-8 is enough. `docs/api/target.md:341` says that
concrete I/O errors do not even wait for the EOF deadline, and `:346` that an
unexpected end delivers `Ended`. The run `reader` shows the loop: `AwaitPipes`
and `BeginIteration` for ever.

### Narrower disagreements

Met while modelling; no run claims them.

* `stop()` during `Starting` sets the cancel flag (`src/server/entry.rs:125-127`). If the
  start has returned `Ok` just before, `run()` meets the flag afterwards and the
  session becomes `Failed` with `shutdown_incomplete`, while `docs/api/target.md:143-144`
  has a start that was ended on purpose end regularly after a clean stop.
  `StateIsTruthful` therefore allows `Failed` when the flag is set.
* `src/cli/repl/network.rs:147` says that commands entered while disconnected must not
  execute later. The drain there covers what was entered before the attempt to
  connect; what is entered during it, or is in the queue when the snapshot after
  a gap breaks (`network.rs:245-249`, no drain), runs after the connection is back.
  `ReplKeepsItsWord` claims what holds: what was *told* as not sent never runs.
* A panic marker before Ready stays a diagnosis of the start and still
  suppresses the failure for the exit (`docs/api/target.md:723-727` says so).

## 7. Not modelled

* A panic of the server's owner thread, with the `Completion` guard and
  `Reports::drop`: the model has no unwinding.
* The waiting of a poll (`Notify`), HTTP and WebSocket framing, versions and the
  origin check, and a reused id: `Remote` answers at once. A reply that is not understood
  is not told apart from a broken connection, but for the REPL's binding, which ends it.
* More than one session or caller in the run `server`: the module has them as
  constants; entries share nothing but the directory's deadline and the state
  space squares.
* A reader thread that fails, outside of `Coordinator`: the loop it causes is
  section 6, and would hide what the others show.
* Inspect (reads the world, keeps nothing), pixel formats, coordinates, scrolling
  units and the picking of UI nodes.
* The history ring of a session, `capabilities()`, the REPL's queue of printed
  lines, the thread that copies the game's stderr.
* Duplicate keys in a JSON object of a recording, and the path checks of `file.rs`: a
  start may be refused for its path whatever the path is.
* The mutex of an entry's admission: a look or a send under it is one action, and the
  hold itself is not visible.
* Argument parsing and printing, launch resolution, random ids and the lookup by
  prefix, the single-owner handle, the normalisation and the Markdown of reports:
  pure functions without state.
* A write to a full pipe that blocks: the writer thread keeps it away from the
  loop, which is visible in the code and not in the model.

## 8. Plan

Every safety property of the runs but one is a theorem. What is left, in the order of
what it would show:

1. `RecordingsLoad`: an invariant between the loader's state and the plan after each line,
   for the recordings of the first part of the history only.
2. The run `server` with two sessions, and a poll that waits (`Notify`), which the model
   answers at once.
3. The composition of `Server` with `Coordinator` in place of `ServedSession`: the two agree
   on what a session promises (`SessionContract`), and no run puts them together.
