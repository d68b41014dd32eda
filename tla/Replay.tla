------------------------------- MODULE Replay -------------------------------
(***************************************************************************)
(* The replay engine of a session (session/replay.rs) and the loader       *)
(* thread it starts for each run (session/replay/loader.rs, external here: *)
(* it answers once, with a plan, an error, its cancellation, or by dying). *)
(*                                                                         *)
(* A run owns the commands it had submitted until they are terminal.  A    *)
(* warp is a barrier: it is submitted alone and nothing but the internal   *)
(* warp stop follows while it runs.  As in Recorder.tla, the calls are     *)
(* operators on a replay record, and ReplaySpec is any caller that keeps   *)
(* the coordinator's discipline.                                           *)
(***************************************************************************)
EXTENDS SessionBase, SequencesExt

CONSTANTS
    Plans,          \* the plans recordings may load as
    LoaderFaults    \* may loading fail?

ASSUME PlansAssumption        == Plans \subseteq Seq(GameKinds)
ASSUME LoaderFaultsAssumption == LoaderFaults \in BOOLEAN

VARIABLES
    replay,     \* the Replay: its run, its notices and what it told
    loader      \* the loader thread of the current run and its cancel flag

replayVars == <<replay, loader>>

-----------------------------------------------------------------------------
(* State *)

(***************************************************************************)
(* pending holds the keys of Run.pending, halts those whose value is true: *)
(* the warp stop submitted to stop the run.  loaded and submitted are      *)
(* history: the plan as it was loaded, and each command of the run with    *)
(* its outcome ("halt" is the internal warp stop).                         *)
(***************************************************************************)
NoRun == [phase |-> "idle", start |-> 0, plan |-> << >>, stopping |-> FALSE,
          stops |-> << >>, pending |-> {}, halts |-> {}, warp |-> 0,
          stopSent |-> FALSE, blocked |-> "none",
          loaded |-> << >>, submitted |-> << >>]

\* told is history: every notice handed to the coordinator.
\* last is history: the run that finished last and its outcome.
NewReplay == [run |-> NoRun, notices |-> << >>, told |-> << >>,
              last |-> [run |-> NoRun, outcome |-> "none"]]

NoLoader == [at |-> "none", plan |-> << >>, cancel |-> FALSE]

IsBusy(p)      == p.run.phase # "idle"
IsHalting(run) == run.stopping \/ run.blocked # "none"
Notice(id, outcome) == [id |-> id, outcome |-> outcome]

-----------------------------------------------------------------------------
(* Calls of the coordinator *)

ControlStart(p, id) ==
    IF IsBusy(p)
    THEN [p EXCEPT !.notices = Append(@, Notice(id, "failed"))]
    ELSE [p EXCEPT !.run = [NoRun EXCEPT !.phase = "waiting", !.start = id]]

\* Mutations of ControlStop: the run is not told; the stop is answered already.
StopWithoutFlag(p, id) ==
    IF IsBusy(p)
    THEN [p EXCEPT !.run.stops = Append(@, id)]
    ELSE [p EXCEPT !.notices = Append(@, Notice(id, "not_running"))]

StopAnsweredAtOnce(p, id) ==
    IF IsBusy(p)
    THEN [p EXCEPT !.run.stopping = TRUE, !.run.stops = Append(@, id),
                   !.notices = Append(@, Notice(id, "was_running"))]
    ELSE [p EXCEPT !.notices = Append(@, Notice(id, "not_running"))]

ControlStop(p, id) ==
    IF IsBusy(p)
    THEN [p EXCEPT !.run.stopping = TRUE, !.run.stops = Append(@, id)]
    ELSE [p EXCEPT !.notices = Append(@, Notice(id, "not_running"))]

\* Stop and end raise the cancel flag of a loader that is still preparing.
Cancelled(p, l) == IF p.run.phase = "preparing" THEN [l EXCEPT !.cancel = TRUE] ELSE l

\* The first cause stays.
Block(run, code) == IF run.blocked = "none" THEN [run EXCEPT !.blocked = code] ELSE run

(***************************************************************************)
(* finish(): the start learns how the run ended, then the waiting stops.   *)
(***************************************************************************)
OutcomeOfRun(run) == IF run.blocked # "none" THEN "blocked"
                     ELSE IF run.stopping THEN "stopped" ELSE "completed"

StopNotices(run) ==
    [i \in DOMAIN run.stops |->
        Notice(run.stops[i], IF run.blocked # "none" THEN "failed" ELSE "was_running")]

Finish(p) ==
    [p EXCEPT !.run = NoRun,
              !.notices = @ \o <<Notice(p.run.start, OutcomeOfRun(p.run))>>
                            \o StopNotices(p.run),
              !.last = [run |-> p.run, outcome |-> OutcomeOfRun(p.run)]]

Running(run, plan) == [run EXCEPT !.phase = "running", !.plan = plan, !.loaded = plan]

(***************************************************************************)
(* poll() in three steps: start the loader, take its answer, finish.  The  *)
(* answer of a loader started by this poll is taken by the next one.  The  *)
(* cancelled answer of a run nobody stopped is unreachable!().             *)
(***************************************************************************)
StartsLoading(run, barrier) == run.phase = "waiting" /\ ~run.stopping /\ ~barrier

Loaded(p, l) ==
    IF p.run.phase # "preparing" \/ l.at \in {"none", "loading"} THEN p
    ELSE IF l.at = "lost"
    THEN [p EXCEPT !.run = Running(Block(@, "session_io_failed"), << >>)]
    ELSE IF p.run.stopping
    THEN [p EXCEPT !.run = Running(@, << >>)]
    ELSE CASE l.at = "plan"  -> [p EXCEPT !.run = Running(@, l.plan)]
           [] l.at = "error" -> [p EXCEPT !.run = NoRun,
                                          !.notices = Append(@, Notice(p.run.start, "failed"))]
           [] l.at = "cancelled" -> [p EXCEPT !.run.phase = "panicked"]

\* Mutations of MayFinish: open commands are forgotten; a halted plan must run out.
FinishesEarly(run) == run.phase = "running" /\ (run.plan = << >> \/ IsHalting(run))

FinishesRunOut(run) == run.phase = "running" /\ run.plan = << >> /\ run.pending = {}

MayFinish(run) ==
    /\ run.phase = "running"
    /\ run.plan = << >> \/ IsHalting(run)
    /\ run.pending = {}

Waited(p, l, barrier) ==
    IF p.run.phase = "waiting" /\ p.run.stopping THEN [p EXCEPT !.run = Running(@, << >>)]
    ELSE IF StartsLoading(p.run, barrier) THEN [p EXCEPT !.run.phase = "preparing"]
    ELSE Loaded(p, l)

Polled(p, l, barrier) ==
    LET waited == Waited(p, l, barrier)
    IN  IF MayFinish(waited.run) THEN Finish(waited) ELSE waited

\* What poll() leaves of the loader.
LoaderAfter(p, l, barrier) ==
    IF StartsLoading(p.run, barrier) THEN [NoLoader EXCEPT !.at = "loading"]
    ELSE IF p.run.phase = "preparing" /\ l.at # "loading" THEN NoLoader
    ELSE l

\* poll() and end() hand their notices over.
Told(p) == [p EXCEPT !.notices = << >>, !.told = @ \o p.notices]

(***************************************************************************)
(* next(): a run that halts stops its warp, once; otherwise the head of    *)
(* the plan may go, unless earlier work, a warp or a barrier holds it.     *)
(***************************************************************************)
HaltsWarp(run) == IsHalting(run) /\ run.warp # 0 /\ ~run.stopSent

\* Mutation of FreesPlan: a warp does not wait for the commands before it.
FreesWarpEarly(run, earlier) ==
    /\ ~IsHalting(run)
    /\ run.phase = "running" /\ run.plan # << >>
    /\ ~earlier
    /\ run.warp = 0

FreesPlan(run, earlier) ==
    /\ ~IsHalting(run)
    /\ run.phase = "running" /\ run.plan # << >>
    /\ ~earlier
    /\ run.warp = 0
    /\ Head(run.plan) = "warp" => run.pending = {}

NextKind(run) == IF IsHalting(run) THEN "warpStop" ELSE Head(run.plan)

Taken(p) ==
    IF IsHalting(p.run) THEN [p EXCEPT !.run.stopSent = TRUE]
                        ELSE [p EXCEPT !.run.plan = Tail(@)]

\* kind is NextKind of the run before it was taken.
Submitted(p, id, kind) ==
    LET halt == IsHalting(p.run) /\ kind = "warpStop" IN
    [p EXCEPT !.run.pending = @ \cup {id},
              !.run.halts = IF halt THEN @ \cup {id} ELSE @,
              !.run.warp = IF kind = "warp" THEN id ELSE @,
              !.run.submitted =
                  Append(@, [id |-> id, outcome |-> "open",
                             kind |-> IF halt THEN "halt" ELSE kind])]

CodeOf(outcome, halt) ==
    CASE outcome = "io" -> "session_io_failed"
      [] outcome = "protocol" /\ ~halt -> "command_protocol_failed"
      [] OTHER -> "stop_failed"

WithOutcome(submitted, id, outcome) ==
    [i \in DOMAIN submitted |->
        IF submitted[i].id = id THEN [submitted[i] EXCEPT !.outcome = outcome]
                                ELSE submitted[i]]

RunSettled(run, id, outcome) ==
    [run EXCEPT !.pending = @ \ {id},
                !.halts = @ \ {id},
                !.warp = IF @ = id THEN 0 ELSE @,
                !.submitted = WithOutcome(@, id, outcome)]

\* A failed halt ends the run at once: its warp cannot be drained.
RunTerminal(p, id, outcome) ==
    LET halt    == id \in p.run.halts
        settled == [p EXCEPT !.run = RunSettled(@, id, outcome)]
        blocked == [settled EXCEPT !.run = Block(@, CodeOf(outcome, halt))]
    IN  IF id \notin p.run.pending THEN p
        ELSE IF outcome = "ok" \/ (outcome = "rejected" /\ ~halt) THEN settled
        ELSE IF halt THEN Finish(blocked) ELSE blocked

\* Without ids the warp of the run cannot be stopped either.
SubmissionFailed(p) ==
    LET blocked == [p EXCEPT !.run = Block(@, "request_id_exhausted")]
    IN  IF p.run.warp # 0 /\ p.run.stopSent THEN Finish(blocked) ELSE blocked

\* Mutation of EndReplay: ends a run that is not there.
EndReplayAnyway(p, io) == Finish(p)

EndReplay(p, io) ==
    IF IsBusy(p)
    THEN Finish([p EXCEPT !.run = Block(@, IF io THEN "session_io_failed"
                                                 ELSE "session_ended")])
    ELSE p

-----------------------------------------------------------------------------
(* The loader thread: a raised cancel flag may be seen, or come too late. *)

Load ==
    /\ loader.at = "loading"
    /\ \/ \E plan \in Plans : loader' = [loader EXCEPT !.at = "plan", !.plan = plan]
       \/ loader.cancel /\ loader' = [loader EXCEPT !.at = "cancelled"]
       \/ LoaderFaults /\ \E at \in {"error", "lost"} : loader' = [loader EXCEPT !.at = at]
    /\ UNCHANGED replay

-----------------------------------------------------------------------------
(***************************************************************************)
(* Replay under any caller with the coordinator's discipline: external     *)
(* commands reach the game only before the run submitted anything, every   *)
(* command goes out with a larger id, and each answer is reported once.    *)
(***************************************************************************)
ReplayInit ==
    /\ replay = NewReplay
    /\ loader = NoLoader
    /\ active = {}
    /\ wire = << >>

\* Every id a control command has used; a new one is larger than all.
ControlIds(p) ==
    {p.run.start} \cup ToSet(p.run.stops) \cup {p.notices[i].id : i \in DOMAIN p.notices}
                  \cup {p.told[i].id : i \in DOMAIN p.told}

\* A deferred command may be older than the run it precedes.
OnlyOnWire(id) == NextOnWire(id) /\ id \notin ControlIds(replay)

FreshId(id) == NextOnWire(id) /\ \A used \in ControlIds(replay) : used < id

CallReplayStart(id) ==
    /\ FreshId(id)
    /\ replay' = ControlStart(replay, id)
    /\ UNCHANGED <<loader, baseVars>>

CallReplayStop(id) ==
    /\ FreshId(id)
    /\ replay' = ControlStop(replay, id)
    /\ loader' = Cancelled(replay, loader)
    /\ UNCHANGED baseVars

CallPoll(barrier) ==
    /\ replay' = Told(Polled(replay, loader, barrier))
    /\ loader' = LoaderAfter(replay, loader, barrier)
    /\ UNCHANGED baseVars

\* Is something of the game's open that the run did not submit?
Earlier == active \ replay.run.pending # {}

Frees == IsBusy(replay) /\ (HaltsWarp(replay.run) \/ FreesPlan(replay.run, Earlier))

FromReplay(id) == Submitted(Taken(replay), id, NextKind(replay.run))

CallNext(id) ==
    /\ Frees
    /\ FreshId(id)
    /\ replay' = FromReplay(id)
    /\ active' = active \cup {id}
    /\ wire' = Append(wire, id)
    /\ UNCHANGED loader

\* The writer is gone.
CallNextFailed(id) ==
    /\ Frees
    /\ FreshId(id)
    /\ replay' = RunTerminal(FromReplay(id), id, "io")
    /\ wire' = Append(wire, id)
    /\ UNCHANGED <<active, loader>>

CallNextExhausted ==
    /\ Frees
    /\ replay' = SubmissionFailed(Taken(replay))
    /\ UNCHANGED <<loader, baseVars>>

CallAnswer(id, outcome) ==
    /\ id \in active
    /\ active' = active \ {id}
    /\ replay' = RunTerminal(replay, id, outcome)
    /\ UNCHANGED <<wire, loader>>

CallExternal(id) ==
    /\ replay.run.submitted = << >>
    /\ OnlyOnWire(id)
    /\ active' = active \cup {id}
    /\ wire' = Append(wire, id)
    /\ UNCHANGED replayVars

CallExternalFailed(id) ==
    /\ replay.run.submitted = << >>
    /\ OnlyOnWire(id)
    /\ wire' = Append(wire, id)
    /\ UNCHANGED <<active, replayVars>>

CallEndReplay(io) ==
    /\ replay' = Told(EndReplay(replay, io))
    /\ loader' = Cancelled(replay, loader)
    /\ UNCHANGED baseVars

ReplayNext ==
    \/ \E id \in NormalIds :
          CallReplayStart(id) \/ CallReplayStop(id) \/ CallNext(id) \/ CallNextFailed(id)
    \/ \E id \in Ids :
          \/ CallExternal(id) \/ CallExternalFailed(id)
          \/ \E outcome \in Answers : CallAnswer(id, outcome)
    \/ \E barrier \in BOOLEAN : CallPoll(barrier)
    \/ CallNextExhausted
    \/ \E io \in BOOLEAN : CallEndReplay(io)
    \/ Load /\ UNCHANGED baseVars

ReplaySpec == ReplayInit /\ [][ReplayNext]_<<replayVars, baseVars>>

-----------------------------------------------------------------------------
(* Properties *)

Codes == {"command_protocol_failed", "session_io_failed", "session_ended",
          "request_id_exhausted", "stop_failed"}

Submissions == [id : NormalIds, outcome : Settled \cup {"open"},
                kind : GameKinds \cup {"halt"}]

Runs ==
    [phase : {"idle", "waiting", "preparing", "running", "panicked"},
     start : NormalIds \cup {0}, plan : Seq(GameKinds), stopping : BOOLEAN,
     stops : Seq(NormalIds), pending : SUBSET NormalIds, halts : SUBSET NormalIds,
     warp : NormalIds \cup {0}, stopSent : BOOLEAN, blocked : Codes \cup {"none"},
     loaded : Seq(GameKinds), submitted : Seq(Submissions)]

Notices == [id : NormalIds,
            outcome : {"completed", "stopped", "blocked", "failed",
                       "was_running", "not_running"}]

Replays == [run : Runs, notices : Seq(Notices), told : Seq(Notices),
            last : [run : Runs, outcome : {"none", "completed", "stopped", "blocked"}]]

Loaders == [at : {"none", "loading", "plan", "cancelled", "error", "lost"},
            plan : Seq(GameKinds), cancel : BOOLEAN]

\* Every variable has its type.
ReplayTypeOK ==
    /\ active \subseteq Ids
    /\ wire \in Seq(Ids)
    /\ replay \in Replays
    /\ loader \in Loaders

\* Only Stop cancels a live loader: the unreachable!() of poll() is unreachable.
CancelOnlyByStop == replay.run.phase # "panicked"

(***************************************************************************)
(* A run owns only commands that are open at the game, and at most one of  *)
(* them is the internal stop, sent only to a warp of its own.              *)
(***************************************************************************)
PendingIsOpen ==
    LET run == replay.run IN
    /\ run.halts \subseteq run.pending /\ run.pending \subseteq active
    /\ run.warp # 0 => run.warp \in run.pending
    /\ Cardinality(run.halts) <= 1

(***************************************************************************)
(* The warp barrier: a warp a run waits for is open at the game, and while *)
(* it executes the game works on nothing else, replayed or external, but   *)
(* the one internal stop of that warp.                                     *)
(***************************************************************************)
WarpRunsAlone ==
    /\ PendingIsOpen
    /\ replay.run.warp # 0 => active = {replay.run.warp} \cup replay.run.halts

KindsOf(commands) == [i \in DOMAIN commands |-> commands[i].kind]

(***************************************************************************)
(* "completed" means what it says: every command of the plan the loader    *)
(* returned was submitted once and in order, and the game answered each    *)
(* one, at worst with a rejection.                                         *)
(***************************************************************************)
CompletedMeansWhole(last) ==
    last.outcome = "completed" =>
        LET run == last.run IN
        /\ KindsOf(run.submitted) = run.loaded
        /\ \A i \in DOMAIN run.submitted :
               run.submitted[i].outcome \in {"ok", "rejected"}

(***************************************************************************)
(* "stopped" means drained: what ran is a prefix of the plan, followed by  *)
(* nothing but the internal stop, and when the stops are acknowledged no   *)
(* command of the run is open at the game.                                 *)
(***************************************************************************)
StoppedMeansDrained(last) ==
    last.outcome = "stopped" =>
        LET run == last.run IN
        /\ \E n \in 0 .. Len(run.submitted) :
               /\ n <= Len(run.loaded)
               /\ \A i \in 1 .. n : run.submitted[i].kind = run.loaded[i]
               /\ \A i \in n + 1 .. Len(run.submitted) : run.submitted[i].kind = "halt"
        /\ \A i \in DOMAIN run.submitted :
               /\ run.submitted[i].outcome \in {"ok", "rejected"}
               /\ run.submitted[i].kind = "halt" => run.submitted[i].outcome = "ok"

(***************************************************************************)
(* "blocked" names the first technical cause: a replayed command that got  *)
(* no valid response, or an internal stop that failed.                     *)
(***************************************************************************)
Has(run, kinds, outcomes) ==
    \E i \in DOMAIN run.submitted :
        run.submitted[i].kind \in kinds /\ run.submitted[i].outcome \in outcomes

BlockedNamesCause(run) ==
    /\ run.blocked = "command_protocol_failed" => Has(run, GameKinds, {"protocol"})
    /\ run.blocked = "stop_failed" => Has(run, {"halt"}, {"rejected", "protocol"})

(***************************************************************************)
(* The outcome a replay reports is the truth about what reached the game.  *)
(***************************************************************************)
EndsTruthfully ==
    /\ CompletedMeansWhole(replay.last)
    /\ StoppedMeansDrained(replay.last)
    /\ BlockedNamesCause(replay.last.run)

(***************************************************************************)
(* Every control command is answered at most once, and none is answered    *)
(* while it is still waiting for its run.                                  *)
(***************************************************************************)
ControlAnsweredOnce ==
    LET all     == replay.told \o replay.notices
        waiting == IF IsBusy(replay) THEN {replay.run.start} \cup ToSet(replay.run.stops)
                                     ELSE {}
    IN  \A i \in DOMAIN all :
            /\ all[i].id \notin waiting
            /\ \A j \in DOMAIN all : all[i].id = all[j].id => i = j
=============================================================================
