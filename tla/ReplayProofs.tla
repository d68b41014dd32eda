---------------------------- MODULE ReplayProofs ----------------------------
(***************************************************************************)
(* The safety of the replay engine, for every plan and every bound on the  *)
(* request ids: only a stop cancels a loader, a warp runs alone, every     *)
(* control command is answered once, and the reported outcome is true.     *)
(*                                                                         *)
(* Type correctness is proved call by call.  It is not inductive as it     *)
(* stands: finish() answers the start of the run, so a run that is there   *)
(* must have one, and terminal() must find no open command when there is no *)
(* run.  Well adds both.                                                   *)
(*                                                                         *)
(* None of the four is inductive either.  The first needs to know that the *)
(* cancel flag of a loader that prepares was raised by a stop (LoaderInv); *)
(* the second, which commands a run may own at all (Owned); the third, in  *)
(* which order the control commands stand (Line); the last, how what a run *)
(* submitted relates to its plan, to what it owns and to its cause         *)
(* (Honest).  In between, the module says what each call does to the       *)
(* fields these invariants read.                                           *)
(***************************************************************************)
EXTENDS Replay, FiniteSetTheorems, SequenceTheorems, TLAPS

-----------------------------------------------------------------------------
(* The types *)

\* A well-formed replay: its type, a start for every run, and nothing open without one.
Well(p) ==
    /\ p \in Replays
    /\ IsBusy(p) => p.run.start \in NormalIds
    /\ ~IsBusy(p) => p.run.pending = {}

\* A function on 1 .. n with values in S is a sequence over S.
LEMMA FunctionIsSeq ==
    ASSUME NEW S, NEW n \in Nat, NEW f \in [1 .. n -> S]
    PROVE  f \in Seq(S)
BY SeqDef

\* The empty run is a run.
LEMMA NoRunType == NoRun \in Runs
BY LastIdAssumption DEF NoRun, Runs, NormalIds, Codes, GameKinds

\* Naming the cause of a run keeps its type.
LEMMA BlockType ==
    ASSUME NEW run \in Runs, NEW code \in Codes
    PROVE  Block(run, code) \in Runs
BY DEF Block, Runs, Codes

\* finish() leaves a well-formed replay without a run.
LEMMA FinishWell ==
    ASSUME NEW p, Well(p), IsBusy(p)
    PROVE  Well(Finish(p))
<1>. DEFINE run == p.run
<1>1. OutcomeOfRun(run) \in {"completed", "stopped", "blocked"}
  BY DEF OutcomeOfRun
<1>2. StopNotices(run) \in Seq(Notices)
  <2>1. run.stops \in Seq(NormalIds)
    BY DEF Well, Replays, Runs
  <2>2. /\ Len(run.stops) \in Nat /\ DOMAIN run.stops = 1 .. Len(run.stops)
        /\ \A i \in 1 .. Len(run.stops) : run.stops[i] \in NormalIds
    BY <2>1
  <2>3. StopNotices(run) \in [1 .. Len(run.stops) -> Notices]
    BY <2>2 DEF StopNotices, Notice, Notices
  <2> QED
    BY <2>2, <2>3, FunctionIsSeq
<1>3. <<Notice(run.start, OutcomeOfRun(run))>> \in Seq(Notices)
  BY <1>1 DEF Notice, Notices, Well
<1>4. p.notices \o <<Notice(run.start, OutcomeOfRun(run))>> \o StopNotices(run) \in Seq(Notices)
  BY <1>2, <1>3, ConcatProperties DEF Replays, Well
<1>5. Finish(p) \in Replays
  BY <1>1, <1>4, NoRunType DEF Finish, Replays, Well
<1>6. ~IsBusy(Finish(p)) /\ Finish(p).run.pending = {}
  BY DEF Finish, IsBusy, NoRun, Well, Replays
<1> QED
  BY <1>5, <1>6 DEF Well

\* A run replaced by another with the same start.
WithRun(p, run) == [p EXCEPT !.run = run]

\* A busy replay stays well-formed when its run changes in anything but its start.
LEMMA WithRunWell ==
    ASSUME NEW p, Well(p), NEW run \in Runs,
           IsBusy(p), run.start = p.run.start, run.phase # "idle"
    PROVE  Well(WithRun(p, run))
BY DEF WithRun, Well, Replays, IsBusy

\* Refusing a control command keeps the replay well-formed.
LEMMA NoticeWell ==
    ASSUME NEW p, Well(p), NEW id \in NormalIds, NEW outcome \in {"failed", "not_running"}
    PROVE  Well([p EXCEPT !.notices = Append(@, Notice(id, outcome))])
<1>1. Notice(id, outcome) \in Notices
  BY DEF Notice, Notices
<1>2. Append(p.notices, Notice(id, outcome)) \in Seq(Notices)
  BY <1>1, AppendProperties DEF Well, Replays
<1> QED
  BY <1>2 DEF Well, Replays, IsBusy

\* So do the start and stop commands.
LEMMA ControlWell ==
    ASSUME NEW p, Well(p), NEW id \in NormalIds
    PROVE  Well(ControlStart(p, id)) /\ Well(ControlStop(p, id))
<1>1. Well(ControlStart(p, id))
  <2>1. CASE IsBusy(p)
    BY <2>1, NoticeWell DEF ControlStart
  <2>2. CASE ~IsBusy(p)
    <3>1. [NoRun EXCEPT !.phase = "waiting", !.start = id] \in Runs
      BY NoRunType DEF Runs
    <3> QED
      BY <2>2, <3>1 DEF ControlStart, Well, Replays, IsBusy, NoRun
  <2> QED
    BY <2>1, <2>2
<1>2. Well(ControlStop(p, id))
  <2>1. CASE IsBusy(p)
    <3>1. [p.run EXCEPT !.stopping = TRUE, !.stops = Append(@, id)] \in Runs
      <4>1. Append(p.run.stops, id) \in Seq(NormalIds)
        BY AppendProperties DEF Well, Replays, Runs
      <4> QED
        BY <4>1 DEF Well, Replays, Runs
    <3>2. ControlStop(p, id)
            = WithRun(p, [p.run EXCEPT !.stopping = TRUE, !.stops = Append(@, id)])
      BY <2>1 DEF WithRun, ControlStop, Well, Replays, Runs
    <3>3. /\ [p.run EXCEPT !.stopping = TRUE, !.stops = Append(@, id)].start = p.run.start
          /\ [p.run EXCEPT !.stopping = TRUE, !.stops = Append(@, id)].phase # "idle"
      BY <2>1 DEF Well, Replays, Runs, IsBusy
    <3> QED
      BY <2>1, <3>1, <3>2, <3>3, WithRunWell
  <2>2. CASE ~IsBusy(p)
    BY <2>2, NoticeWell DEF ControlStop
  <2> QED
    BY <2>1, <2>2
<1> QED
  BY <1>1, <1>2

-----------------------------------------------------------------------------
(* poll() and next() *)

\* A run that starts to submit is a run, with the same start.
LEMMA RunningType ==
    ASSUME NEW run \in Runs, NEW plan \in Seq(GameKinds)
    PROVE  /\ Running(run, plan) \in Runs
           /\ Running(run, plan).start = run.start
           /\ Running(run, plan).phase = "running"
BY DEF Running, Runs

\* Taking the loader's answer keeps the replay well-formed.
LEMMA LoadedWell ==
    ASSUME NEW p, Well(p), NEW l \in Loaders
    PROVE  Well(Loaded(p, l))
<1>. DEFINE lost == Block(p.run, "session_io_failed")
<1>1. CASE p.run.phase # "preparing" \/ l.at \in {"none", "loading"}
  BY <1>1 DEF Loaded
<1>. SUFFICES ASSUME ~(p.run.phase # "preparing" \/ l.at \in {"none", "loading"})
     PROVE Well(Loaded(p, l))
  BY <1>1
<1>2. p.run \in Runs /\ IsBusy(p) /\ p.run.start \in NormalIds
  BY DEF Well, Replays, IsBusy
<1>3. << >> \in Seq(GameKinds) /\ l.plan \in Seq(GameKinds)
  BY EmptySeq DEF Loaders
<1>4. CASE l.at = "lost"
  <2>1. lost \in Runs /\ lost.start = p.run.start
    <3>1. "session_io_failed" \in Codes
      BY DEF Codes
    <3>2. lost \in Runs
      BY <1>2, <3>1, BlockType
    <3> QED
      BY <1>2, <3>2 DEF Block, Runs
  <2>2. /\ Running(lost, << >>) \in Runs
        /\ Running(lost, << >>).start = p.run.start
        /\ Running(lost, << >>).phase = "running"
    BY <2>1, <1>3, RunningType
  <2>3. Loaded(p, l) = WithRun(p, Running(lost, << >>))
    BY <1>4 DEF WithRun, Loaded
  <2> QED
    BY <1>2, <2>2, <2>3, WithRunWell
<1>5. CASE l.at # "lost" /\ p.run.stopping
  <2>1. Loaded(p, l) = WithRun(p, Running(p.run, << >>))
    BY <1>5 DEF WithRun, Loaded
  <2>2. /\ Running(p.run, << >>) \in Runs
        /\ Running(p.run, << >>).start = p.run.start
        /\ Running(p.run, << >>).phase = "running"
    BY <1>2, <1>3, RunningType
  <2> QED
    BY <1>2, <2>1, <2>2, WithRunWell
<1>6. CASE l.at = "plan" /\ ~p.run.stopping
  <2>1. Loaded(p, l) = WithRun(p, Running(p.run, l.plan))
    BY <1>6 DEF WithRun, Loaded
  <2>2. /\ Running(p.run, l.plan) \in Runs
        /\ Running(p.run, l.plan).start = p.run.start
        /\ Running(p.run, l.plan).phase = "running"
    BY <1>2, <1>3, RunningType
  <2> QED
    BY <1>2, <2>1, <2>2, WithRunWell
<1>7. CASE l.at = "error" /\ ~p.run.stopping
  <2>1. Append(p.notices, Notice(p.run.start, "failed")) \in Seq(Notices)
    BY <1>2, AppendProperties DEF Notice, Notices, Well, Replays
  <2>2. Loaded(p, l) = [p EXCEPT !.run = NoRun,
                                 !.notices = Append(@, Notice(p.run.start, "failed"))]
    BY <1>7 DEF Loaded
  <2>3. NoRun.phase = "idle" /\ NoRun.pending = {}
    BY DEF NoRun
  <2> QED
    BY <2>1, <2>2, <2>3, NoRunType DEF Well, Replays, IsBusy
<1>8. CASE l.at = "cancelled" /\ ~p.run.stopping
  <2>1. /\ [p.run EXCEPT !.phase = "panicked"] \in Runs
        /\ [p.run EXCEPT !.phase = "panicked"].start = p.run.start
        /\ [p.run EXCEPT !.phase = "panicked"].phase = "panicked"
    BY <1>2 DEF Runs
  <2>2. Loaded(p, l) = WithRun(p, [p.run EXCEPT !.phase = "panicked"])
    BY <1>8 DEF WithRun, Loaded, Well, Replays
  <2> QED
    BY <1>2, <2>1, <2>2, WithRunWell
<1> QED
  BY <1>4, <1>5, <1>6, <1>7, <1>8 DEF Loaders

\* So does the first half of poll(), which starts the loader or takes its answer.
LEMMA WaitedWell ==
    ASSUME NEW p, Well(p), NEW l \in Loaders, NEW barrier \in BOOLEAN
    PROVE  Well(Waited(p, l, barrier))
<1>. DEFINE waited == Waited(p, l, barrier)
<1>1. CASE p.run.phase = "waiting" /\ p.run.stopping
  <2>1. p.run \in Runs /\ IsBusy(p)
    BY <1>1 DEF Well, Replays, IsBusy
  <2>2. waited = WithRun(p, Running(p.run, << >>))
    BY <1>1 DEF WithRun, Waited
  <2>3. << >> \in Seq(GameKinds)
    BY EmptySeq
  <2>4. /\ Running(p.run, << >>) \in Runs
        /\ Running(p.run, << >>).start = p.run.start
        /\ Running(p.run, << >>).phase = "running"
    BY <2>1, <2>3, RunningType
  <2> QED
    BY <2>1, <2>2, <2>4, WithRunWell
<1>2. CASE StartsLoading(p.run, barrier)
  <2>1. p.run \in Runs /\ IsBusy(p)
    BY <1>2 DEF Well, Replays, IsBusy, StartsLoading
  <2>2. /\ [p.run EXCEPT !.phase = "preparing"] \in Runs
        /\ [p.run EXCEPT !.phase = "preparing"].start = p.run.start
        /\ [p.run EXCEPT !.phase = "preparing"].phase = "preparing"
    BY <2>1 DEF Runs
  <2>3. waited = WithRun(p, [p.run EXCEPT !.phase = "preparing"])
    BY <1>2 DEF WithRun, Waited, StartsLoading, Well, Replays
  <2> QED
    BY <2>1, <2>2, <2>3, WithRunWell
<1>3. CASE ~(p.run.phase = "waiting" /\ p.run.stopping) /\ ~StartsLoading(p.run, barrier)
  <2>1. waited = Loaded(p, l)
    BY <1>3 DEF Waited
  <2> QED
    BY <2>1, LoadedWell
<1> QED
  BY <1>1, <1>2, <1>3

\* So does poll().
LEMMA PolledWell ==
    ASSUME NEW p, Well(p), NEW l \in Loaders, NEW barrier \in BOOLEAN
    PROVE  Well(Polled(p, l, barrier))
<1>. DEFINE waited == Waited(p, l, barrier)
<1>1. Well(waited)
  BY WaitedWell
<1>2. CASE MayFinish(waited.run)
  <2>1. IsBusy(waited)
    BY <1>2 DEF MayFinish, IsBusy
  <2>2. Polled(p, l, barrier) = Finish(waited)
    BY <1>2 DEF Polled
  <2> QED
    BY <1>1, <2>1, <2>2, FinishWell
<1>3. CASE ~MayFinish(waited.run)
  <2>1. Polled(p, l, barrier) = waited
    BY <1>3 DEF Polled
  <2> QED
    BY <1>1, <2>1
<1> QED
  BY <1>2, <1>3

\* poll(), stop and end leave a loader of the right type.
LEMMA LoaderTypes ==
    ASSUME NEW p, NEW l \in Loaders, NEW barrier \in BOOLEAN
    PROVE  LoaderAfter(p, l, barrier) \in Loaders /\ Cancelled(p, l) \in Loaders
<1>1. NoLoader \in Loaders /\ [NoLoader EXCEPT !.at = "loading"] \in Loaders
  BY EmptySeq DEF NoLoader, Loaders
<1>2. [l EXCEPT !.cancel = TRUE] \in Loaders
  BY DEF Loaders
<1> QED
  BY <1>1, <1>2 DEF LoaderAfter, Cancelled

\* Handing the notices over keeps the replay well-formed.
LEMMA ToldWell ==
    ASSUME NEW p, Well(p)
    PROVE  Well(Told(p))
<1>1. p.told \o p.notices \in Seq(Notices) /\ << >> \in Seq(Notices)
  BY ConcatProperties, EmptySeq DEF Well, Replays
<1> QED
  BY <1>1 DEF Told, Well, Replays, IsBusy

\* What submitted() changes of a run.
HandsOn(run, pending, halts, warp, submitted) ==
    [run EXCEPT !.pending = pending, !.halts = halts, !.warp = warp, !.submitted = submitted]

\* A run whose commands change is a run, with the same start and phase.
LEMMA SendsType ==
    ASSUME NEW run \in Runs, NEW pending, pending \subseteq NormalIds,
           NEW halts, halts \subseteq NormalIds,
           NEW warp \in NormalIds \cup {0}, NEW submitted \in Seq(Submissions)
    PROVE  /\ HandsOn(run, pending, halts, warp, submitted) \in Runs
           /\ HandsOn(run, pending, halts, warp, submitted).start = run.start
           /\ HandsOn(run, pending, halts, warp, submitted).phase = run.phase
BY DEF Runs, HandsOn

\* next() and submitted() keep the replay well-formed and busy.
LEMMA SubmittedWell ==
    ASSUME NEW p, Well(p), IsBusy(p), NEW id \in NormalIds,
           HaltsWarp(p.run) \/ \E earlier \in BOOLEAN : FreesPlan(p.run, earlier)
    PROVE  /\ Well(Taken(p)) /\ IsBusy(Taken(p))
           /\ LET sent == Submitted(Taken(p), id, NextKind(p.run))
              IN  Well(sent) /\ IsBusy(sent)
<1>. DEFINE took == Taken(p).run
            kind == NextKind(p.run)
            halt == IsHalting(took) /\ kind = "warpStop"
            sent == [id |-> id, outcome |-> "open", kind |-> IF halt THEN "halt" ELSE kind]
            run  == Submitted(Taken(p), id, kind).run
<1>1. p.run \in Runs /\ p.run.start \in NormalIds
  BY DEF Well, Replays
<1>2. kind \in GameKinds /\ took \in Runs /\ took.start = p.run.start
  <2>1. CASE IsHalting(p.run)
    BY <1>1, <2>1 DEF Taken, Well, Replays, Runs, NextKind, GameKinds
  <2>2. CASE ~IsHalting(p.run)
    <3>1. p.run.plan \in Seq(GameKinds) /\ p.run.plan # << >>
      BY <1>1, <2>2 DEF HaltsWarp, FreesPlan, Runs
    <3>2. Head(p.run.plan) \in GameKinds /\ Tail(p.run.plan) \in Seq(GameKinds)
      BY <3>1, HeadTailProperties
    <3> QED
      BY <1>1, <2>2, <3>2 DEF Taken, Well, Replays, Runs, NextKind
  <2> QED
    BY <2>1, <2>2
<1>3. Taken(p) = WithRun(p, took)
  BY DEF Taken, WithRun, Well, Replays
<1>4. Well(Taken(p)) /\ IsBusy(Taken(p))
  <2>1. took.phase = p.run.phase
    BY <1>1 DEF Taken, Well, Replays, Runs
  <2> QED
    BY <1>1, <1>2, <1>3, <2>1, WithRunWell DEF IsBusy
<1>5. sent \in Submissions
  BY <1>2 DEF Submissions
<1>6. Append(took.submitted, sent) \in Seq(Submissions)
  BY <1>2, <1>5, AppendProperties DEF Runs
<1>7. run \in Runs /\ run.start = took.start /\ run.phase = took.phase
  <2>. DEFINE pending   == took.pending \cup {id}
              halts     == IF halt THEN took.halts \cup {id} ELSE took.halts
              warp      == IF kind = "warp" THEN id ELSE took.warp
              submitted == Append(took.submitted, sent)
  <2>1. run = [took EXCEPT !.pending = pending, !.halts = halts,
                           !.warp = warp, !.submitted = submitted]
    BY <1>2, <1>4 DEF Submitted, Well, Replays, Runs
  <2>2. pending \subseteq NormalIds /\ halts \subseteq NormalIds
    BY <1>2 DEF Runs
  <2>3. warp \in NormalIds \cup {0}
    BY <1>2 DEF Runs
  <2>4. submitted \in Seq(Submissions)
    BY <1>6
  <2>. DEFINE new == HandsOn(took, pending, halts, warp, submitted)
  <2>5. new \in Runs /\ new.start = took.start /\ new.phase = took.phase
    <3> HIDE DEF took, pending, halts, warp, submitted
    <3> QED
      BY <1>2, <2>2, <2>3, <2>4, SendsType
  <2>6. run = new
    BY <2>1 DEF HandsOn
  <2> QED
    BY <2>5, <2>6
<1>8. Submitted(Taken(p), id, kind) = WithRun(Taken(p), run)
  BY <1>4 DEF Submitted, WithRun, Well, Replays
<1>9. Well(WithRun(Taken(p), run)) /\ WithRun(Taken(p), run).run = run
  BY <1>4, <1>7, WithRunWell DEF IsBusy, WithRun, Well, Replays
<1> QED
  BY <1>4, <1>7, <1>8, <1>9 DEF IsBusy

\* A run with one command settled is a run, with the same start and phase.
LEMMA SettledType ==
    ASSUME NEW run \in Runs, NEW id, NEW outcome \in Settled
    PROVE  /\ RunSettled(run, id, outcome) \in Runs
           /\ RunSettled(run, id, outcome).start = run.start
           /\ RunSettled(run, id, outcome).phase = run.phase
<1>. DEFINE new == WithOutcome(run.submitted, id, outcome)
<1>1. run.submitted \in Seq(Submissions)
  BY DEF Runs
<1>2. /\ Len(run.submitted) \in Nat /\ DOMAIN run.submitted = 1 .. Len(run.submitted)
      /\ \A i \in 1 .. Len(run.submitted) : run.submitted[i] \in Submissions
  BY <1>1
<1>3. new \in [1 .. Len(run.submitted) -> Submissions]
  BY <1>2 DEF WithOutcome, Submissions
<1>4. new \in Seq(Submissions)
  BY <1>2, <1>3, FunctionIsSeq
<1> QED
  BY <1>4 DEF RunSettled, Runs

\* terminal() keeps the replay well-formed.
LEMMA TerminalWell ==
    ASSUME NEW p, Well(p), IsBusy(p), NEW id, NEW outcome \in Settled
    PROVE  Well(RunTerminal(p, id, outcome))
<1>. DEFINE halt == id \in p.run.halts
            code == CodeOf(outcome, halt)
            after == RunSettled(p.run, id, outcome)
            settled == WithRun(p, after)
            blocked == WithRun(settled, Block(after, code))
<1>1. p.run \in Runs
  BY DEF Well, Replays
<1>2. after \in Runs /\ after.start = p.run.start /\ after.phase = p.run.phase
  BY <1>1, SettledType
<1>3. Well(settled) /\ IsBusy(settled) /\ settled.run = after
  <2>1. Well(settled)
    BY <1>2, WithRunWell DEF IsBusy
  <2>2. settled.run = after
    BY DEF WithRun, Well, Replays
  <2> QED
    BY <1>2, <2>1, <2>2 DEF IsBusy
<1>4. code \in Codes
  BY DEF CodeOf, Codes
<1>5. /\ Block(after, code) \in Runs
      /\ Block(after, code).start = after.start
      /\ Block(after, code).phase = after.phase
  <2>1. Block(after, code) \in Runs
    BY <1>2, <1>4, BlockType
  <2> QED
    BY <1>2, <2>1 DEF Block, Runs
<1>6. Well(blocked) /\ IsBusy(blocked)
  <2>1. Well(blocked)
    BY <1>2, <1>3, <1>5, WithRunWell DEF IsBusy
  <2>2. blocked.run = Block(after, code)
    BY <1>3 DEF WithRun, Well, Replays
  <2> QED
    BY <1>2, <1>3, <1>5, <2>1, <2>2 DEF IsBusy
<1>7. /\ settled = [p EXCEPT !.run = RunSettled(@, id, outcome)]
      /\ blocked = [settled EXCEPT !.run = Block(@, code)]
  BY <1>3 DEF WithRun, Well, Replays
<1>8. RunTerminal(p, id, outcome) \in {p, settled, blocked, Finish(blocked)}
  BY <1>7 DEF RunTerminal
<1> QED
  BY <1>3, <1>6, <1>8, FinishWell

\* A busy replay stays well-formed and busy when its run is blocked.
LEMMA FailedWell ==
    ASSUME NEW p, Well(p), IsBusy(p), NEW code \in Codes
    PROVE  /\ Well([p EXCEPT !.run = Block(@, code)])
           /\ IsBusy([p EXCEPT !.run = Block(@, code)])
<1>. DEFINE blocked == WithRun(p, Block(p.run, code))
<1>1. Block(p.run, code) \in Runs
  BY BlockType DEF Well, Replays
<1>2. /\ Block(p.run, code).start = p.run.start
      /\ Block(p.run, code).phase = p.run.phase
  BY DEF Block, Well, Replays, Runs
<1>3. blocked.run = Block(p.run, code) /\ blocked = [p EXCEPT !.run = Block(@, code)]
  BY DEF WithRun, Well, Replays
<1>4. Well(blocked)
  BY <1>1, <1>2, WithRunWell DEF IsBusy
<1> QED
  BY <1>2, <1>3, <1>4 DEF IsBusy

\* submission_failed() and end() keep the replay well-formed.
LEMMA EndsWell ==
    ASSUME NEW p, Well(p), NEW io \in BOOLEAN
    PROVE  /\ IsBusy(p) => Well(SubmissionFailed(p))
           /\ Well(EndReplay(p, io))
<1>1. {"request_id_exhausted", "session_io_failed", "session_ended"} \subseteq Codes
  BY DEF Codes
<1>2. ASSUME IsBusy(p) PROVE Well(SubmissionFailed(p))
  <2>. DEFINE blocked == [p EXCEPT !.run = Block(@, "request_id_exhausted")]
  <2>1. Well(blocked) /\ IsBusy(blocked)
    BY <1>1, <1>2, FailedWell
  <2>2. SubmissionFailed(p) \in {blocked, Finish(blocked)}
    BY DEF SubmissionFailed
  <2> QED
    BY <2>1, <2>2, FinishWell
<1>3. Well(EndReplay(p, io))
  <2>. DEFINE code    == IF io THEN "session_io_failed" ELSE "session_ended"
              blocked == [p EXCEPT !.run = Block(@, code)]
  <2>1. CASE IsBusy(p)
    <3>1. code \in Codes
      BY <1>1
    <3>2. Well(blocked) /\ IsBusy(blocked)
      BY <2>1, <3>1, FailedWell
    <3>3. EndReplay(p, io) = Finish(blocked)
      BY <2>1 DEF EndReplay
    <3> QED
      BY <3>2, <3>3, FinishWell
  <2>2. CASE ~IsBusy(p)
    BY <2>2 DEF EndReplay
  <2> QED
    BY <2>1, <2>2
<1> QED
  BY <1>2, <1>3

-----------------------------------------------------------------------------
(* Type correctness *)

\* The inductive invariant.
IInv == ReplayTypeOK /\ Well(replay)

\* The initial state is well-formed.
LEMMA TypeInit == ReplayInit => IInv
<1>. SUFFICES ASSUME ReplayInit PROVE IInv
  OBVIOUS
<1>1. << >> \in Seq(Notices) /\ << >> \in Seq(Ids)
  BY EmptySeq
<1>2. NewReplay \in Replays /\ ~IsBusy(NewReplay) /\ NewReplay.run.pending = {}
  BY <1>1, NoRunType DEF NewReplay, Replays, IsBusy, NoRun
<1>3. NoLoader \in Loaders
  BY EmptySeq DEF NoLoader, Loaders
<1> QED
  BY <1>1, <1>2, <1>3 DEF ReplayInit, IInv, ReplayTypeOK, Well

\* Every step keeps the types and the replay well-formed.
LEMMA TypeStep == IInv /\ [ReplayNext]_<<replayVars, baseVars>> => IInv'
<1>. SUFFICES ASSUME IInv, [ReplayNext]_<<replayVars, baseVars>> PROVE IInv'
  OBVIOUS
<1>. USE DEF IInv, ReplayTypeOK
<1>0. NormalIds \subseteq Ids /\ "io" \in Settled /\ Answers \subseteq Settled
  BY DEF Ids, Settled
<1>1. ASSUME NEW id \in NormalIds, CallReplayStart(id) PROVE IInv'
  BY <1>1, ControlWell DEF CallReplayStart, baseVars, Well
<1>2. ASSUME NEW id \in NormalIds, CallReplayStop(id) PROVE IInv'
  BY <1>2, ControlWell, LoaderTypes DEF CallReplayStop, baseVars, Well
<1>3. ASSUME NEW id \in NormalIds, Frees
      PROVE  /\ Well(Taken(replay)) /\ IsBusy(Taken(replay))
             /\ Well(FromReplay(id)) /\ IsBusy(FromReplay(id))
  BY <1>3, SubmittedWell DEF Frees, Earlier, FromReplay
<1>4. ASSUME NEW id \in NormalIds, CallNext(id) PROVE IInv'
  BY <1>0, <1>3, <1>4, AppendProperties DEF CallNext, Well
<1>5. ASSUME NEW id \in NormalIds, CallNextFailed(id) PROVE IInv'
  BY <1>0, <1>3, <1>5, AppendProperties, TerminalWell DEF CallNextFailed, Well
<1>6. ASSUME CallNextExhausted PROVE IInv'
  <2>1. 1 \in NormalIds
    BY LastIdAssumption DEF NormalIds
  <2> QED
    BY <1>3, <1>6, <2>1, EndsWell DEF CallNextExhausted, baseVars, Well
<1>7. ASSUME NEW id \in Ids, NEW outcome \in Answers, CallAnswer(id, outcome) PROVE IInv'
  <2>1. CASE IsBusy(replay)
    BY <1>0, <1>7, <2>1, TerminalWell DEF CallAnswer, Well
  <2>2. CASE ~IsBusy(replay)
    BY <1>7, <2>2 DEF CallAnswer, RunTerminal, Well
  <2> QED
    BY <2>1, <2>2
<1>8. ASSUME NEW id \in Ids, CallExternal(id) \/ CallExternalFailed(id) PROVE IInv'
  BY <1>8, AppendProperties DEF CallExternal, CallExternalFailed, replayVars
<1>9. ASSUME NEW barrier \in BOOLEAN, CallPoll(barrier) PROVE IInv'
  <2>1. Well(Told(Polled(replay, loader, barrier)))
    BY PolledWell, ToldWell
  <2> QED
    BY <1>9, <2>1, LoaderTypes DEF CallPoll, baseVars, Well
<1>10. ASSUME NEW io \in BOOLEAN, CallEndReplay(io) PROVE IInv'
  <2>1. Well(Told(EndReplay(replay, io)))
    BY EndsWell, ToldWell
  <2> QED
    BY <1>10, <2>1, LoaderTypes DEF CallEndReplay, baseVars, Well
<1>11. ASSUME Load /\ UNCHANGED baseVars PROVE IInv'
  BY <1>11, PlansAssumption DEF Load, baseVars, Loaders
<1>12. CASE UNCHANGED <<replayVars, baseVars>>
  BY <1>12 DEF replayVars, baseVars
<1> QED
  BY <1>1, <1>2, <1>4, <1>5, <1>6, <1>7, <1>8, <1>9, <1>10, <1>11, <1>12 DEF ReplayNext

\* Every variable of the replay engine keeps its type, for every bound on the
\* request ids and every set of plans.
THEOREM ReplayTypeCorrect == ReplaySpec => []ReplayTypeOK
<1>1. IInv => ReplayTypeOK
  BY DEF IInv
<1> QED
  BY <1>1, TypeInit, TypeStep, PTL DEF ReplaySpec

-----------------------------------------------------------------------------
(* What the calls change *)

\* The fields Owned reads, and those the loader's invariant reads.
SameWork(q, r) ==
    /\ q.pending = r.pending /\ q.halts = r.halts /\ q.warp = r.warp
    /\ q.stopSent = r.stopSent /\ q.submitted = r.submitted

SameStage(q, r) == q.phase = r.phase /\ q.stopping = r.stopping

\* finish() leaves no run.
LEMMA FinishRun == ASSUME NEW p, Well(p) PROVE Finish(p).run = NoRun
BY DEF Finish, Well, Replays

\* Naming the cause changes neither what a run owns nor where it is.
LEMMA BlockSame ==
    ASSUME NEW run \in Runs, NEW code \in Codes
    PROVE  SameWork(Block(run, code), run) /\ SameStage(Block(run, code), run)
BY DEF Block, Runs, SameWork, SameStage

\* Starting to submit changes nothing a run owns.
LEMMA RunningSame ==
    ASSUME NEW run \in Runs, NEW plan
    PROVE  SameWork(Running(run, plan), run)
BY DEF Running, Runs, SameWork

\* WithRun replaces the run.
LEMMA WithRunIs == ASSUME NEW p, Well(p), NEW run PROVE WithRun(p, run).run = run
BY DEF WithRun, Well, Replays

\* A command that goes out becomes pending, as the halt or as the warp of its
\* run or as neither.
LEMMA SubmittedRun ==
    ASSUME NEW p, Well(p), IsBusy(p), NEW id \in NormalIds, NEW earlier \in BOOLEAN,
           HaltsWarp(p.run) \/ FreesPlan(p.run, earlier)
    PROVE  LET q == Submitted(Taken(p), id, NextKind(p.run)).run IN
           /\ SameStage(q, p.run)
           /\ q.pending = p.run.pending \cup {id}
           /\ HaltsWarp(p.run) => /\ q.halts = p.run.halts \cup {id}
                                  /\ q.warp = p.run.warp /\ q.stopSent
           /\ ~HaltsWarp(p.run) => /\ q.halts = p.run.halts /\ q.stopSent = p.run.stopSent
                                   /\ \/ q.warp = p.run.warp
                                      \/ q.warp = id /\ p.run.pending = {}
           /\ q.submitted # << >>
<1>. DEFINE took == Taken(p).run
            kind == NextKind(p.run)
            halt == IsHalting(took) /\ kind = "warpStop"
            sent == [id |-> id, outcome |-> "open", kind |-> IF halt THEN "halt" ELSE kind]
            q    == Submitted(Taken(p), id, kind).run
<1>1. p \in Replays /\ p.run \in Runs /\ Taken(p) \in Replays /\ took \in Runs
  BY SubmittedWell DEF Well, Replays
<1>2. /\ q.phase = took.phase /\ q.stopping = took.stopping /\ q.stopSent = took.stopSent
      /\ q.pending = took.pending \cup {id}
      /\ q.halts = IF halt THEN took.halts \cup {id} ELSE took.halts
      /\ q.warp = IF kind = "warp" THEN id ELSE took.warp
      /\ q.submitted = Append(took.submitted, sent)
  BY <1>1 DEF Submitted, Replays, Runs
<1>3. /\ SameStage(took, p.run) /\ took.pending = p.run.pending
      /\ took.halts = p.run.halts /\ took.warp = p.run.warp
      /\ took.blocked = p.run.blocked
      /\ took.stopSent = (IsHalting(p.run) \/ p.run.stopSent)
  BY ZenonT(40), <1>1 DEF Taken, Replays, Runs, SameStage
<1>4. IsHalting(took) <=> IsHalting(p.run)
  BY <1>3 DEF IsHalting, SameStage
<1>5. q.submitted # << >>
  <2>1. took.submitted \in Seq(Submissions)
    BY <1>1 DEF Runs
  <2>2. Len(Append(took.submitted, sent)) = Len(took.submitted) + 1
    BY <2>1
  <2> QED
    BY <1>2, <2>1, <2>2
<1>6. CASE HaltsWarp(p.run)
  BY <1>2, <1>3, <1>4, <1>5, <1>6 DEF HaltsWarp, NextKind, SameStage
<1>7. CASE ~HaltsWarp(p.run)
  <2>1. ~IsHalting(p.run) /\ kind = Head(p.run.plan)
    BY <1>7 DEF FreesPlan, NextKind
  <2>2. took.stopSent = p.run.stopSent
    BY <1>1, <1>3, <2>1 DEF Runs
  <2>3. q.warp = p.run.warp \/ (q.warp = id /\ p.run.pending = {})
    BY <1>2, <1>3, <1>7, <2>1 DEF FreesPlan
  <2>4. q.halts = p.run.halts /\ q.pending = p.run.pending \cup {id}
    BY <1>2, <1>3, <1>4, <2>1
  <2>5. SameStage(q, p.run) /\ q.stopSent = p.run.stopSent
    BY <1>2, <1>3, <2>2 DEF SameStage
  <2> QED
    BY <1>5, <1>7, <2>3, <2>4, <2>5
<1> QED
  BY <1>6, <1>7

\* A settled command is no longer pending, unless its run ended with it.
LEMMA TerminalRun ==
    ASSUME NEW p, Well(p), IsBusy(p), NEW id \in p.run.pending, NEW outcome \in Settled
    PROVE  LET q == RunTerminal(p, id, outcome).run IN
           \/ q = NoRun
           \/ /\ SameStage(q, p.run)
              /\ q.pending = p.run.pending \ {id} /\ q.halts = p.run.halts \ {id}
              /\ q.warp = (IF p.run.warp = id THEN 0 ELSE p.run.warp)
              /\ q.stopSent = p.run.stopSent
              /\ q.submitted = << >> => p.run.submitted = << >>
<1>. DEFINE halt == id \in p.run.halts
            code == CodeOf(outcome, halt)
            after == RunSettled(p.run, id, outcome)
            settled == WithRun(p, after)
            blocked == WithRun(settled, Block(after, code))
<1>1. p.run \in Runs /\ after \in Runs /\ code \in Codes
  BY SettledType DEF Well, Replays, CodeOf, Codes
<1>2. /\ SameStage(after, p.run)
      /\ after.pending = p.run.pending \ {id} /\ after.halts = p.run.halts \ {id}
      /\ after.warp = (IF p.run.warp = id THEN 0 ELSE p.run.warp)
      /\ after.stopSent = p.run.stopSent
      /\ after.submitted = WithOutcome(p.run.submitted, id, outcome)
  BY <1>1 DEF RunSettled, Runs, SameStage
<1>3. after.submitted = << >> => p.run.submitted = << >>
  <2>1. p.run.submitted \in Seq(Submissions)
    BY <1>1 DEF Runs
  <2>2. /\ DOMAIN p.run.submitted = 1 .. Len(p.run.submitted)
        /\ DOMAIN WithOutcome(p.run.submitted, id, outcome) = DOMAIN p.run.submitted
    BY <2>1 DEF WithOutcome
  <2>3. WithOutcome(p.run.submitted, id, outcome) = << >> => Len(p.run.submitted) = 0
    <3>1. DOMAIN << >> = {}
      OBVIOUS
    <3>2. Len(p.run.submitted) \in Nat
      BY <2>1
    <3> QED
      BY <2>2, <3>1, <3>2
  <2> QED
    BY <1>2, <2>1, <2>3, EmptySeq
<1>4. Well(settled) /\ IsBusy(settled) /\ settled.run = after
  <2>1. after.start = p.run.start /\ after.phase # "idle"
    BY <1>1, <1>2 DEF RunSettled, Runs, SameStage, IsBusy
  <2> QED
    BY <1>1, <2>1, WithRunWell, WithRunIs DEF IsBusy
<1>5. blocked.run = Block(after, code) /\ Well(blocked)
  <2>1. Block(after, code) \in Runs /\ Block(after, code).start = after.start
    BY <1>1, BlockType DEF Block, Runs
  <2>2. Block(after, code).phase # "idle"
    BY <1>1, <1>4, BlockSame DEF SameStage, IsBusy
  <2> QED
    BY <1>4, <2>1, <2>2, WithRunWell, WithRunIs
<1>6. SameWork(Block(after, code), after) /\ SameStage(Block(after, code), after)
  BY <1>1, BlockSame
<1>7. RunTerminal(p, id, outcome) \in {settled, blocked, Finish(blocked)}
  <2>1. /\ settled = [p EXCEPT !.run = RunSettled(@, id, outcome)]
        /\ blocked = [settled EXCEPT !.run = Block(@, code)]
    BY <1>4 DEF WithRun, Well, Replays
  <2> QED
    BY <2>1 DEF RunTerminal
<1>8. CASE RunTerminal(p, id, outcome) = settled
  BY <1>2, <1>3, <1>4, <1>8
<1>9. CASE RunTerminal(p, id, outcome) = blocked
  BY <1>2, <1>3, <1>5, <1>6, <1>9 DEF SameWork, SameStage
<1>10. CASE RunTerminal(p, id, outcome) = Finish(blocked)
  BY <1>5, <1>10, FinishRun
<1> QED
  BY <1>7, <1>8, <1>9, <1>10

\* poll() starts no command and settles none.
LEMMA PolledRun ==
    ASSUME NEW p, Well(p), NEW l \in Loaders, NEW barrier \in BOOLEAN
    PROVE  LET q == Polled(p, l, barrier).run IN
           /\ q = NoRun \/ SameWork(q, p.run)
           /\ \/ q.phase \in {"idle", "running"}
              \/ q.phase = "preparing" /\ StartsLoading(p.run, barrier)
              \/ q = p.run /\ ~StartsLoading(p.run, barrier)
                  /\ (p.run.phase = "preparing" => l.at \in {"none", "loading"})
              \/ q.phase = "panicked" /\ p.run.phase = "preparing"
                   /\ l.at = "cancelled" /\ ~p.run.stopping
<1>. DEFINE w == Waited(p, l, barrier)
            q == Polled(p, l, barrier).run
<1>1. p.run \in Runs /\ Well(w) /\ w.run \in Runs
  BY WaitedWell DEF Well, Replays
<1>2. /\ w.run = NoRun \/ SameWork(w.run, p.run)
      /\ \/ w.run.phase \in {"idle", "running"}
         \/ w.run.phase = "preparing" /\ StartsLoading(p.run, barrier)
         \/ w.run = p.run /\ ~StartsLoading(p.run, barrier)
             /\ (p.run.phase = "preparing" => l.at \in {"none", "loading"})
         \/ w.run.phase = "panicked" /\ p.run.phase = "preparing"
              /\ l.at = "cancelled" /\ ~p.run.stopping
  <2>1. CASE p.run.phase = "waiting" /\ p.run.stopping
    <3>1. w.run = Running(p.run, << >>)
      BY <2>1 DEF Waited, Well, Replays
    <3>2. << >> \in Seq(GameKinds)
      BY EmptySeq
    <3>3. SameWork(Running(p.run, << >>), p.run) /\ Running(p.run, << >>).phase = "running"
      BY <1>1, <3>2, RunningSame, RunningType
    <3> QED
      BY <3>1, <3>3
  <2>2. CASE StartsLoading(p.run, barrier)
    <3>1. w.run = [p.run EXCEPT !.phase = "preparing"]
      BY <2>2 DEF Waited, StartsLoading, Well, Replays
    <3> QED
      BY <1>1, <2>2, <3>1 DEF SameWork, Runs
  <2>3. CASE ~(p.run.phase = "waiting" /\ p.run.stopping) /\ ~StartsLoading(p.run, barrier)
    <3>1. w = Loaded(p, l)
      BY <2>3 DEF Waited
    <3>2. CASE p.run.phase # "preparing" \/ l.at \in {"none", "loading"}
      BY <2>3, <3>1, <3>2 DEF Loaded, SameWork
    <3>3. CASE p.run.phase = "preparing" /\ l.at = "lost"
      <4>. DEFINE lost == Block(p.run, "session_io_failed")
      <4>1. w.run = Running(lost, << >>)
        BY <3>1, <3>3 DEF Loaded, Well, Replays
      <4>2. "session_io_failed" \in Codes
        BY DEF Codes
      <4>3. lost \in Runs /\ SameWork(lost, p.run)
        BY <1>1, <4>2, BlockType, BlockSame
      <4>4. SameWork(w.run, lost) /\ w.run.phase = "running"
        BY <4>1, <4>3, RunningSame, RunningType, EmptySeq
      <4> QED
        BY <4>3, <4>4 DEF SameWork
    <3>4. CASE p.run.phase = "preparing" /\ l.at \in {"plan", "error", "cancelled"}
               /\ p.run.stopping
      <4>1. w.run = Running(p.run, << >>)
        BY <3>1, <3>4 DEF Loaded, Well, Replays
      <4>2. << >> \in Seq(GameKinds)
        BY EmptySeq
      <4>3. SameWork(Running(p.run, << >>), p.run) /\ Running(p.run, << >>).phase = "running"
        BY <1>1, <4>2, RunningSame, RunningType
      <4> QED
        BY <4>1, <4>3
    <3>5. CASE p.run.phase = "preparing" /\ l.at = "plan" /\ ~p.run.stopping
      <4>1. w.run = Running(p.run, l.plan) /\ l.plan \in Seq(GameKinds)
        BY <3>1, <3>5 DEF Loaded, Well, Replays, Loaders
      <4> QED
        BY <1>1, <4>1, RunningSame, RunningType
    <3>6. CASE p.run.phase = "preparing" /\ l.at = "error" /\ ~p.run.stopping
      <4>1. w.run = NoRun
        BY <3>1, <3>6 DEF Loaded, Well, Replays
      <4> QED
        BY <4>1 DEF NoRun
    <3>7. CASE p.run.phase = "preparing" /\ l.at = "cancelled" /\ ~p.run.stopping
      <4>1. w.run = [p.run EXCEPT !.phase = "panicked"]
        BY <3>1, <3>7 DEF Loaded, Well, Replays
      <4> QED
        BY <1>1, <3>7, <4>1 DEF SameWork, Runs
    <3> QED
      BY <3>2, <3>3, <3>4, <3>5, <3>6, <3>7 DEF Loaders
  <2> QED
    BY <2>1, <2>2, <2>3
<1>3. CASE MayFinish(w.run)
  BY <1>1, <1>3, FinishRun DEF Polled, NoRun
<1>4. CASE ~MayFinish(w.run)
  BY <1>2, <1>4 DEF Polled
<1> QED
  BY <1>3, <1>4

\* The remaining calls, and next() without ids.
LEMMA ControlRuns ==
    ASSUME NEW p, Well(p), NEW id \in NormalIds
    PROVE  /\ \/ ControlStart(p, id).run = p.run
              \/ /\ ControlStart(p, id).run.phase = "waiting"
                 /\ SameWork(ControlStart(p, id).run, NoRun)
           /\ SameWork(ControlStop(p, id).run, p.run)
           /\ ControlStop(p, id).run.phase = p.run.phase
           /\ IsBusy(p) => ControlStop(p, id).run.stopping
<1>1. p \in Replays /\ p.run \in Runs
  BY DEF Well, Replays
<1>2. \/ ControlStart(p, id).run = p.run
      \/ /\ ControlStart(p, id).run.phase = "waiting"
         /\ SameWork(ControlStart(p, id).run, NoRun)
  <2>1. \/ ControlStart(p, id).run = p.run
        \/ ControlStart(p, id).run = [NoRun EXCEPT !.phase = "waiting", !.start = id]
    BY <1>1 DEF ControlStart, Replays
  <2> QED
    BY <2>1 DEF SameWork, NoRun
<1>3. /\ SameWork(ControlStop(p, id).run, p.run)
      /\ ControlStop(p, id).run.phase = p.run.phase
      /\ IsBusy(p) => ControlStop(p, id).run.stopping
  BY <1>1 DEF ControlStop, Replays, Runs, SameWork
<1> QED
  BY <1>2, <1>3

\* Handing the notices over does not touch the run.
LEMMA ToldRun == ASSUME NEW p, Well(p) PROVE Told(p).run = p.run
BY DEF Told, Well, Replays

\* end() leaves no run behind.
LEMMA EndRun ==
    ASSUME NEW p, Well(p), NEW io \in BOOLEAN
    PROVE  /\ Told(EndReplay(p, io)).run = EndReplay(p, io).run
           /\ EndReplay(p, io).run = NoRun \/ (EndReplay(p, io).run = p.run /\ ~IsBusy(p))
<1>1. CASE IsBusy(p)
  <2>1. EndReplay(p, io).run = NoRun
    BY <1>1 DEF EndReplay, Finish, Well, Replays
  <2> QED
    BY <2>1, EndsWell, ToldRun
<1>2. CASE ~IsBusy(p)
  BY <1>2, ToldRun DEF EndReplay
<1> QED
  BY <1>1, <1>2

\* Without ids a run ends, or goes on with what it owns.
LEMMA ExhaustedRun ==
    ASSUME NEW p, Well(p), IsBusy(p)
    PROVE  LET q == SubmissionFailed(Taken(p)).run IN
           \/ q = NoRun
           \/ /\ SameStage(q, p.run) /\ q.submitted = p.run.submitted
              /\ q.pending = p.run.pending /\ q.halts = p.run.halts /\ q.warp = p.run.warp
              /\ p.run.stopSent => q.stopSent
<1>. DEFINE took    == Taken(p)
            blocked == [took EXCEPT !.run = Block(@, "request_id_exhausted")]
<1>1. p \in Replays /\ p.run \in Runs
  BY DEF Well, Replays
<1>2. /\ took.run = IF IsHalting(p.run) THEN [p.run EXCEPT !.stopSent = TRUE]
                                        ELSE [p.run EXCEPT !.plan = Tail(@)]
      /\ blocked.run = Block(took.run, "request_id_exhausted")
      /\ Finish(blocked).run = NoRun
  BY <1>1 DEF Taken, Replays, Finish
<1>3. SubmissionFailed(took) \in {blocked, Finish(blocked)}
  BY DEF SubmissionFailed
<1>4. /\ SameStage(took.run, p.run) /\ took.run.submitted = p.run.submitted
      /\ took.run.pending = p.run.pending /\ took.run.halts = p.run.halts
      /\ took.run.warp = p.run.warp /\ (p.run.stopSent => took.run.stopSent)
  BY <1>1, <1>2 DEF Runs, SameStage
<1>5. /\ SameStage(blocked.run, took.run) /\ SameWork(blocked.run, took.run)
  <2>1. took.run = [took.run EXCEPT !.blocked = took.run.blocked]
    BY <1>1, <1>2 DEF Runs
  <2> QED
    BY <1>1, <1>2 DEF Block, Runs, SameStage, SameWork
<1> QED
  BY <1>2, <1>3, <1>4, <1>5 DEF SameStage, SameWork

-----------------------------------------------------------------------------
(* The loader *)

\* A loader that prepares and was cancelled belongs to a stopped run.
LoaderInv ==
    /\ replay.run.phase # "panicked"
    /\ replay.run.phase = "preparing" /\ (loader.cancel \/ loader.at = "cancelled")
         => replay.run.stopping

\* Every step keeps the invariant of the loader.
LEMMA LoadKeeps ==
    IInv /\ LoaderInv /\ [ReplayNext]_<<replayVars, baseVars>> => LoaderInv'
<1>. SUFFICES ASSUME IInv, LoaderInv, [ReplayNext]_<<replayVars, baseVars>>
     PROVE LoaderInv'
  OBVIOUS
<1>0. Well(replay) /\ loader \in Loaders /\ replay.run \in Runs
  BY DEF IInv, ReplayTypeOK, Well, Replays
<1>1. ASSUME NEW id \in NormalIds, CallReplayStart(id) PROVE LoaderInv'
  <2>1. replay'.run = replay.run \/ replay'.run.phase = "waiting"
    BY <1>0, <1>1, ControlRuns DEF CallReplayStart
  <2> QED
    BY <1>1, <2>1 DEF CallReplayStart, LoaderInv
<1>2. ASSUME NEW id \in NormalIds, CallReplayStop(id) PROVE LoaderInv'
  <2>1. replay'.run.phase = replay.run.phase /\ (IsBusy(replay) => replay'.run.stopping)
    BY <1>0, <1>2, ControlRuns DEF CallReplayStop
  <2> QED
    BY <2>1 DEF LoaderInv, IsBusy
<1>3. ASSUME NEW id \in NormalIds, CallNext(id) PROVE LoaderInv'
  <2>1. SameStage(replay'.run, replay.run)
    BY <1>0, <1>3, SubmittedRun DEF CallNext, Frees, Earlier, FromReplay
  <2> QED
    BY <1>3, <2>1 DEF CallNext, LoaderInv, SameStage
<1>4. ASSUME NEW id \in NormalIds, CallNextFailed(id) PROVE LoaderInv'
  <2>1. /\ SameStage(FromReplay(id).run, replay.run) /\ id \in FromReplay(id).run.pending
        /\ Well(FromReplay(id)) /\ IsBusy(FromReplay(id))
    BY ZenonT(40), <1>0, <1>4, SubmittedRun, SubmittedWell DEF CallNextFailed, Frees, Earlier, FromReplay
  <2>2. replay'.run = NoRun \/ SameStage(replay'.run, replay.run)
    BY <1>4, <2>1, TerminalRun DEF CallNextFailed, Settled, SameStage
  <2> QED
    BY <1>4, <2>2 DEF CallNextFailed, LoaderInv, SameStage, NoRun
<1>5. ASSUME CallNextExhausted PROVE LoaderInv'
  <2>1. replay'.run = NoRun \/ SameStage(replay'.run, replay.run)
    BY <1>0, <1>5, ExhaustedRun DEF CallNextExhausted, Frees
  <2> QED
    BY <1>5, <2>1 DEF CallNextExhausted, LoaderInv, SameStage, NoRun
<1>6. ASSUME NEW id \in Ids, NEW outcome \in Answers, CallAnswer(id, outcome)
      PROVE  LoaderInv'
  <2>1. CASE IsBusy(replay) /\ id \in replay.run.pending
    <3>1. replay'.run = NoRun \/ SameStage(replay'.run, replay.run)
      BY <1>0, <1>6, <2>1, TerminalRun DEF CallAnswer, Settled
    <3> QED
      BY <1>6, <3>1 DEF CallAnswer, LoaderInv, SameStage, NoRun
  <2>2. CASE ~(IsBusy(replay) /\ id \in replay.run.pending)
    BY <1>0, <1>6, <2>2 DEF CallAnswer, RunTerminal, LoaderInv, Well
  <2> QED
    BY <2>1, <2>2
<1>7. ASSUME NEW id \in Ids, CallExternal(id) \/ CallExternalFailed(id) PROVE LoaderInv'
  BY <1>7 DEF CallExternal, CallExternalFailed, replayVars, LoaderInv
<1>8. ASSUME NEW barrier \in BOOLEAN, CallPoll(barrier) PROVE LoaderInv'
  <2>. DEFINE polled == Polled(replay, loader, barrier)
  <2>1. replay'.run = polled.run
    BY <1>0, <1>8, PolledWell, ToldRun DEF CallPoll
  <2>2. \/ polled.run.phase \in {"idle", "running"}
        \/ polled.run.phase = "preparing" /\ StartsLoading(replay.run, barrier)
        \/ polled.run = replay.run /\ ~StartsLoading(replay.run, barrier)
            /\ (replay.run.phase = "preparing" => loader.at \in {"none", "loading"})
        \/ polled.run.phase = "panicked" /\ replay.run.phase = "preparing"
             /\ loader.at = "cancelled" /\ ~replay.run.stopping
    BY <1>0, <1>8, PolledRun
  <2>3. CASE polled.run.phase = "preparing" /\ StartsLoading(replay.run, barrier)
    BY <1>8, <2>1, <2>3 DEF CallPoll, LoaderAfter, NoLoader, LoaderInv
  <2>4. CASE polled.run = replay.run /\ ~StartsLoading(replay.run, barrier)
              /\ (replay.run.phase = "preparing" => loader.at \in {"none", "loading"})
    <3>1. loader' \in {loader, NoLoader}
      BY <1>8, <2>4 DEF CallPoll, LoaderAfter
    <3> QED
      BY <2>1, <2>4, <3>1 DEF LoaderInv, NoLoader
  <2> QED
    BY <2>1, <2>2, <2>3, <2>4 DEF LoaderInv
<1>9. ASSUME NEW io \in BOOLEAN, CallEndReplay(io) PROVE LoaderInv'
  <2>. DEFINE ended == EndReplay(replay, io)
  <2>1. /\ replay'.run = ended.run
        /\ ended.run = NoRun \/ (ended.run = replay.run /\ ~IsBusy(replay))
    BY <1>0, <1>9, EndRun DEF CallEndReplay
  <2> QED
    BY <2>1 DEF LoaderInv, NoRun, IsBusy
<1>10. ASSUME Load /\ UNCHANGED baseVars PROVE LoaderInv'
  <2>1. replay' = replay /\ loader'.cancel = loader.cancel
        /\ (loader'.at = "cancelled" => loader.cancel)
    BY <1>0, <1>10 DEF Load, Loaders
  <2> QED
    BY <2>1 DEF LoaderInv
<1>11. CASE UNCHANGED <<replayVars, baseVars>>
  BY <1>11 DEF replayVars, LoaderInv
<1> QED
  BY <1>1, <1>2, <1>3, <1>4, <1>5, <1>6, <1>7, <1>8, <1>9, <1>10, <1>11 DEF ReplayNext

(***************************************************************************)
(* poll() meets the cancelled answer of a loader only when a stop asked    *)
(* for it, whatever the loader does and however late it sees the flag: the *)
(* unreachable!() in session/replay.rs is unreachable.                     *)
(***************************************************************************)
THEOREM OnlyStopCancels == ReplaySpec => []CancelOnlyByStop
<1>1. ReplayInit => LoaderInv
  BY DEF ReplayInit, LoaderInv, NewReplay, NoRun
<1>2. LoaderInv => CancelOnlyByStop
  BY DEF LoaderInv, CancelOnlyByStop
<1> QED
  BY <1>1, <1>2, TypeInit, TypeStep, LoadKeeps, PTL DEF ReplaySpec

-----------------------------------------------------------------------------
(* The warp barrier *)

\* Which commands a run may own when open is what is open at the game.
Owned(run, open) ==
    /\ run.halts \subseteq run.pending /\ run.pending \subseteq open
    /\ run.warp # 0 => run.warp \in run.pending /\ open = {run.warp} \cup run.halts
    /\ ~run.stopSent => run.halts = {}
    /\ \E id : run.halts \subseteq {id}
    /\ run.submitted = << >> => run.pending = {}

\* No run owns nothing.
LEMMA NoRunOwned == ASSUME NEW open PROVE Owned(NoRun, open)
BY DEF Owned, NoRun

\* A step that submits and settles nothing keeps what a run may own.
LEMMA SameOwned ==
    ASSUME NEW run, NEW open, Owned(run, open), NEW q, q = NoRun \/ SameWork(q, run)
    PROVE  Owned(q, open)
<1>1. CASE q = NoRun
  BY <1>1, NoRunOwned
<1>2. CASE SameWork(q, run)
  BY <1>2 DEF Owned, SameWork
<1> QED
  BY <1>1, <1>2

\* A command of the run goes out: the only one if it is a warp.
LEMMA SubmittedOwned ==
    ASSUME NEW p, Well(p), IsBusy(p), NEW open, Owned(p.run, open), NEW id \in NormalIds,
           HaltsWarp(p.run) \/ FreesPlan(p.run, open \ p.run.pending # {})
    PROVE  LET q == Submitted(Taken(p), id, NextKind(p.run)).run IN
           /\ Owned(q, open \cup {id})
           /\ q.warp \in {0, id} \/ open = {q.warp}
           /\ q.halts \subseteq {id} \/ q.warp = 0
<1>. DEFINE run == p.run
            q   == Submitted(Taken(p), id, NextKind(p.run)).run
<1>1. /\ q.pending = run.pending \cup {id}
      /\ HaltsWarp(run) => /\ q.halts = run.halts \cup {id}
                           /\ q.warp = run.warp /\ q.stopSent
      /\ ~HaltsWarp(run) => /\ q.halts = run.halts /\ q.stopSent = run.stopSent
                            /\ q.warp = run.warp \/ (q.warp = id /\ run.pending = {})
      /\ q.submitted # << >>
  BY SubmittedRun
<1>. HIDE DEF q
<1>2. CASE HaltsWarp(run)
  <2>1. run.halts = {} /\ run.warp # 0 /\ open = {run.warp} /\ run.warp \in run.pending
    BY <1>2 DEF HaltsWarp, Owned
  <2>2. /\ q.pending = run.pending \cup {id} /\ q.halts = {id}
        /\ q.warp = run.warp /\ q.stopSent /\ q.submitted # << >>
    BY <1>1, <1>2, <2>1
  <2>3. Owned(q, open \cup {id})
    BY <2>1, <2>2 DEF Owned
  <2> QED
    BY <2>1, <2>2, <2>3 DEF q
<1>3. CASE ~HaltsWarp(run)
  <2>1. run.warp = 0 /\ open = run.pending
    BY <1>3 DEF FreesPlan, Owned
  <2>2. /\ q.pending = run.pending \cup {id} /\ q.halts = run.halts
        /\ q.warp = 0 \/ (q.warp = id /\ run.pending = {})
        /\ q.stopSent = run.stopSent /\ q.submitted # << >>
    BY <1>1, <1>3, <2>1
  <2>3. run.pending = {} => run.halts = {}
    BY DEF Owned
  <2>4. Owned(q, open \cup {id})
    BY <2>1, <2>2, <2>3 DEF Owned
  <2> QED
    BY <2>2, <2>3, <2>4 DEF q
<1> QED
  BY <1>2, <1>3

WarpInv == Owned(replay.run, active)

\* Every step keeps the warp invariant.
LEMMA WarpStep ==
    IInv /\ WarpInv /\ [ReplayNext]_<<replayVars, baseVars>> => WarpInv'
<1>. SUFFICES ASSUME IInv, WarpInv, [ReplayNext]_<<replayVars, baseVars>> PROVE WarpInv'
  OBVIOUS
<1>. USE DEF WarpInv
<1>0. Well(replay) /\ loader \in Loaders /\ replay.run \in Runs
  BY DEF IInv, ReplayTypeOK, Well, Replays
<1>1. ASSUME NEW id \in NormalIds, CallReplayStart(id) PROVE WarpInv'
  <2>1. Owned(replay'.run, active)
    <3>1. CASE SameWork(replay'.run, NoRun)
      BY <3>1, NoRunOwned, SameOwned
    <3>2. CASE replay'.run = replay.run
      BY <3>2
    <3> QED
      BY <1>0, <1>1, <3>1, <3>2, ControlRuns DEF CallReplayStart
  <2> QED
    BY <1>1, <2>1 DEF CallReplayStart, baseVars
<1>2. ASSUME NEW id \in NormalIds, CallReplayStop(id) PROVE WarpInv'
  BY <1>0, <1>2, ControlRuns, SameOwned DEF CallReplayStop, baseVars
<1>3. ASSUME NEW id \in NormalIds, Frees
      PROVE  LET q == FromReplay(id).run IN
             /\ Owned(q, active \cup {id})
             /\ q.warp \in {0, id} \/ active = {q.warp}
             /\ q.halts \subseteq {id} \/ q.warp = 0
  BY <1>0, <1>3, SubmittedOwned DEF Frees, Earlier, FromReplay
<1>4. ASSUME NEW id \in NormalIds, CallNext(id) PROVE WarpInv'
  BY <1>3, <1>4 DEF CallNext
<1>5. ASSUME NEW id \in NormalIds, CallNextFailed(id) PROVE WarpInv'
  <2>. DEFINE sent == FromReplay(id).run
  <2>0. Frees
    BY <1>5 DEF CallNextFailed
  <2>1. /\ Owned(sent, active \cup {id})
        /\ sent.warp \in {0, id} \/ active = {sent.warp}
        /\ sent.halts \subseteq {id} \/ sent.warp = 0
        /\ id \in sent.pending /\ Well(FromReplay(id)) /\ IsBusy(FromReplay(id))
    <3>1. id \in sent.pending
      BY ZenonT(40), <1>0, <2>0, SubmittedRun DEF Frees, Earlier, FromReplay
    <3>2. Well(FromReplay(id)) /\ IsBusy(FromReplay(id))
      BY <1>0, <2>0, SubmittedWell DEF Frees, Earlier, FromReplay
    <3> QED
      BY <1>3, <2>0, <3>1, <3>2
  <2>2. \/ replay'.run = NoRun
        \/ /\ replay'.run.pending = sent.pending \ {id}
           /\ replay'.run.halts = sent.halts \ {id}
           /\ replay'.run.warp = (IF sent.warp = id THEN 0 ELSE sent.warp)
           /\ replay'.run.stopSent = sent.stopSent
           /\ replay'.run.submitted = << >> => sent.submitted = << >>
    BY <1>5, <2>1, TerminalRun DEF CallNextFailed, Settled
  <2>. HIDE DEF sent
  <2>3. Owned(replay'.run, active)
    BY <2>1, <2>2, NoRunOwned DEF Owned
  <2> QED
    BY <1>5, <2>3 DEF CallNextFailed
<1>6. ASSUME CallNextExhausted PROVE WarpInv'
  <2>1. Owned(replay'.run, active)
    BY <1>0, <1>6, ExhaustedRun, NoRunOwned DEF CallNextExhausted, Frees, Owned
  <2> QED
    BY <1>6, <2>1 DEF CallNextExhausted, baseVars
<1>7. ASSUME NEW id \in Ids, NEW outcome \in Answers, CallAnswer(id, outcome)
      PROVE  WarpInv'
  <2>1. CASE id \in replay.run.pending
    <3>1. IsBusy(replay)
      BY <1>0, <2>1 DEF Well
    <3>2. \/ replay'.run = NoRun
          \/ /\ replay'.run.pending = replay.run.pending \ {id}
             /\ replay'.run.halts = replay.run.halts \ {id}
             /\ replay'.run.warp = (IF replay.run.warp = id THEN 0 ELSE replay.run.warp)
             /\ replay'.run.stopSent = replay.run.stopSent
             /\ replay'.run.submitted = << >> => replay.run.submitted = << >>
      BY <1>0, <1>7, <2>1, <3>1, TerminalRun DEF CallAnswer, Settled
    <3>3. Owned(replay'.run, active \ {id})
      BY <3>2, NoRunOwned DEF Owned
    <3> QED
      BY <1>7, <3>3 DEF CallAnswer
  <2>2. CASE id \notin replay.run.pending
    <3>1. replay' = replay
      BY <1>7, <2>2 DEF CallAnswer, RunTerminal
    <3>2. Owned(replay.run, active \ {id})
      BY <1>7, <2>2 DEF CallAnswer, Owned
    <3> QED
      BY <1>7, <3>1, <3>2 DEF CallAnswer
  <2> QED
    BY <2>1, <2>2
<1>8. ASSUME NEW id \in Ids, CallExternal(id) \/ CallExternalFailed(id) PROVE WarpInv'
  BY <1>8 DEF CallExternal, CallExternalFailed, replayVars, Owned
<1>9. ASSUME NEW barrier \in BOOLEAN, CallPoll(barrier) PROVE WarpInv'
  <2>1. replay'.run = Polled(replay, loader, barrier).run
    BY <1>0, <1>9, PolledWell, ToldRun DEF CallPoll
  <2>2. replay'.run = NoRun \/ SameWork(replay'.run, replay.run)
    BY <1>0, <1>9, <2>1, PolledRun
  <2> QED
    BY <1>9, <2>2, SameOwned DEF CallPoll, baseVars
<1>10. ASSUME NEW io \in BOOLEAN, CallEndReplay(io) PROVE WarpInv'
  <2>1. replay'.run = NoRun \/ replay'.run = replay.run
    BY <1>0, <1>10, EndRun DEF CallEndReplay
  <2> QED
    BY <1>10, <2>1, NoRunOwned DEF CallEndReplay, baseVars
<1>11. CASE Load /\ UNCHANGED baseVars
  BY <1>11 DEF Load, baseVars
<1>12. CASE UNCHANGED <<replayVars, baseVars>>
  BY <1>12 DEF replayVars, baseVars
<1> QED
  BY <1>1, <1>2, <1>4, <1>5, <1>6, <1>7, <1>8, <1>9, <1>10, <1>11, <1>12 DEF ReplayNext

\* The warp invariant is strong enough for the barrier.
LEMMA WarpAlone == WarpInv => WarpRunsAlone
<1>. SUFFICES ASSUME WarpInv PROVE WarpRunsAlone
  OBVIOUS
<1>1. PICK id : replay.run.halts \subseteq {id}
  BY DEF WarpInv, Owned
<1>2. Cardinality(replay.run.halts) <= 1
  <2>1. CASE replay.run.halts = {}
    BY <2>1, FS_EmptySet
  <2>2. CASE replay.run.halts = {id}
    <3>1. Cardinality({id}) = 1
      BY FS_Singleton
    <3> QED
      BY <2>2, <3>1
  <2>3. replay.run.halts = {} \/ replay.run.halts = {id}
    BY <1>1
  <2> QED
    BY <2>1, <2>2, <2>3
<1> QED
  BY <1>2 DEF WarpInv, Owned, WarpRunsAlone, PendingIsOpen

(***************************************************************************)
(* While a warp of a replay executes, the game works on nothing else but   *)
(* the one internal stop of that warp, and every command a run owns is     *)
(* open at the game: under any caller that keeps the coordinator's         *)
(* discipline, with failing writes, exhausted ids, stops and the end of    *)
(* the session at any point.                                               *)
(***************************************************************************)
THEOREM WarpIsABarrier == ReplaySpec => []WarpRunsAlone
<1>1. ReplayInit => WarpInv
  BY NoRunOwned DEF ReplayInit, WarpInv, NewReplay
<1> QED
  BY <1>1, TypeInit, TypeStep, WarpStep, WarpAlone, PTL DEF ReplaySpec

-----------------------------------------------------------------------------
(***************************************************************************)
(* The control commands stand in one line: those that were answered, those *)
(* whose answer waits for the next poll(), and those that wait for the     *)
(* run, its start before its stops.  finish() and poll() move the borders  *)
(* in that line, and nothing else.                                         *)
(***************************************************************************)
Noted(notices) == [i \in DOMAIN notices |-> notices[i].id]
Waiting(p) == IF IsBusy(p) THEN <<p.run.start>> \o p.run.stops ELSE << >>
Line(p)    == (Noted(p.told) \o Noted(p.notices)) \o Waiting(p)

Distinct(s) == \A i, j \in 1 .. Len(s) : s[i] = s[j] => i = j

\* A replay without a run remembers nothing of one, and only a stopped run has stops.
Orderly(p) ==
    /\ ~IsBusy(p) => p.run = NoRun
    /\ ~p.run.stopping => p.run.stops = << >>

SameLine(p, q) == Line(q) = Line(p) /\ Orderly(q)

LEMMA NotedIs ==
    ASSUME NEW s \in Seq(Notices)
    PROVE  /\ Noted(s) \in Seq(NormalIds) /\ Len(Noted(s)) = Len(s)
           /\ \A i \in 1 .. Len(s) : Noted(s)[i] = s[i].id
<1>1. /\ Len(s) \in Nat /\ DOMAIN s = 1 .. Len(s)
      /\ \A i \in 1 .. Len(s) : s[i] \in Notices
  OBVIOUS
<1>2. Noted(s) \in [1 .. Len(s) -> NormalIds]
  BY <1>1 DEF Noted, Notices
<1>3. Noted(s) \in Seq(NormalIds) /\ Len(Noted(s)) = Len(s)
  BY <1>1, <1>2, SeqDef
<1> QED
  BY <1>1, <1>3 DEF Noted

LEMMA NotedConcat ==
    ASSUME NEW s \in Seq(Notices), NEW t \in Seq(Notices)
    PROVE  Noted(s \o t) = Noted(s) \o Noted(t)
<1>1. /\ s \o t \in Seq(Notices) /\ Len(s \o t) = Len(s) + Len(t)
      /\ \A i \in 1 .. Len(s) + Len(t) :
            (s \o t)[i] = IF i <= Len(s) THEN s[i] ELSE t[i - Len(s)]
  BY ConcatProperties
<1>2. /\ Noted(s \o t) \in Seq(NormalIds) /\ Len(Noted(s \o t)) = Len(s) + Len(t)
      /\ \A i \in 1 .. Len(s) + Len(t) : Noted(s \o t)[i] = (s \o t)[i].id
  BY <1>1, NotedIs
<1>3. /\ Noted(s) \in Seq(NormalIds) /\ Len(Noted(s)) = Len(s)
      /\ Noted(t) \in Seq(NormalIds) /\ Len(Noted(t)) = Len(t)
      /\ \A i \in 1 .. Len(s) : Noted(s)[i] = s[i].id
      /\ \A i \in 1 .. Len(t) : Noted(t)[i] = t[i].id
      /\ Len(s) \in Nat /\ Len(t) \in Nat
  BY NotedIs
<1>. DEFINE both == Noted(s) \o Noted(t)
<1>4. /\ both \in Seq(NormalIds) /\ Len(both) = Len(s) + Len(t)
      /\ \A i \in 1 .. Len(s) + Len(t) :
            both[i] = IF i <= Len(s) THEN Noted(s)[i] ELSE Noted(t)[i - Len(s)]
  <2>1. /\ both \in Seq(NormalIds) /\ Len(both) = Len(Noted(s)) + Len(Noted(t))
        /\ \A i \in 1 .. Len(Noted(s)) + Len(Noted(t)) :
              both[i] = IF i <= Len(Noted(s)) THEN Noted(s)[i] ELSE Noted(t)[i - Len(Noted(s))]
    <3>. DEFINE a == Noted(s)
                b == Noted(t)
    <3>1. a \in Seq(NormalIds) /\ b \in Seq(NormalIds)
      BY <1>3
    <3>. HIDE DEF a, b
    <3> QED
      BY <3>1, ConcatProperties DEF a, b
  <2>. HIDE DEF both
  <2> QED
    BY <1>3, <2>1
<1>. HIDE DEF both
<1>5. \A i \in 1 .. Len(s) + Len(t) : Noted(s \o t)[i] = both[i]
  <2>. TAKE i \in 1 .. Len(s) + Len(t)
  <2>1. CASE i <= Len(s)
    <3>1. i \in 1 .. Len(s)
      BY <1>3, <2>1
    <3> QED
      BY <1>1, <1>2, <1>3, <1>4, <2>1, <3>1
  <2>2. CASE ~(i <= Len(s))
    <3>1. i - Len(s) \in 1 .. Len(t)
      BY <1>3, <2>2
    <3> QED
      BY <1>1, <1>2, <1>3, <1>4, <2>2, <3>1
  <2> QED
    BY <2>1, <2>2
<1>6. Noted(s \o t) = both
  BY <1>2, <1>4, <1>5, SeqEqual
<1> QED
  BY <1>6 DEF both

LEMMA NotedAppend ==
    ASSUME NEW s \in Seq(Notices), NEW n \in Notices
    PROVE  /\ <<n>> \in Seq(Notices) /\ Noted(<<n>>) = <<n.id>>
           /\ Noted(Append(s, n)) = Noted(s) \o <<n.id>>
<1>1. <<n>> \in Seq(Notices) /\ Len(<<n>>) = 1 /\ <<n>>[1] = n
  OBVIOUS
<1>2. /\ Noted(<<n>>) \in Seq(NormalIds) /\ Len(Noted(<<n>>)) = 1
      /\ \A i \in 1 .. 1 : Noted(<<n>>)[i] = <<n>>[i].id
  BY <1>1, NotedIs
<1>3. <<n.id>> \in Seq(NormalIds) /\ Len(<<n.id>>) = 1 /\ <<n.id>>[1] = n.id
  BY DEF Notices
<1>4. \A i \in 1 .. 1 : Noted(<<n>>)[i] = <<n.id>>[i]
  BY <1>1, <1>2, <1>3
<1>5. Noted(<<n>>) = <<n.id>>
  BY <1>2, <1>3, <1>4, SeqEqual
<1>6. Append(s, n) = s \o <<n>>
  BY AppendIsConcat
<1> QED
  BY <1>1, <1>5, <1>6, NotedConcat

LEMMA Regrouped ==
    ASSUME NEW a \in Seq(NormalIds), NEW b \in Seq(NormalIds), NEW c \in Seq(NormalIds)
    PROVE  (a \o b) \o c = a \o (b \o c)
<1>. DEFINE l == (a \o b) \o c
            r == a \o (b \o c)
<1>1. /\ a \o b \in Seq(NormalIds) /\ Len(a \o b) = Len(a) + Len(b)
      /\ b \o c \in Seq(NormalIds) /\ Len(b \o c) = Len(b) + Len(c)
  BY ConcatProperties
<1>2. /\ l \in Seq(NormalIds) /\ Len(l) = Len(a) + Len(b) + Len(c)
      /\ r \in Seq(NormalIds) /\ Len(r) = Len(a) + Len(b) + Len(c)
  BY <1>1
<1>3. \A i \in 1 .. Len(l) : l[i] = r[i]
  BY <1>1, <1>2
<1> QED
  BY <1>2, <1>3, SeqEqual

\* The parts of the line are sequences of normal ids.
LEMMA LineType ==
    ASSUME NEW p, Well(p)
    PROVE  /\ Noted(p.told) \in Seq(NormalIds) /\ Noted(p.notices) \in Seq(NormalIds)
           /\ Waiting(p) \in Seq(NormalIds) /\ Line(p) \in Seq(NormalIds)
<1>1. p.told \in Seq(Notices) /\ p.notices \in Seq(Notices) /\ p.run.stops \in Seq(NormalIds)
  BY DEF Well, Replays, Runs
<1>2. Noted(p.told) \in Seq(NormalIds) /\ Noted(p.notices) \in Seq(NormalIds)
  BY <1>1, NotedIs
<1>3. Waiting(p) \in Seq(NormalIds)
  <2>1. CASE IsBusy(p)
    <3>1. <<p.run.start>> \in Seq(NormalIds)
      BY <2>1 DEF Well
    <3> QED
      BY <1>1, <2>1, <3>1, ConcatProperties DEF Waiting
  <2>2. CASE ~IsBusy(p)
    BY <2>2, EmptySeq DEF Waiting
  <2> QED
    BY <2>1, <2>2
<1> QED
  BY <1>2, <1>3, ConcatProperties DEF Line

\* finish() moves the border before the start behind the stops.
LEMMA FinishLine ==
    ASSUME NEW p, Well(p), IsBusy(p)
    PROVE  SameLine(p, Finish(p))
<1>. DEFINE run    == p.run
            notice == Notice(run.start, OutcomeOfRun(run))
            q      == Finish(p)
            told   == Noted(p.told)
            noted  == Noted(p.notices)
<1>1. /\ p.told \in Seq(Notices) /\ p.notices \in Seq(Notices)
      /\ run.stops \in Seq(NormalIds) /\ run.start \in NormalIds
  BY DEF Well, Replays, Runs
<1>2. notice \in Notices /\ notice.id = run.start
  BY <1>1 DEF OutcomeOfRun, Notice, Notices
<1>3. StopNotices(run) \in Seq(Notices) /\ Noted(StopNotices(run)) = run.stops
  <2>1. /\ Len(run.stops) \in Nat /\ DOMAIN run.stops = 1 .. Len(run.stops)
        /\ \A i \in 1 .. Len(run.stops) : run.stops[i] \in NormalIds
    BY <1>1
  <2>2. /\ StopNotices(run) \in [1 .. Len(run.stops) -> Notices]
        /\ \A i \in 1 .. Len(run.stops) : StopNotices(run)[i].id = run.stops[i]
    BY <2>1 DEF StopNotices, Notice, Notices
  <2>3. StopNotices(run) \in Seq(Notices) /\ Len(StopNotices(run)) = Len(run.stops)
    BY <2>1, <2>2, SeqDef
  <2>4. /\ Noted(StopNotices(run)) \in Seq(NormalIds)
        /\ Len(Noted(StopNotices(run))) = Len(run.stops)
        /\ \A i \in 1 .. Len(run.stops) : Noted(StopNotices(run))[i] = run.stops[i]
    BY <2>2, <2>3, NotedIs
  <2> QED
    BY <1>1, <2>3, <2>4, SeqEqual
<1>4. <<notice>> \in Seq(Notices) /\ Noted(<<notice>>) = <<run.start>>
  BY ZenonT(40), <1>1, <1>2, NotedAppend
<1>5. q.notices = (p.notices \o <<notice>>) \o StopNotices(run) /\ q.told = p.told /\ q.run = NoRun
  BY DEF Finish, Well, Replays
<1>. HIDE DEF notice, q, run
<1>6. Noted(q.notices) = (noted \o <<run.start>>) \o run.stops
  <2>1. p.notices \o <<notice>> \in Seq(Notices)
    BY <1>1, <1>4, ConcatProperties
  <2> QED
    BY ZenonT(40), <1>1, <1>3, <1>4, <1>5, <2>1, NotedConcat
<1>7. told \in Seq(NormalIds) /\ noted \in Seq(NormalIds)
  BY LineType
<1>8. Waiting(q) = << >> /\ ~IsBusy(q) /\ Waiting(p) = <<run.start>> \o run.stops
  BY <1>5 DEF Waiting, IsBusy, NoRun, run
<1>. HIDE DEF told, noted
<1>9. /\ <<run.start>> \in Seq(NormalIds) /\ noted \o <<run.start>> \in Seq(NormalIds)
      /\ <<run.start>> \o run.stops \in Seq(NormalIds)
      /\ (noted \o <<run.start>>) \o run.stops \in Seq(NormalIds)
      /\ told \o ((noted \o <<run.start>>) \o run.stops) \in Seq(NormalIds)
  BY <1>1, <1>7, ConcatProperties
<1>10. Line(q) = told \o ((noted \o <<run.start>>) \o run.stops)
  BY <1>5, <1>6, <1>8, <1>9, ConcatEmptySeq DEF Line, told
<1>11. (noted \o <<run.start>>) \o run.stops = noted \o (<<run.start>> \o run.stops)
  <2>. DEFINE one == <<run.start>>
              stops == run.stops
  <2>1. one \in Seq(NormalIds) /\ stops \in Seq(NormalIds)
    BY <1>1, <1>9
  <2>. HIDE DEF one, stops
  <2>2. (noted \o one) \o stops = noted \o (one \o stops)
    BY <1>7, <2>1, Regrouped
  <2> QED
    BY <2>2 DEF one, stops
<1>12. (told \o noted) \o (<<run.start>> \o run.stops) = told \o (noted \o (<<run.start>> \o run.stops))
  BY ZenonT(40), <1>7, <1>9, Regrouped
<1>13. Line(p) = (told \o noted) \o (<<run.start>> \o run.stops)
  BY <1>8 DEF Line, told, noted
<1>14. Orderly(q)
  BY <1>5 DEF Orderly, NoRun
<1> QED
  BY <1>10, <1>11, <1>12, <1>13, <1>14 DEF SameLine, q

\* Nothing else that changes of a run moves anything in the line.
SameControl(r, s) ==
    r.start = s.start /\ r.stops = s.stops /\ r.stopping = s.stopping /\ r.phase # "idle"

LEMMA RunLine ==
    ASSUME NEW p, Well(p), Orderly(p), IsBusy(p), NEW run \in Runs, SameControl(run, p.run)
    PROVE  SameLine(p, WithRun(p, run)) /\ Well(WithRun(p, run)) /\ IsBusy(WithRun(p, run))
<1>. DEFINE q == WithRun(p, run)
<1>1. q.told = p.told /\ q.notices = p.notices /\ q.run = run
  BY DEF WithRun, Well, Replays
<1>2. Well(q)
  BY WithRunWell DEF SameControl
<1>. HIDE DEF q
<1>3. IsBusy(q) /\ Waiting(q) = Waiting(p)
  BY <1>1 DEF SameControl, Waiting, IsBusy
<1>4. Line(q) = Line(p)
  BY <1>1, <1>3 DEF Line
<1>5. Orderly(q)
  BY <1>1, <1>3 DEF Orderly, SameControl
<1> QED
  BY <1>2, <1>3, <1>4, <1>5 DEF SameLine, q

\* Handing the notices over moves the border between them and what was told.
LEMMA ToldLine ==
    ASSUME NEW p, Well(p), Orderly(p)
    PROVE  SameLine(p, Told(p))
<1>. DEFINE q == Told(p)
<1>1. p.told \in Seq(Notices) /\ p.notices \in Seq(Notices) /\ << >> \in Seq(Notices)
  BY EmptySeq DEF Well, Replays
<1>2. q.told = p.told \o p.notices /\ q.notices = << >> /\ q.run = p.run
  BY DEF Told, Well, Replays
<1>. HIDE DEF q
<1>3. Noted(q.told) = Noted(p.told) \o Noted(p.notices)
  BY <1>1, <1>2, NotedConcat
<1>4. Noted(q.notices) = << >>
  <2>1. Noted(<< >>) \in Seq(NormalIds) /\ Len(Noted(<< >>)) = 0
    BY <1>1, NotedIs, EmptySeq
  <2> QED
    BY <1>2, <2>1
<1>5. Noted(p.told) \o Noted(p.notices) \in Seq(NormalIds)
  BY LineType, ConcatProperties
<1>6. Noted(q.told) \o Noted(q.notices) = Noted(p.told) \o Noted(p.notices)
  BY <1>3, <1>4, <1>5, ConcatEmptySeq
<1>7. Waiting(q) = Waiting(p)
  BY <1>2 DEF Waiting, IsBusy
<1>8. Line(q) = Line(p) /\ Orderly(q)
  BY <1>2, <1>6, <1>7 DEF Line, Orderly, IsBusy
<1> QED
  BY <1>8 DEF SameLine, q

LEMMA SameLineTrans ==
    ASSUME NEW p, NEW q, NEW r, SameLine(p, q), SameLine(q, r)
    PROVE  SameLine(p, r)
BY DEF SameLine

\* Naming the cause, and starting to submit.
LEMMA BlockControl ==
    ASSUME NEW run \in Runs, NEW code \in Codes, run.phase # "idle"
    PROVE  SameControl(Block(run, code), run)
BY DEF Block, Runs, SameControl

LEMMA RunningControl ==
    ASSUME NEW run \in Runs, NEW plan
    PROVE  SameControl(Running(run, plan), run)
BY DEF Running, Runs, SameControl

\* A failed load answers the start at once: a run nobody stopped has no stops.
LEMMA ErrorLine ==
    ASSUME NEW p, Well(p), Orderly(p), IsBusy(p), ~p.run.stopping
    PROVE  SameLine(p, [p EXCEPT !.run = NoRun,
                                 !.notices = Append(@, Notice(p.run.start, "failed"))])
<1>. DEFINE answer == Notice(p.run.start, "failed")
            q == [p EXCEPT !.run = NoRun, !.notices = Append(@, answer)]
            one == <<p.run.start>>
            told == Noted(p.told)
            noted == Noted(p.notices)
<1>1. p.notices \in Seq(Notices) /\ p.run.start \in NormalIds /\ p.run.stops = << >>
  BY DEF Well, Replays, Orderly
<1>2. answer \in Notices /\ answer.id = p.run.start
  BY <1>1 DEF Notice, Notices
<1>3. q.told = p.told /\ q.notices = Append(p.notices, answer) /\ q.run = NoRun
  BY DEF Well, Replays
<1>. HIDE DEF q
<1>4. Noted(q.notices) = noted \o one
  BY <1>1, <1>2, <1>3, NotedAppend
<1>6. noted \in Seq(NormalIds) /\ one \in Seq(NormalIds)
  BY <1>1, LineType
<1>. HIDE DEF answer, noted, one
<1>9. Waiting(q) = << >> /\ Waiting(p) = one
  <2>1. Waiting(q) = << >>
    BY <1>3 DEF Waiting, IsBusy, NoRun
  <2>2. Waiting(p) = one \o << >>
    BY <1>1 DEF Waiting, one
  <2> QED
    BY <1>6, <2>1, <2>2, ConcatEmptySeq
<1>10. told \in Seq(NormalIds)
  BY LineType
<1>. HIDE DEF told
<1>11. Line(q) = (told \o (noted \o one)) \o << >> /\ Line(p) = (told \o noted) \o one
  BY <1>3, <1>4, <1>9 DEF Line, told, noted
<1>12. told \o (noted \o one) \in Seq(NormalIds)
  BY <1>6, <1>10, ConcatProperties
<1>13. (told \o (noted \o one)) \o << >> = told \o (noted \o one)
  BY <1>12, ConcatEmptySeq
<1>14. (told \o noted) \o one = told \o (noted \o one)
  BY <1>6, <1>10, Regrouped
<1>15. Orderly(q)
  BY <1>3 DEF Orderly, NoRun
<1>16. SameLine(p, q)
  BY <1>11, <1>13, <1>14, <1>15 DEF SameLine
<1> QED
  BY <1>16 DEF q, answer

LEMMA WaitedLine ==
    ASSUME NEW p, Well(p), Orderly(p), NEW l \in Loaders, NEW barrier \in BOOLEAN
    PROVE  SameLine(p, Waited(p, l, barrier))
<1>. DEFINE w == Waited(p, l, barrier)
<1>1. p.run \in Runs /\ p \in Replays
  BY DEF Well, Replays
<1>2. << >> \in Seq(GameKinds) /\ l.plan \in Seq(GameKinds)
  BY EmptySeq DEF Loaders
<1>3. ASSUME NEW run \in Runs, IsBusy(p), NEW plan \in Seq(GameKinds), SameControl(run, p.run),
             w = [p EXCEPT !.run = Running(run, plan)]
      PROVE  SameLine(p, w)
  <2>1. Running(run, plan) \in Runs /\ SameControl(Running(run, plan), p.run)
    BY <1>3, RunningType, RunningControl DEF SameControl
  <2>2. w = WithRun(p, Running(run, plan))
    BY <1>3 DEF WithRun
  <2> QED
    BY <1>3, <2>1, <2>2, RunLine
<1>4. ASSUME w = p PROVE SameLine(p, w)
  BY <1>4 DEF SameLine
<1>5. IsBusy(p) => SameControl(p.run, p.run)
  BY DEF SameControl, IsBusy
<1>6. CASE p.run.phase = "waiting" /\ p.run.stopping
  <2>1. w = [p EXCEPT !.run = Running(p.run, << >>)] /\ IsBusy(p)
    BY <1>6 DEF Waited, IsBusy
  <2> QED
    BY <1>1, <1>2, <1>3, <1>5, <2>1
<1>7. CASE StartsLoading(p.run, barrier)
  <2>. DEFINE run == [p.run EXCEPT !.phase = "preparing"]
  <2>1. run \in Runs /\ SameControl(run, p.run) /\ IsBusy(p)
    BY <1>1, <1>7 DEF Runs, SameControl, StartsLoading, IsBusy
  <2>2. w = WithRun(p, run)
    BY <1>1, <1>7 DEF Waited, StartsLoading, WithRun, Replays
  <2>. HIDE DEF run
  <2> QED
    BY <2>1, <2>2, RunLine
<1>8. CASE ~(p.run.phase = "waiting" /\ p.run.stopping) /\ ~StartsLoading(p.run, barrier)
  <2>1. w = Loaded(p, l)
    BY <1>8 DEF Waited
  <2>2. CASE p.run.phase # "preparing" \/ l.at \in {"none", "loading"}
    BY <1>4, <2>1, <2>2 DEF Loaded
  <2>3. CASE p.run.phase = "preparing" /\ l.at = "lost"
    <3>1. /\ "session_io_failed" \in Codes /\ IsBusy(p)
          /\ w = [p EXCEPT !.run = Running(Block(p.run, "session_io_failed"), << >>)]
      BY <2>1, <2>3 DEF Loaded, Codes, IsBusy
    <3>2. /\ Block(p.run, "session_io_failed") \in Runs
          /\ SameControl(Block(p.run, "session_io_failed"), p.run)
      BY <1>1, <3>1, BlockType, BlockControl DEF IsBusy
    <3> QED
      BY <1>2, <1>3, <3>1, <3>2
  <2>4. CASE p.run.phase = "preparing" /\ l.at \in {"plan", "error", "cancelled"} /\ p.run.stopping
    <3>1. w = [p EXCEPT !.run = Running(p.run, << >>)] /\ IsBusy(p)
      BY <2>1, <2>4 DEF Loaded, IsBusy
    <3> QED
      BY <1>1, <1>2, <1>3, <1>5, <3>1
  <2>5. CASE p.run.phase = "preparing" /\ l.at = "plan" /\ ~p.run.stopping
    <3>1. w = [p EXCEPT !.run = Running(p.run, l.plan)] /\ IsBusy(p)
      BY <2>1, <2>5 DEF Loaded, IsBusy
    <3> QED
      BY <1>1, <1>2, <1>3, <1>5, <3>1
  <2>6. CASE p.run.phase = "preparing" /\ l.at = "error" /\ ~p.run.stopping
    <3>1. /\ IsBusy(p)
          /\ w = [p EXCEPT !.run = NoRun,
                           !.notices = Append(@, Notice(p.run.start, "failed"))]
      BY <2>1, <2>6 DEF Loaded, IsBusy
    <3> QED
      BY <2>6, <3>1, ErrorLine
  <2>7. CASE p.run.phase = "preparing" /\ l.at = "cancelled" /\ ~p.run.stopping
    <3>. DEFINE run == [p.run EXCEPT !.phase = "panicked"]
    <3>1. w = WithRun(p, run) /\ IsBusy(p)
      BY <1>1, <2>1, <2>7 DEF Loaded, WithRun, IsBusy, Replays
    <3>2. run \in Runs /\ SameControl(run, p.run)
      BY <1>1 DEF Runs, SameControl
    <3>. HIDE DEF run
    <3> QED
      BY <3>1, <3>2, RunLine
  <2> QED
    BY <2>2, <2>3, <2>4, <2>5, <2>6, <2>7 DEF Loaders
<1> QED
  BY <1>6, <1>7, <1>8

\* poll() keeps the line.
LEMMA PolledLine ==
    ASSUME NEW p, Well(p), Orderly(p), NEW l \in Loaders, NEW barrier \in BOOLEAN
    PROVE  SameLine(p, Polled(p, l, barrier))
<1>. DEFINE w == Waited(p, l, barrier)
<1>1. Well(w) /\ SameLine(p, w)
  BY WaitedWell, WaitedLine
<1>2. CASE MayFinish(w.run)
  <2>1. IsBusy(w) /\ Polled(p, l, barrier) = Finish(w)
    BY <1>2 DEF MayFinish, IsBusy, Polled
  <2> QED
    BY <1>1, <2>1, FinishLine, SameLineTrans
<1>3. CASE ~MayFinish(w.run)
  BY <1>1, <1>3 DEF Polled
<1> QED
  BY <1>2, <1>3

\* So do the calls that block a run, which may finish it.
LEMMA BlockedLine ==
    ASSUME NEW p, Well(p), Orderly(p), IsBusy(p), NEW code \in Codes
    PROVE  LET q == [p EXCEPT !.run = Block(@, code)] IN
           SameLine(p, q) /\ SameLine(p, Finish(q)) /\ Well(q) /\ IsBusy(q)
<1>. DEFINE q == WithRun(p, Block(p.run, code))
<1>1. q = [p EXCEPT !.run = Block(@, code)] /\ p.run \in Runs /\ p.run.phase # "idle"
  BY DEF WithRun, Well, Replays, IsBusy
<1>2. Block(p.run, code) \in Runs /\ SameControl(Block(p.run, code), p.run)
  BY <1>1, BlockType, BlockControl
<1>3. SameLine(p, q) /\ Well(q) /\ IsBusy(q)
  BY <1>2, RunLine
<1>4. SameLine(p, Finish(q))
  BY <1>3, FinishLine, SameLineTrans
<1> QED
  BY <1>1, <1>3, <1>4

LEMMA EndLine ==
    ASSUME NEW p, Well(p), Orderly(p), NEW io \in BOOLEAN
    PROVE  SameLine(p, EndReplay(p, io))
<1>1. CASE IsBusy(p)
  <2>. DEFINE code == IF io THEN "session_io_failed" ELSE "session_ended"
  <2>1. code \in Codes /\ EndReplay(p, io) = Finish([p EXCEPT !.run = Block(@, code)])
    BY <1>1 DEF EndReplay, Codes
  <2>. HIDE DEF code
  <2> QED
    BY <1>1, <2>1, BlockedLine
<1>2. CASE ~IsBusy(p)
  BY <1>2 DEF EndReplay, SameLine
<1> QED
  BY <1>1, <1>2

LEMMA ExhaustedLine ==
    ASSUME NEW p, Well(p), Orderly(p), IsBusy(p)
    PROVE  SameLine(p, SubmissionFailed(p))
<1>1. "request_id_exhausted" \in Codes
  BY DEF Codes
<1> QED
  BY <1>1, BlockedLine DEF SubmissionFailed

LEMMA TerminalLine ==
    ASSUME NEW p, Well(p), Orderly(p), NEW id, NEW outcome \in Settled
    PROVE  SameLine(p, RunTerminal(p, id, outcome))
<1>. DEFINE halt == id \in p.run.halts
            after == RunSettled(p.run, id, outcome)
            settled == WithRun(p, after)
<1>1. CASE id \notin p.run.pending
  BY <1>1 DEF RunTerminal, SameLine
<1>2. CASE id \in p.run.pending
  <2>1. IsBusy(p) /\ p.run \in Runs
    BY <1>2 DEF Well, Replays
  <2>2. after \in Runs /\ SameControl(after, p.run)
    BY ZenonT(40), <2>1, SettledType DEF RunSettled, SameControl, Runs, IsBusy
  <2>3. SameLine(p, settled) /\ Well(settled) /\ IsBusy(settled) /\ Orderly(settled)
    BY <2>1, <2>2, RunLine DEF SameLine
  <2>4. settled = [p EXCEPT !.run = RunSettled(@, id, outcome)] /\ CodeOf(outcome, halt) \in Codes
    BY DEF WithRun, Well, Replays, CodeOf, Codes
  <2>5. LET blocked == [settled EXCEPT !.run = Block(@, CodeOf(outcome, halt))] IN
        SameLine(p, blocked) /\ SameLine(p, Finish(blocked))
    BY <2>3, <2>4, BlockedLine, SameLineTrans
  <2> QED
    BY <1>2, <2>3, <2>4, <2>5 DEF RunTerminal
<1> QED
  BY <1>1, <1>2

\* next() and submitted() keep the line.
LEMMA SubmittedLine ==
    ASSUME NEW p, Well(p), Orderly(p), IsBusy(p), NEW id \in NormalIds,
           HaltsWarp(p.run) \/ \E earlier \in BOOLEAN : FreesPlan(p.run, earlier)
    PROVE  /\ SameLine(p, Taken(p))
           /\ SameLine(p, Submitted(Taken(p), id, NextKind(p.run)))
<1>. DEFINE t == Taken(p)
            q == Submitted(t, id, NextKind(p.run))
<1>1. Well(t) /\ IsBusy(t) /\ Well(q) /\ IsBusy(q)
  BY SubmittedWell
<1>2. /\ t.told = p.told /\ t.notices = p.notices /\ t.run.start = p.run.start
      /\ t.run.stops = p.run.stops /\ t.run.stopping = p.run.stopping
  BY DEF Taken, Well, Replays, Runs
<1>3. /\ q.told = t.told /\ q.notices = t.notices /\ q.run.start = t.run.start
      /\ q.run.stops = t.run.stops /\ q.run.stopping = t.run.stopping
  BY ZenonT(40), <1>1 DEF Submitted, Well, Replays, Runs
<1>. HIDE DEF t, q
<1>4. SameLine(p, t)
  BY <1>1, <1>2 DEF SameLine, Line, Waiting, Orderly
<1>5. SameLine(t, q)
  BY <1>1, <1>3, <1>4 DEF SameLine, Line, Waiting, Orderly
<1> QED
  BY <1>4, <1>5, SameLineTrans DEF t, q

\* One more id in a line of distinct ids, wherever it goes in.
LEMMA InsertDistinct ==
    ASSUME NEW a \in Seq(NormalIds), NEW h \in Seq(NormalIds), NEW id \in NormalIds,
           Distinct(a \o h), ~Contains(a \o h, id)
    PROVE  Distinct((a \o <<id>>) \o h)
<1>. DEFINE old == a \o h
            new == (a \o <<id>>) \o h
<1>1. /\ old \in Seq(NormalIds) /\ Len(old) = Len(a) + Len(h)
      /\ \A i \in 1 .. Len(a) + Len(h) : old[i] = IF i <= Len(a) THEN a[i] ELSE h[i - Len(a)]
  BY ConcatProperties
<1>2. Len(a) \in Nat /\ Len(h) \in Nat
  OBVIOUS
<1>3. /\ new \in Seq(NormalIds) /\ Len(new) = Len(a) + 1 + Len(h)
      /\ \A i \in 1 .. Len(a) + 1 + Len(h) :
            new[i] = IF i <= Len(a) THEN a[i]
                     ELSE IF i = Len(a) + 1 THEN id ELSE h[i - (Len(a) + 1)]
  OBVIOUS
<1>. HIDE DEF old, new
<1>4. ASSUME NEW i \in 1 .. Len(a) + 1 + Len(h), i # Len(a) + 1
      PROVE  LET k == IF i <= Len(a) THEN i ELSE i - 1 IN
             k \in 1 .. Len(old) /\ old[k] = new[i]
  <2>1. CASE i <= Len(a)
    <3>1. i \in 1 .. Len(a) + Len(h)
      BY <1>2, <2>1
    <3> QED
      BY <1>1, <1>3, <2>1, <3>1
  <2>2. CASE ~(i <= Len(a))
    <3>1. /\ i - 1 \in 1 .. Len(a) + Len(h) /\ ~(i - 1 <= Len(a))
          /\ (i - 1) - Len(a) = i - (Len(a) + 1)
      BY <1>2, <1>4, <2>2
    <3> QED
      BY <1>1, <1>3, <1>4, <2>2, <3>1
  <2> QED
    BY <2>1, <2>2
<1>5. ASSUME NEW i \in 1 .. Len(a) + 1 + Len(h), NEW j \in 1 .. Len(a) + 1 + Len(h),
             new[i] = new[j]
      PROVE  i = j
  <2>1. ASSUME NEW m \in 1 .. Len(a) + 1 + Len(h), m # Len(a) + 1 PROVE new[m] # id
    <3>1. Len(old) \in Nat /\ ~Contains(old, id)
      BY <1>1 DEF old
    <3> QED
      BY <1>4, <2>1, <3>1 DEF Contains
  <2>2. new[Len(a) + 1] = id
    BY <1>2, <1>3
  <2>3. CASE i = Len(a) + 1 \/ j = Len(a) + 1
    BY <1>5, <2>1, <2>2, <2>3
  <2>4. CASE i # Len(a) + 1 /\ j # Len(a) + 1
    <3>. DEFINE k == IF i <= Len(a) THEN i ELSE i - 1
                l == IF j <= Len(a) THEN j ELSE j - 1
    <3>1. k \in 1 .. Len(old) /\ l \in 1 .. Len(old) /\ old[k] = new[i] /\ old[l] = new[j]
      BY <1>4, <2>4
    <3>2. Distinct(old)
      BY DEF old
    <3>3. k = l
      <4> HIDE DEF k, l
      <4> QED
        BY <1>5, <3>1, <3>2 DEF Distinct
    <3> QED
      BY <1>2, <2>4, <3>3
  <2> QED
    BY <2>3, <2>4
<1>6. Distinct(new)
  BY <1>3, <1>5 DEF Distinct
<1> QED
  BY <1>6 DEF new

\* What stands in a line of two parts stands in one of them.
LEMMA ConcatContains ==
    ASSUME NEW a \in Seq(NormalIds), NEW h \in Seq(NormalIds), NEW id, Contains(a \o h, id)
    PROVE  Contains(a, id) \/ Contains(h, id)
<1>1. /\ Len(a \o h) = Len(a) + Len(h) /\ Len(a) \in Nat /\ Len(h) \in Nat
      /\ \A i \in 1 .. Len(a) + Len(h) :
            (a \o h)[i] = IF i <= Len(a) THEN a[i] ELSE h[i - Len(a)]
  BY ConcatProperties
<1>2. PICK i \in 1 .. Len(a) + Len(h) : (a \o h)[i] = id
  BY <1>1 DEF Contains
<1>3. CASE i <= Len(a)
  BY <1>1, <1>2, <1>3 DEF Contains
<1>4. CASE ~(i <= Len(a))
  <2>1. i - Len(a) \in 1 .. Len(h)
    BY <1>1, <1>4
  <2> QED
    BY <1>1, <1>2, <1>4, <2>1 DEF Contains
<1> QED
  BY <1>3, <1>4

\* Every id in the line is one a control command has used.
LEMMA LineUsed ==
    ASSUME NEW p, Well(p), NEW id, Contains(Line(p), id)
    PROVE  id \in ControlIds(p)
<1>. DEFINE told == Noted(p.told)
            noted == Noted(p.notices)
            waiting == Waiting(p)
<1>1. /\ told \in Seq(NormalIds) /\ noted \in Seq(NormalIds) /\ waiting \in Seq(NormalIds)
      /\ p.told \in Seq(Notices) /\ p.notices \in Seq(Notices) /\ p.run.stops \in Seq(NormalIds)
  BY LineType DEF Well, Replays, Runs
<1>2. ASSUME NEW s \in Seq(Notices), Contains(Noted(s), id)
      PROVE  \E i \in DOMAIN s : s[i].id = id
  BY <1>2, NotedIs DEF Contains
<1>3. ASSUME Contains(waiting, id) PROVE id \in {p.run.start} \cup ToSet(p.run.stops)
  <2>1. CASE IsBusy(p)
    <3>. DEFINE one == <<p.run.start>>
                stops == p.run.stops
    <3>1. one \in Seq(NormalIds) /\ stops \in Seq(NormalIds) /\ waiting = one \o stops
      BY <1>1, <2>1 DEF Waiting, Well
    <3>2. (Contains(one, id) => id = p.run.start) /\ (Contains(stops, id) => id \in ToSet(p.run.stops))
      BY <1>1 DEF Contains, ToSet
    <3>. HIDE DEF one, stops
    <3>3. Contains(one \o stops, id)
      BY <1>3, <3>1
    <3> QED
      BY <3>1, <3>2, <3>3, ConcatContains
  <2>2. CASE ~IsBusy(p)
    BY <1>3, <2>2, EmptySeq DEF Waiting, Contains
  <2> QED
    BY <2>1, <2>2
<1>4. Contains(told, id) \/ Contains(noted, id) \/ Contains(waiting, id)
  <2> HIDE DEF told, noted, waiting
  <2>1. Contains((told \o noted) \o waiting, id) /\ told \o noted \in Seq(NormalIds)
    BY <1>1, ConcatProperties DEF Line, told, noted, waiting
  <2>2. Contains(told \o noted, id) \/ Contains(waiting, id)
    BY <1>1, <2>1, ConcatContains
  <2> QED
    BY <1>1, <2>2, ConcatContains
<1>5. CASE Contains(told, id)
  BY <1>1, <1>2, <1>5 DEF ControlIds
<1>6. CASE Contains(noted, id)
  BY <1>1, <1>2, <1>6 DEF ControlIds
<1>7. CASE Contains(waiting, id)
  BY <1>3, <1>7 DEF ControlIds
<1> QED
  BY <1>4, <1>5, <1>6, <1>7

\* And what stands in a part stands in the line.
LEMMA JoinedContains ==
    ASSUME NEW a \in Seq(NormalIds), NEW h \in Seq(NormalIds), NEW id,
           Contains(a, id) \/ Contains(h, id)
    PROVE  Contains(a \o h, id)
<1>1. /\ Len(a \o h) = Len(a) + Len(h) /\ Len(a) \in Nat /\ Len(h) \in Nat
      /\ \A i \in 1 .. Len(a) + Len(h) :
            (a \o h)[i] = IF i <= Len(a) THEN a[i] ELSE h[i - Len(a)]
  BY ConcatProperties
<1>2. CASE Contains(a, id)
  <2>1. PICK i \in 1 .. Len(a) : a[i] = id
    BY <1>2 DEF Contains
  <2>2. i \in 1 .. Len(a) + Len(h) /\ i <= Len(a)
    BY <1>1
  <2> QED
    BY <1>1, <2>1, <2>2 DEF Contains
<1>3. CASE Contains(h, id)
  <2>1. PICK i \in 1 .. Len(h) : h[i] = id
    BY <1>3 DEF Contains
  <2>2. /\ Len(a) + i \in 1 .. Len(a) + Len(h) /\ ~(Len(a) + i <= Len(a))
        /\ (Len(a) + i) - Len(a) = i
    BY <1>1
  <2> QED
    BY <1>1, <2>1, <2>2 DEF Contains
<1> QED
  BY <1>2, <1>3

\* Every id a control command has used stands in the line.
LEMMA UsedInLine ==
    ASSUME NEW p, Well(p), Orderly(p), NEW id \in ControlIds(p), id # 0
    PROVE  Contains(Line(p), id)
<1>. DEFINE told == Noted(p.told)
            noted == Noted(p.notices)
            waiting == Waiting(p)
<1>1. /\ told \in Seq(NormalIds) /\ noted \in Seq(NormalIds) /\ waiting \in Seq(NormalIds)
      /\ p.told \in Seq(Notices) /\ p.notices \in Seq(Notices) /\ p.run.stops \in Seq(NormalIds)
  BY LineType DEF Well, Replays, Runs
<1>2. ASSUME NEW s \in Seq(Notices), NEW i \in DOMAIN s, s[i].id = id
      PROVE  Contains(Noted(s), id)
  <2>1. DOMAIN s = 1 .. Len(s)
    OBVIOUS
  <2> QED
    BY <1>2, <2>1, NotedIs DEF Contains
<1>3. ASSUME id \in {p.run.start} \cup ToSet(p.run.stops) PROVE Contains(waiting, id)
  <2>1. IsBusy(p)
    <3>. SUFFICES ASSUME ~IsBusy(p) PROVE FALSE
      OBVIOUS
    <3>1. p.run.start = 0 /\ p.run.stops = << >>
      BY DEF Orderly, NoRun
    <3> QED
      BY <1>3, <3>1 DEF ToSet
  <2>. DEFINE one == <<p.run.start>>
              stops == p.run.stops
  <2>2. one \in Seq(NormalIds) /\ stops \in Seq(NormalIds) /\ waiting = one \o stops
    BY <1>1, <2>1 DEF Waiting, Well
  <2>3. Contains(one, id) \/ Contains(stops, id)
    BY <1>1, <1>3 DEF Contains, ToSet
  <2>. HIDE DEF one, stops
  <2> QED
    BY <2>2, <2>3, JoinedContains
<1>4. Contains(told, id) \/ Contains(noted, id) \/ Contains(waiting, id)
  BY <1>1, <1>2, <1>3 DEF ControlIds
<1>5. Contains((told \o noted) \o waiting, id)
  <2> HIDE DEF told, noted, waiting
  <2>1. told \o noted \in Seq(NormalIds)
    BY <1>1, ConcatProperties
  <2>2. Contains(told \o noted, id) \/ Contains(waiting, id)
    BY <1>1, <1>4, JoinedContains
  <2> QED
    BY <1>1, <2>1, <2>2, JoinedContains
<1> QED
  BY <1>5 DEF Line

\* So a call that leaves the line alone uses no other id.
LEMMA SameUsed ==
    ASSUME NEW p, Well(p), NEW q, Well(q), SameLine(p, q)
    PROVE  ControlIds(q) \subseteq ControlIds(p) \cup {0}
BY UsedInLine, LineUsed DEF SameLine

\* A control command uses its own.
LEMMA ControlUses ==
    ASSUME NEW p, Well(p), NEW id \in NormalIds
    PROVE  /\ ControlIds(ControlStart(p, id)) \subseteq ControlIds(p) \cup {id}
           /\ ControlIds(ControlStop(p, id)) \subseteq ControlIds(p) \cup {id}
<1>. DEFINE noted == [p EXCEPT !.notices = Append(p.notices, Notice(id, "failed"))]
<1>1. /\ p \in Replays /\ p.run \in Runs /\ p.notices \in Seq(Notices)
      /\ p.run.stops \in Seq(NormalIds)
  BY DEF Well, Replays, Runs
<1>2. ASSUME NEW outcome \in {"failed", "not_running"}, NEW q,
             q = [p EXCEPT !.notices = Append(p.notices, Notice(id, outcome))]
      PROVE  ControlIds(q) \subseteq ControlIds(p) \cup {id}
  <2>1. q.run = p.run /\ q.told = p.told /\ q.notices = Append(p.notices, Notice(id, outcome))
    BY <1>1, <1>2 DEF Replays
  <2>2. Notice(id, outcome) \in Notices /\ Notice(id, outcome).id = id
    BY DEF Notice, Notices
  <2>3. /\ DOMAIN q.notices = 1 .. Len(p.notices) + 1 /\ DOMAIN p.notices = 1 .. Len(p.notices)
        /\ \A i \in 1 .. Len(p.notices) : q.notices[i] = p.notices[i]
        /\ q.notices[Len(p.notices) + 1] = Notice(id, outcome) /\ Len(p.notices) \in Nat
    BY <1>1, <2>1, <2>2, AppendProperties
  <2>4. \A i \in DOMAIN q.notices : i \in DOMAIN p.notices \/ i = Len(p.notices) + 1
    BY <2>3
  <2> QED
    BY <2>1, <2>2, <2>3, <2>4 DEF ControlIds
<1>3. ControlIds(ControlStart(p, id)) \subseteq ControlIds(p) \cup {id}
  <2>1. CASE IsBusy(p)
    BY <1>2, <2>1 DEF ControlStart
  <2>2. CASE ~IsBusy(p)
    <3>. DEFINE q == ControlStart(p, id)
    <3>1. q.run.start = id /\ q.run.stops = << >> /\ q.told = p.told /\ q.notices = p.notices
      BY <1>1, <2>2 DEF ControlStart, Replays, NoRun
    <3>2. ToSet(<< >>) = {}
      BY DEF ToSet
    <3>. HIDE DEF q
    <3> QED
      BY <3>1, <3>2 DEF ControlIds, q
  <2> QED
    BY <2>1, <2>2
<1>4. ControlIds(ControlStop(p, id)) \subseteq ControlIds(p) \cup {id}
  <2>1. CASE ~IsBusy(p)
    BY <1>2, <2>1 DEF ControlStop
  <2>2. CASE IsBusy(p)
    <3>. DEFINE q == ControlStop(p, id)
                stops == Append(p.run.stops, id)
    <3>1. q.run.start = p.run.start /\ q.run.stops = stops
          /\ q.told = p.told /\ q.notices = p.notices
      BY <1>1, <2>2 DEF ControlStop, Replays, Runs
    <3>2. ToSet(stops) \subseteq ToSet(p.run.stops) \cup {id}
      <4>1. /\ DOMAIN stops = 1 .. Len(p.run.stops) + 1
            /\ DOMAIN p.run.stops = 1 .. Len(p.run.stops)
            /\ \A i \in 1 .. Len(p.run.stops) : stops[i] = p.run.stops[i]
            /\ stops[Len(p.run.stops) + 1] = id /\ Len(p.run.stops) \in Nat
        BY <1>1, AppendProperties
      <4>2. \A i \in DOMAIN stops : i \in DOMAIN p.run.stops \/ i = Len(p.run.stops) + 1
        BY <4>1
      <4>. HIDE DEF stops
      <4> QED
        BY <4>1, <4>2 DEF ToSet
    <3>. HIDE DEF q
    <3> QED
      BY <3>1, <3>2 DEF ControlIds, q
  <2> QED
    BY <2>1, <2>2
<1> QED
  BY <1>3, <1>4

\* A command answered at once stands before those that wait.
LEMMA NoticeLine ==
    ASSUME NEW p, Well(p), Orderly(p), Distinct(Line(p)), NEW id \in NormalIds,
           ~Contains(Line(p), id), NEW outcome \in {"failed", "not_running"}
    PROVE  LET q == [p EXCEPT !.notices = Append(@, Notice(id, outcome))] IN
           Orderly(q) /\ Distinct(Line(q))
<1>. DEFINE answer == Notice(id, outcome)
            q == [p EXCEPT !.notices = Append(@, answer)]
            told == Noted(p.told)
            noted == Noted(p.notices)
            waiting == Waiting(p)
            one == <<id>>
            before == told \o noted
<1>1. answer \in Notices /\ answer.id = id /\ p.notices \in Seq(Notices)
  BY DEF Notice, Notices, Well, Replays
<1>2. q.told = p.told /\ q.notices = Append(p.notices, answer) /\ q.run = p.run
  BY DEF Well, Replays
<1>3. Noted(Append(p.notices, answer)) = noted \o one
  <2> HIDE DEF answer
  <2> QED
    BY <1>1, NotedAppend
<1>4. /\ told \in Seq(NormalIds) /\ noted \in Seq(NormalIds) /\ waiting \in Seq(NormalIds)
      /\ one \in Seq(NormalIds)
  BY LineType
<1>. HIDE DEF q, answer
<1>5. Orderly(q) /\ Line(q) = (told \o (noted \o one)) \o waiting /\ Line(p) = before \o waiting
  BY <1>2, <1>3 DEF Orderly, IsBusy, Line, Waiting
<1>. HIDE DEF told, noted, waiting
<1>6. before \in Seq(NormalIds)
  BY <1>4, ConcatProperties
<1>7. told \o (noted \o one) = before \o one
  <2> HIDE DEF one
  <2> QED
    BY <1>4, Regrouped
<1>. HIDE DEF before
<1>8. Distinct((before \o one) \o waiting)
  BY <1>4, <1>5, <1>6, InsertDistinct
<1>9. Orderly(q) /\ Distinct(Line(q))
  BY <1>5, <1>7, <1>8
<1> QED
  BY <1>9 DEF q, answer

\* The start of a run is the first that waits.
LEMMA StartLine ==
    ASSUME NEW p, Well(p), Orderly(p), Distinct(Line(p)), NEW id \in NormalIds,
           ~Contains(Line(p), id)
    PROVE  Orderly(ControlStart(p, id)) /\ Distinct(Line(ControlStart(p, id)))
<1>1. CASE IsBusy(p)
  BY <1>1, NoticeLine DEF ControlStart
<1>2. CASE ~IsBusy(p)
  <2>. DEFINE q == ControlStart(p, id)
              before == Noted(p.told) \o Noted(p.notices)
              one == <<id>>
  <2>1. /\ q.told = p.told /\ q.notices = p.notices
        /\ q.run = [NoRun EXCEPT !.phase = "waiting", !.start = id]
    BY <1>2 DEF ControlStart, Well, Replays
  <2>2. before \in Seq(NormalIds) /\ one \in Seq(NormalIds) /\ << >> \in Seq(NormalIds)
    BY LineType, ConcatProperties, EmptySeq
  <2>. HIDE DEF q
  <2>3. Waiting(p) = << >> /\ Waiting(q) = one \o << >> /\ Orderly(q)
    BY <1>2, <2>1 DEF Waiting, IsBusy, Orderly, NoRun
  <2>4. Line(p) = before \o << >> /\ Line(q) = before \o (one \o << >>)
    BY <2>1, <2>3 DEF Line
  <2>. HIDE DEF before
  <2>5. Distinct((before \o one) \o << >>)
    BY <2>2, <2>4, InsertDistinct
  <2>. HIDE DEF one
  <2>6. (before \o one) \o << >> = before \o (one \o << >>)
    BY <2>2, Regrouped
  <2> QED
    BY <2>3, <2>4, <2>5, <2>6 DEF q
<1> QED
  BY <1>1, <1>2

\* A stop of a run is the last that waits.
LEMMA StopLine ==
    ASSUME NEW p, Well(p), Orderly(p), Distinct(Line(p)), NEW id \in NormalIds,
           ~Contains(Line(p), id)
    PROVE  Orderly(ControlStop(p, id)) /\ Distinct(Line(ControlStop(p, id)))
<1>1. CASE ~IsBusy(p)
  BY <1>1, NoticeLine DEF ControlStop
<1>2. CASE IsBusy(p)
  <2>. DEFINE q == ControlStop(p, id)
              before == Noted(p.told) \o Noted(p.notices)
              first == <<p.run.start>>
              stops == p.run.stops
              one == <<id>>
              waiting == Waiting(p)
              line == Line(p)
  <2>1. /\ q.told = p.told /\ q.notices = p.notices
        /\ q.run.start = p.run.start /\ q.run.stops = Append(p.run.stops, id)
        /\ q.run.stopping = TRUE /\ q.run.phase = p.run.phase
    BY <1>2 DEF ControlStop, Well, Replays, Runs
  <2>2. /\ before \in Seq(NormalIds) /\ one \in Seq(NormalIds) /\ << >> \in Seq(NormalIds)
        /\ first \in Seq(NormalIds) /\ stops \in Seq(NormalIds) /\ waiting \in Seq(NormalIds)
        /\ line \in Seq(NormalIds)
    <3>1. p.run.start \in NormalIds /\ stops \in Seq(NormalIds)
      BY <1>2 DEF Well, Replays, Runs
    <3>2. before \in Seq(NormalIds) /\ waiting \in Seq(NormalIds) /\ line \in Seq(NormalIds)
      BY LineType, ConcatProperties
    <3>3. one \in Seq(NormalIds) /\ first \in Seq(NormalIds) /\ << >> \in Seq(NormalIds)
      BY <3>1, EmptySeq
    <3> QED
      BY <3>1, <3>2, <3>3
  <2>3. Append(stops, id) = stops \o one
    BY <2>2, AppendIsConcat
  <2>. HIDE DEF q
  <2>4. Waiting(q) = first \o (stops \o one) /\ waiting = first \o stops /\ Orderly(q)
    BY <1>2, <2>1, <2>3 DEF Waiting, IsBusy, Orderly
  <2>5. Line(q) = before \o Waiting(q) /\ line = before \o waiting
    BY <2>1 DEF Line
  <2>6. line \o << >> = line /\ Distinct(line) /\ ~Contains(line, id)
    BY <2>2, ConcatEmptySeq
  <2>. HIDE DEF line
  <2>7. Distinct((line \o one) \o << >>)
    BY <2>2, <2>6, InsertDistinct
  <2>. HIDE DEF before, first, stops, one, waiting
  <2>8. line \o one \in Seq(NormalIds)
    BY <2>2, ConcatProperties
  <2>9. (line \o one) \o << >> = line \o one
    BY <2>8, ConcatEmptySeq
  <2>10. first \o (stops \o one) = waiting \o one
    <3>1. (first \o stops) \o one = first \o (stops \o one)
      BY SMTT(30), <2>2, Regrouped
    <3> QED
      BY <2>4, <3>1
  <2>11. before \o (waiting \o one) = line \o one
    <3>1. (before \o waiting) \o one = before \o (waiting \o one)
      BY SMTT(30), <2>2, Regrouped
    <3> QED
      BY <2>5, <3>1
  <2> QED
    BY <2>4, <2>5, <2>7, <2>9, <2>10, <2>11 DEF q
<1> QED
  BY <1>1, <1>2

OnceInv == Orderly(replay) /\ Distinct(Line(replay))

\* All steps but a control command.
ReplayMoves ==
    \/ \E id \in NormalIds : CallNext(id) \/ CallNextFailed(id)
    \/ \E id \in Ids : \/ CallExternal(id) \/ CallExternalFailed(id)
                       \/ \E outcome \in Answers : CallAnswer(id, outcome)
    \/ \E barrier \in BOOLEAN : CallPoll(barrier)
    \/ CallNextExhausted
    \/ \E io \in BOOLEAN : CallEndReplay(io)
    \/ Load /\ UNCHANGED baseVars
    \/ UNCHANGED <<replay, loader, active, wire>>

\* They leave the line as it is.
LEMMA MovesLine ==
    ASSUME IInv, OnceInv, ReplayMoves
    PROVE  SameLine(replay, replay')
<1>0. Well(replay) /\ loader \in Loaders /\ Orderly(replay)
  BY DEF IInv, ReplayTypeOK, OnceInv
<1>1. ASSUME NEW id \in NormalIds, Frees
      PROVE  /\ SameLine(replay, Taken(replay)) /\ SameLine(replay, FromReplay(id))
             /\ Well(FromReplay(id)) /\ Well(Taken(replay)) /\ IsBusy(Taken(replay))
  BY <1>0, <1>1, SubmittedLine, SubmittedWell DEF Frees, Earlier, FromReplay
<1>2. ASSUME NEW id \in NormalIds, CallNext(id) PROVE SameLine(replay, replay')
  BY <1>1, <1>2 DEF CallNext
<1>3. ASSUME NEW id \in NormalIds, CallNextFailed(id) PROVE SameLine(replay, replay')
  <2>1. /\ SameLine(replay, FromReplay(id)) /\ Well(FromReplay(id)) /\ Orderly(FromReplay(id))
        /\ replay' = RunTerminal(FromReplay(id), id, "io") /\ "io" \in Settled
    BY <1>1, <1>3 DEF CallNextFailed, SameLine, Settled
  <2> QED
    BY <2>1, TerminalLine, SameLineTrans
<1>4. ASSUME CallNextExhausted PROVE SameLine(replay, replay')
  <2>1. 1 \in NormalIds
    BY LastIdAssumption DEF NormalIds
  <2>2. /\ SameLine(replay, Taken(replay)) /\ Well(Taken(replay)) /\ IsBusy(Taken(replay))
        /\ Orderly(Taken(replay)) /\ replay' = SubmissionFailed(Taken(replay))
    BY <1>1, <1>4, <2>1 DEF CallNextExhausted, SameLine
  <2> QED
    BY <2>2, ExhaustedLine, SameLineTrans
<1>5. ASSUME NEW id \in Ids, NEW outcome \in Answers, CallAnswer(id, outcome)
      PROVE  SameLine(replay, replay')
  <2>1. outcome \in Settled /\ replay' = RunTerminal(replay, id, outcome)
    BY <1>5 DEF CallAnswer, Settled
  <2> QED
    BY <1>0, <2>1, TerminalLine
<1>6. ASSUME NEW barrier \in BOOLEAN, CallPoll(barrier) PROVE SameLine(replay, replay')
  <2>. DEFINE polled == Polled(replay, loader, barrier)
  <2>1. /\ Well(polled) /\ SameLine(replay, polled) /\ Orderly(polled)
        /\ replay' = Told(polled)
    BY <1>0, <1>6, PolledWell, PolledLine DEF CallPoll, SameLine
  <2>. HIDE DEF polled
  <2> QED
    BY <2>1, ToldLine, SameLineTrans
<1>7. ASSUME NEW io \in BOOLEAN, CallEndReplay(io) PROVE SameLine(replay, replay')
  <2>. DEFINE ended == EndReplay(replay, io)
  <2>1. /\ Well(ended) /\ SameLine(replay, ended) /\ Orderly(ended)
        /\ replay' = Told(ended)
    BY <1>0, <1>7, EndsWell, EndLine DEF CallEndReplay, SameLine
  <2>. HIDE DEF ended
  <2> QED
    BY <2>1, ToldLine, SameLineTrans
<1>8. ASSUME UNCHANGED replay PROVE SameLine(replay, replay')
  BY <1>0, <1>8 DEF SameLine
<1>9. ASSUME NEW id \in Ids, CallExternal(id) \/ CallExternalFailed(id) PROVE UNCHANGED replay
  BY <1>9 DEF CallExternal, CallExternalFailed, replayVars
<1>10. Load => UNCHANGED replay
  BY DEF Load
<1> QED
  BY <1>2, <1>3, <1>4, <1>5, <1>6, <1>7, <1>8, <1>9, <1>10 DEF ReplayMoves

\* Every step keeps the line in order and without an id twice.
LEMMA OnceStep ==
    IInv /\ OnceInv /\ [ReplayNext]_<<replayVars, baseVars>> => OnceInv'
<1>. SUFFICES ASSUME IInv, OnceInv, [ReplayNext]_<<replayVars, baseVars>> PROVE OnceInv'
  OBVIOUS
<1>0. Well(replay) /\ loader \in Loaders /\ Orderly(replay) /\ Distinct(Line(replay))
  BY DEF IInv, ReplayTypeOK, OnceInv
<1>. DEFINE Kept(q) == Orderly(q) /\ Distinct(Line(q))
<1>1. ASSUME NEW id \in NormalIds, FreshId(id) PROVE ~Contains(Line(replay), id)
  <2>1. id \notin ControlIds(replay)
    BY <1>1 DEF FreshId, NormalIds
  <2> QED
    BY <1>0, <2>1, LineUsed
<1>2. Kept(replay')
  <2>1. ASSUME NEW id \in NormalIds, CallReplayStart(id) PROVE Kept(replay')
    BY <1>0, <1>1, <2>1, StartLine DEF CallReplayStart
  <2>2. ASSUME NEW id \in NormalIds, CallReplayStop(id) PROVE Kept(replay')
    BY <1>0, <1>1, <2>2, StopLine DEF CallReplayStop
  <2>3. CASE ReplayMoves
    BY <1>0, <2>3, MovesLine DEF SameLine
  <2> QED
    BY <2>1, <2>2, <2>3 DEF ReplayNext, ReplayMoves, replayVars, baseVars
<1> QED
  BY <1>2 DEF OnceInv

\* A line without an id twice answers no command twice, and none that waits.
LEMMA OnceIsOnce == IInv /\ OnceInv => ControlAnsweredOnce
<1>. SUFFICES ASSUME IInv, OnceInv PROVE ControlAnsweredOnce
  OBVIOUS
<1>. DEFINE all == replay.told \o replay.notices
            said == Noted(all)
            after == Waiting(replay)
            line == Line(replay)
            waiting == IF IsBusy(replay) THEN {replay.run.start} \cup ToSet(replay.run.stops)
                                         ELSE {}
<1>1. /\ Well(replay) /\ Distinct(line) /\ replay.told \in Seq(Notices)
      /\ replay.notices \in Seq(Notices) /\ replay.run.stops \in Seq(NormalIds)
  BY DEF IInv, OnceInv, Well, Replays, Runs
<1>2. all \in Seq(Notices) /\ line = said \o after
  BY <1>1, ConcatProperties, NotedConcat DEF Line
<1>3. /\ said \in Seq(NormalIds) /\ after \in Seq(NormalIds) /\ Len(said) = Len(all)
      /\ \A i \in 1 .. Len(all) : said[i] = all[i].id
  BY <1>1, <1>2, NotedIs, LineType
<1>4. ASSUME NEW id \in waiting PROVE \E k \in 1 .. Len(after) : after[k] = id
  <2>. DEFINE one == <<replay.run.start>>
              stops == replay.run.stops
  <2>1. IsBusy(replay) /\ after = one \o stops /\ one \in Seq(NormalIds) /\ stops \in Seq(NormalIds)
    BY <1>1, <1>4 DEF Waiting, Well
  <2>2. one[1] = replay.run.start /\ Len(one) = 1
    OBVIOUS
  <2>3. id = one[1] \/ \E k \in 1 .. Len(stops) : id = stops[k]
    BY <1>1, <2>1, <2>2 DEF ToSet
  <2>. HIDE DEF one, stops, after
  <2>4. /\ Len(after) = 1 + Len(stops) /\ Len(stops) \in Nat
        /\ \A i \in 1 .. 1 + Len(stops) : after[i] = IF i <= 1 THEN one[i] ELSE stops[i - 1]
    <3>1. /\ Len(one \o stops) = Len(one) + Len(stops) /\ Len(stops) \in Nat
          /\ \A i \in 1 .. Len(one) + Len(stops) :
                (one \o stops)[i] = IF i <= Len(one) THEN one[i] ELSE stops[i - Len(one)]
      BY <2>1, ConcatProperties
    <3> QED
      BY <2>1, <2>2, <3>1
  <2>5. CASE id = one[1]
    BY <2>4, <2>5
  <2>6. CASE \E k \in 1 .. Len(stops) : id = stops[k]
    <3>1. PICK k \in 1 .. Len(stops) : id = stops[k]
      BY <2>6
    <3>2. k + 1 \in 1 .. 1 + Len(stops) /\ (k + 1) - 1 = k /\ ~(k + 1 <= 1)
      BY <2>4
    <3> QED
      BY <2>4, <3>1, <3>2
  <2> QED
    BY <2>3, <2>5, <2>6
<1>. HIDE DEF all, said, after, line, waiting
<1>5. /\ Len(line) = Len(all) + Len(after) /\ Len(all) \in Nat /\ Len(after) \in Nat
      /\ \A i \in 1 .. Len(all) + Len(after) :
            line[i] = IF i <= Len(all) THEN said[i] ELSE after[i - Len(all)]
  <2>0. said \in Seq(NormalIds) /\ after \in Seq(NormalIds)
    BY <1>3
  <2>1. /\ Len(said \o after) = Len(said) + Len(after) /\ Len(said) \in Nat /\ Len(after) \in Nat
        /\ \A i \in 1 .. Len(said) + Len(after) :
              (said \o after)[i] = IF i <= Len(said) THEN said[i] ELSE after[i - Len(said)]
    BY <2>0, ConcatProperties
  <2> QED
    BY <1>2, <1>3, <2>1
<1>6. DOMAIN all = 1 .. Len(all)
  BY <1>2
<1>7. ASSUME NEW i \in 1 .. Len(all) PROVE i \in 1 .. Len(line) /\ line[i] = all[i].id
  <2>1. i \in 1 .. Len(all) + Len(after)
    BY <1>5
  <2> QED
    <3>1. i <= Len(all) /\ i \in 1 .. Len(line)
      BY <1>5, <2>1
    <3>2. line[i] = said[i]
      BY <1>5, <2>1, <3>1
    <3> QED
      BY <1>3, <3>1, <3>2
<1>8. ASSUME NEW i \in DOMAIN all, NEW j \in DOMAIN all, all[i].id = all[j].id PROVE i = j
  BY <1>1, <1>6, <1>7, <1>8 DEF Distinct
<1>9. ASSUME NEW i \in DOMAIN all PROVE all[i].id \notin waiting
  <2>. SUFFICES ASSUME all[i].id \in waiting PROVE FALSE
    OBVIOUS
  <2>1. PICK k \in 1 .. Len(after) : after[k] = all[i].id
    BY <1>4
  <2>2. /\ Len(all) + k \in 1 .. Len(all) + Len(after) /\ ~(Len(all) + k <= Len(all))
        /\ (Len(all) + k) - Len(all) = k
    BY <1>5
  <2>3. line[Len(all) + k] = all[i].id /\ Len(all) + k \in 1 .. Len(line)
    BY <1>5, <2>1, <2>2
  <2>4. i = Len(all) + k
    BY <1>1, <1>6, <1>7, <2>3 DEF Distinct
  <2> QED
    BY <1>5, <1>6, <2>4
<1> QED
  BY <1>8, <1>9 DEF ControlAnsweredOnce, all, waiting

\* Nobody waits at first.
LEMMA OnceInit == ReplayInit => OnceInv
<1>. SUFFICES ASSUME ReplayInit PROVE OnceInv
  OBVIOUS
<1>1. /\ replay.told = << >> /\ replay.notices = << >> /\ replay.run = NoRun
      /\ ~IsBusy(replay)
  BY DEF ReplayInit, NewReplay, NoRun, IsBusy
<1>2. Noted(<< >>) = << >>
  <2>1. << >> \in Seq(Notices) /\ Len(<< >>) = 0
    BY EmptySeq
  <2>2. Noted(<< >>) \in Seq(NormalIds) /\ Len(Noted(<< >>)) = 0
    BY <2>1, NotedIs
  <2> QED
    BY <2>2
<1>3. Line(replay) = << >>
  <2>1. << >> \in Seq(NormalIds)
    BY EmptySeq
  <2>2. << >> \o << >> = << >>
    BY <2>1, ConcatEmptySeq
  <2> QED
    BY <1>1, <1>2, <2>2 DEF Line, Waiting
<1>4. Distinct(<< >>)
  BY EmptySeq DEF Distinct
<1> QED
  BY <1>1, <1>3, <1>4 DEF OnceInv, Orderly, NoRun

(***************************************************************************)
(* Every control command of a replay is answered at most once, and none    *)
(* while it still waits for its run: whatever the loader answers, however  *)
(* the run ends, and with any number of starts and stops while it does.    *)
(***************************************************************************)
THEOREM ControlsAreAnsweredOnce == ReplaySpec => []ControlAnsweredOnce
BY OnceInit, TypeInit, TypeStep, OnceStep, OnceIsOnce, PTL DEF ReplaySpec

-----------------------------------------------------------------------------
(***************************************************************************)
(* The truth about a run.  While nothing blocked it, what it submitted is  *)
(* the part of the loaded plan it took, followed by the internal stop of a *)
(* stopped run; a command is open exactly while the run owns it; and a     *)
(* cause that blames the game points at a command that got that answer.    *)
(***************************************************************************)
Follows(run) ==
    \E n \in 0 .. Len(run.submitted) :
        /\ Len(run.loaded) = n + Len(run.plan)
        /\ \A i \in 1 .. n : run.submitted[i].kind = run.loaded[i]
        /\ \A i \in n + 1 .. Len(run.submitted) : run.submitted[i].kind = "halt"
        /\ \A j \in 1 .. Len(run.plan) : run.plan[j] = run.loaded[n + j]
        /\ n < Len(run.submitted) => run.stopping

\* One submitted command c.
Accounts(run, c) ==
    /\ c.outcome = "open" <=> c.id \in run.pending
    /\ c.id \in run.pending => (c.kind = "halt" <=> c.id \in run.halts)
    /\ run.blocked = "none" => /\ c.outcome \in {"open", "ok", "rejected"}
                               /\ c.kind = "halt" => c.outcome # "rejected"

Honest(run, w) ==
    /\ run.phase # "running" => run.submitted = << >>
    /\ run.blocked = "none" => Follows(run)
    /\ \A i \in 1 .. Len(run.submitted) :
          Accounts(run, run.submitted[i]) /\ \E k \in DOMAIN w : w[k] = run.submitted[i].id
    /\ \A x \in run.pending : \E i \in 1 .. Len(run.submitted) : run.submitted[i].id = x
    /\ BlockedNamesCause(run)

\* What is said of the run that ended last.
EndedTrue(last) ==
    CompletedMeansWhole(last) /\ StoppedMeansDrained(last) /\ BlockedNamesCause(last.run)

Faithful(p, w) == Honest(p.run, w) /\ EndedTrue(p.last)

LEMMA SubmittedIsSeq ==
    ASSUME NEW run \in Runs
    PROVE  /\ run.submitted \in Seq(Submissions) /\ Len(run.submitted) \in Nat
           /\ DOMAIN run.submitted = 1 .. Len(run.submitted)
           /\ \A i \in 1 .. Len(run.submitted) : run.submitted[i] \in Submissions
           /\ run.plan \in Seq(GameKinds) /\ Len(run.plan) \in Nat
           /\ run.loaded \in Seq(GameKinds) /\ Len(run.loaded) \in Nat
           /\ DOMAIN run.loaded = 1 .. Len(run.loaded)
           /\ \A i \in 1 .. Len(run.loaded) : run.loaded[i] \in GameKinds
<1>1. /\ run.submitted \in Seq(Submissions) /\ run.plan \in Seq(GameKinds)
      /\ run.loaded \in Seq(GameKinds)
  BY DEF Runs
<1> QED
  BY <1>1

LEMMA NoRunHonest == ASSUME NEW w PROVE Honest(NoRun, w)
<1>1. /\ NoRun.submitted = << >> /\ NoRun.plan = << >> /\ NoRun.loaded = << >>
      /\ NoRun.pending = {} /\ NoRun.blocked = "none" /\ Len(<< >>) = 0
  BY EmptySeq DEF NoRun
<1>2. Follows(NoRun)
  BY <1>1 DEF Follows
<1> QED
  BY <1>1, <1>2 DEF Honest, BlockedNamesCause

\* A run that has submitted nothing is honest if its plan is the loaded one.
LEMMA FreshHonest ==
    ASSUME NEW run \in Runs, NEW w, run.submitted = << >>, run.pending = {},
           run.plan = run.loaded, BlockedNamesCause(run)
    PROVE  Honest(run, w)
<1>1. Len(run.submitted) = 0 /\ Len(run.loaded) \in Nat
  BY EmptySeq, SubmittedIsSeq
<1>2. Follows(run)
  BY <1>1 DEF Follows
<1> QED
  BY <1>1, <1>2 DEF Honest

\* Stopping an honest run, or moving it on before it submits, leaves it honest.
LEMMA MovedHonest ==
    ASSUME NEW run \in Runs, NEW w, Honest(run, w), NEW q,
           q.submitted = run.submitted, q.plan = run.plan, q.loaded = run.loaded,
           q.pending = run.pending, q.halts = run.halts, q.blocked = run.blocked,
           run.stopping => q.stopping,
           q.phase = run.phase \/ run.phase # "running"
    PROVE  Honest(q, w)
<1>1. q.blocked = "none" => Follows(q)
  <2>. SUFFICES ASSUME q.blocked = "none" PROVE Follows(q)
    OBVIOUS
  <2>1. Follows(run)
    BY DEF Honest
  <2>2. PICK n \in 0 .. Len(run.submitted) :
           /\ Len(run.loaded) = n + Len(run.plan)
           /\ \A i \in 1 .. n : run.submitted[i].kind = run.loaded[i]
           /\ \A i \in n + 1 .. Len(run.submitted) : run.submitted[i].kind = "halt"
           /\ \A j \in 1 .. Len(run.plan) : run.plan[j] = run.loaded[n + j]
           /\ n < Len(run.submitted) => run.stopping
    BY <2>1 DEF Follows
  <2> QED
    BY SMTT(30), <2>2 DEF Follows
<1>2. \A i \in 1 .. Len(q.submitted) :
         Accounts(q, q.submitted[i]) /\ \E k \in DOMAIN w : w[k] = q.submitted[i].id
  BY DEF Honest, Accounts
<1>3. BlockedNamesCause(q)
  BY DEF Honest, BlockedNamesCause, Has
<1> QED
  BY <1>1, <1>2, <1>3 DEF Honest

\* Blocking an honest run for a cause that does not blame the game, whatever
\* was taken from its plan.
LEMMA NamedHonest ==
    ASSUME NEW run \in Runs, NEW w, Honest(run, w), NEW q,
           q.submitted = run.submitted, q.pending = run.pending, q.halts = run.halts,
           q.phase = run.phase, q.blocked \in Codes \ {"command_protocol_failed", "stop_failed"}
    PROVE  Honest(q, w)
<1>0. q.blocked # "none"
  BY DEF Codes
<1>1. \A i \in 1 .. Len(q.submitted) :
         Accounts(q, q.submitted[i]) /\ \E k \in DOMAIN w : w[k] = q.submitted[i].id
  BY <1>0 DEF Honest, Accounts
<1>2. BlockedNamesCause(q)
  BY DEF BlockedNamesCause
<1> QED
  BY <1>0, <1>1, <1>2 DEF Honest

LEMMA BlockHonest ==
    ASSUME NEW run \in Runs, NEW w, Honest(run, w),
           NEW code \in Codes \ {"command_protocol_failed", "stop_failed"}
    PROVE  Honest(Block(run, code), w)
<1>1. CASE run.blocked # "none"
  BY <1>1 DEF Block
<1>2. CASE run.blocked = "none"
  <2>1. /\ Block(run, code).submitted = run.submitted /\ Block(run, code).phase = run.phase
        /\ Block(run, code).pending = run.pending /\ Block(run, code).halts = run.halts
        /\ Block(run, code).blocked = code
    BY <1>2 DEF Block, Runs
  <2> QED
    BY <2>1, NamedHonest
<1> QED
  BY <1>1, <1>2

\* finish() tells the truth about an honest run that drained or is blocked.
LEMMA FinishFaithful ==
    ASSUME NEW p, Well(p), NEW w, Faithful(p, w),
           MayFinish(p.run) \/ p.run.blocked # "none"
    PROVE  Faithful(Finish(p), w)
<1>. DEFINE run == p.run
            last == [run |-> run, outcome |-> OutcomeOfRun(run)]
<1>1. Finish(p).run = NoRun /\ Finish(p).last = last /\ run \in Runs /\ Honest(run, w)
  BY DEF Finish, Well, Replays, Faithful
<1>2. last.run = run /\ last.outcome = OutcomeOfRun(run)
  OBVIOUS
<1>3. BlockedNamesCause(run)
  BY <1>1 DEF Honest
<1>. HIDE DEF run, last
<1>4. CASE run.blocked # "none"
  <2>1. last.outcome = "blocked"
    BY <1>2, <1>4 DEF OutcomeOfRun
  <2>2. EndedTrue(last)
    BY <1>2, <1>3, <2>1 DEF EndedTrue, CompletedMeansWhole, StoppedMeansDrained
  <2> QED
    BY <1>1, <2>2, NoRunHonest DEF Faithful
<1>5. CASE run.blocked = "none"
  <2>1. /\ run.plan = << >> \/ run.stopping
        /\ run.pending = {} /\ Follows(run)
    BY <1>1, <1>5 DEF MayFinish, IsHalting, Honest, run
  <2>2. /\ Len(run.submitted) \in Nat /\ DOMAIN run.submitted = 1 .. Len(run.submitted)
        /\ Len(run.plan) \in Nat /\ Len(run.loaded) \in Nat
        /\ DOMAIN run.loaded = 1 .. Len(run.loaded)
    BY <1>1, SubmittedIsSeq
  <2>3. \A i \in DOMAIN run.submitted :
           /\ run.submitted[i].outcome \in {"ok", "rejected"}
           /\ run.submitted[i].kind = "halt" => run.submitted[i].outcome = "ok"
    <3>. TAKE i \in DOMAIN run.submitted
    <3>1. Accounts(run, run.submitted[i])
      BY <1>1, <2>2 DEF Honest
    <3> QED
      BY <1>5, <2>1, <3>1 DEF Accounts
  <2>4. PICK n \in 0 .. Len(run.submitted) :
           /\ Len(run.loaded) = n + Len(run.plan)
           /\ \A i \in 1 .. n : run.submitted[i].kind = run.loaded[i]
           /\ \A i \in n + 1 .. Len(run.submitted) : run.submitted[i].kind = "halt"
           /\ n < Len(run.submitted) => run.stopping
    BY <2>1 DEF Follows
  <2>5. StoppedMeansDrained(last)
    <3>1. n <= Len(run.loaded)
      BY <2>2, <2>4
    <3> QED
      BY <1>2, <2>3, <2>4, <3>1 DEF StoppedMeansDrained
  <2>6. CompletedMeansWhole(last)
    <3>1. CASE run.stopping
      BY <1>2, <3>1, <1>5 DEF OutcomeOfRun, CompletedMeansWhole
    <3>2. CASE ~run.stopping
      <4>1. n = Len(run.submitted) /\ Len(run.plan) = 0
        BY <2>1, <2>2, <2>4, <3>2, EmptySeq
      <4>2. Len(run.loaded) = Len(run.submitted)
        BY <2>2, <2>4, <4>1
      <4>3. /\ DOMAIN KindsOf(run.submitted) = DOMAIN run.loaded
            /\ \A i \in DOMAIN run.loaded : KindsOf(run.submitted)[i] = run.loaded[i]
        BY <2>2, <2>4, <4>1, <4>2 DEF KindsOf
      <4>4. KindsOf(run.submitted) \in [DOMAIN run.loaded -> GameKinds]
        BY <1>1, <2>2, <4>2, <4>3, SubmittedIsSeq DEF KindsOf
      <4>5. run.loaded \in [DOMAIN run.loaded -> GameKinds]
        BY <1>1, <2>2, SubmittedIsSeq
      <4>6. KindsOf(run.submitted) = run.loaded
        BY <4>3, <4>4, <4>5
      <4> QED
        BY <1>2, <2>3, <4>6 DEF CompletedMeansWhole
    <3> QED
      BY <3>1, <3>2
  <2>7. EndedTrue(last)
    BY <1>2, <1>3, <2>5, <2>6 DEF EndedTrue
  <2> QED
    BY <1>1, <2>7, NoRunHonest DEF Faithful
<1> QED
  BY <1>4, <1>5

LEMMA WithRunFaithful ==
    ASSUME NEW p, Well(p), NEW w, Faithful(p, w), NEW run, Honest(run, w)
    PROVE  Faithful(WithRun(p, run), w)
BY DEF WithRun, Well, Replays, Faithful

\* Blocking a run, and ending it with it.
LEMMA BlockFaithful ==
    ASSUME NEW p, Well(p), NEW w, Faithful(p, w), IsBusy(p),
           NEW code \in Codes \ {"command_protocol_failed", "stop_failed"}
    PROVE  LET q == [p EXCEPT !.run = Block(@, code)] IN
           Faithful(q, w) /\ Faithful(Finish(q), w)
<1>. DEFINE q == WithRun(p, Block(p.run, code))
<1>1. p.run \in Runs /\ Honest(p.run, w) /\ p.run.phase # "idle"
  BY DEF Well, Replays, Faithful, IsBusy
<1>2. /\ Block(p.run, code) \in Runs /\ Block(p.run, code).start = p.run.start
      /\ Block(p.run, code).phase # "idle" /\ Block(p.run, code).blocked # "none"
      /\ Honest(Block(p.run, code), w)
  <2>1. Block(p.run, code) \in Runs /\ Honest(Block(p.run, code), w)
    BY <1>1, BlockType, BlockHonest
  <2> QED
    BY <1>1, <2>1 DEF Block, Runs, Codes
<1>3. Well(q) /\ Faithful(q, w) /\ q.run = Block(p.run, code)
  BY <1>2, WithRunWell, WithRunFaithful, WithRunIs
<1>4. Faithful(Finish(q), w)
  BY <1>2, <1>3, FinishFaithful
<1>5. q = [p EXCEPT !.run = Block(@, code)]
  BY DEF WithRun, Well, Replays
<1> QED
  BY <1>3, <1>4, <1>5

\* poll() submits nothing, so what it starts to run is still the loaded plan.
LEMMA WaitedFaithful ==
    ASSUME NEW p, Well(p), NEW w, Faithful(p, w), NEW l \in Loaders, NEW barrier \in BOOLEAN
    PROVE  Faithful(Waited(p, l, barrier), w)
<1>. DEFINE v == Waited(p, l, barrier)
<1>1. p.run \in Runs /\ p \in Replays /\ Honest(p.run, w)
  BY DEF Well, Replays, Faithful
<1>2. ASSUME NEW run \in Runs, NEW plan \in Seq(GameKinds), run.submitted = << >>,
             run.pending = {}, BlockedNamesCause(run),
             v = [p EXCEPT !.run = Running(run, plan)]
      PROVE  Faithful(v, w)
  <2>1. v = WithRun(p, Running(run, plan))
    BY <1>2 DEF WithRun
  <2>2. Running(run, plan) \in Runs
    BY <1>2, RunningType
  <2>3. /\ Running(run, plan).submitted = << >> /\ Running(run, plan).pending = {}
        /\ Running(run, plan).plan = plan /\ Running(run, plan).loaded = plan
        /\ Running(run, plan).blocked = run.blocked
    BY <1>2 DEF Running, Runs
  <2>4. BlockedNamesCause(Running(run, plan))
    BY <1>2, <2>3 DEF BlockedNamesCause, Has
  <2>5. Honest(Running(run, plan), w)
    BY <2>2, <2>3, <2>4, FreshHonest
  <2> QED
    BY <2>1, <2>5, WithRunFaithful
<1>3. ASSUME NEW phase \in {"preparing", "panicked"}, v = [p EXCEPT !.run.phase = phase],
             p.run.phase \in {"waiting", "preparing"}
      PROVE  Faithful(v, w)
  <2>. DEFINE run == [p.run EXCEPT !.phase = phase]
  <2>1. v = WithRun(p, run)
    BY <1>1, <1>3 DEF WithRun, Replays
  <2>2. /\ run.submitted = p.run.submitted /\ run.plan = p.run.plan /\ run.loaded = p.run.loaded
        /\ run.pending = p.run.pending /\ run.halts = p.run.halts
        /\ run.blocked = p.run.blocked /\ run.stopping = p.run.stopping
    BY <1>1 DEF Runs
  <2>3. Honest(run, w)
    BY <1>1, <1>3, <2>2, MovedHonest
  <2> QED
    BY <2>1, <2>3, WithRunFaithful
<1>4. p.run.phase \in {"waiting", "preparing"} => p.run.submitted = << >> /\ p.run.pending = {}
  <2>1. p.run.phase \in {"waiting", "preparing"} => p.run.submitted = << >>
    BY <1>1 DEF Honest
  <2>2. p.run.submitted = << >> => Len(p.run.submitted) = 0
    BY EmptySeq
  <2>3. p.run.submitted = << >> => p.run.pending = {}
    BY <1>1, <2>2 DEF Honest
  <2> QED
    BY <2>1, <2>3
<1>5. << >> \in Seq(GameKinds) /\ l.plan \in Seq(GameKinds)
  BY EmptySeq DEF Loaders
<1>6. CASE p.run.phase = "waiting" /\ p.run.stopping
  <2>1. v = [p EXCEPT !.run = Running(p.run, << >>)] /\ BlockedNamesCause(p.run)
    BY <1>1, <1>6 DEF Waited, Honest
  <2> QED
    BY <1>1, <1>2, <1>4, <1>5, <1>6, <2>1
<1>7. CASE StartsLoading(p.run, barrier)
  BY <1>3, <1>7 DEF Waited, StartsLoading
<1>8. CASE ~(p.run.phase = "waiting" /\ p.run.stopping) /\ ~StartsLoading(p.run, barrier)
  <2>1. v = Loaded(p, l)
    BY <1>8 DEF Waited
  <2>2. CASE p.run.phase # "preparing" \/ l.at \in {"none", "loading"}
    BY <2>1, <2>2 DEF Loaded
  <2>3. CASE p.run.phase = "preparing" /\ l.at = "lost"
    <3>. DEFINE run == Block(p.run, "session_io_failed")
    <3>1. v = [p EXCEPT !.run = Running(run, << >>)]
      BY <2>1, <2>3 DEF Loaded
    <3>2. "session_io_failed" \in Codes \ {"command_protocol_failed", "stop_failed"}
      BY DEF Codes
    <3>3. run \in Runs /\ Honest(run, w)
      BY <1>1, <3>2, BlockType, BlockHonest
    <3>4. run.submitted = << >> /\ run.pending = {} /\ BlockedNamesCause(run)
      BY <1>1, <1>4, <2>3, <3>3 DEF Block, Runs, Honest
    <3>. HIDE DEF run
    <3> QED
      BY <1>2, <1>5, <3>1, <3>3, <3>4
  <2>4. CASE p.run.phase = "preparing" /\ l.at \in {"plan", "error", "cancelled"} /\ p.run.stopping
    <3>1. v = [p EXCEPT !.run = Running(p.run, << >>)] /\ BlockedNamesCause(p.run)
      BY <1>1, <2>1, <2>4 DEF Loaded, Honest
    <3> QED
      BY <1>1, <1>2, <1>4, <1>5, <2>4, <3>1
  <2>5. CASE p.run.phase = "preparing" /\ l.at = "plan" /\ ~p.run.stopping
    <3>1. v = [p EXCEPT !.run = Running(p.run, l.plan)] /\ BlockedNamesCause(p.run)
      BY <1>1, <2>1, <2>5 DEF Loaded, Honest
    <3> QED
      BY <1>1, <1>2, <1>4, <1>5, <2>5, <3>1
  <2>6. CASE p.run.phase = "preparing" /\ l.at = "error" /\ ~p.run.stopping
    <3>1. v.run = NoRun /\ v.last = p.last
      BY <1>1, <2>1, <2>6 DEF Loaded, Replays
    <3> QED
      BY <3>1, NoRunHonest DEF Faithful
  <2>7. CASE p.run.phase = "preparing" /\ l.at = "cancelled" /\ ~p.run.stopping
    BY <1>3, <2>1, <2>7 DEF Loaded
  <2> QED
    BY <2>2, <2>3, <2>4, <2>5, <2>6, <2>7 DEF Loaders
<1> QED
  BY <1>6, <1>7, <1>8

LEMMA PolledFaithful ==
    ASSUME NEW p, Well(p), NEW w, Faithful(p, w), NEW l \in Loaders, NEW barrier \in BOOLEAN
    PROVE  Faithful(Polled(p, l, barrier), w)
<1>. DEFINE v == Waited(p, l, barrier)
<1>1. Faithful(v, w) /\ Well(v)
  BY WaitedFaithful, WaitedWell
<1>2. CASE MayFinish(v.run)
  BY <1>1, <1>2, FinishFaithful DEF Polled
<1>3. CASE ~MayFinish(v.run)
  BY <1>1, <1>3 DEF Polled
<1> QED
  BY <1>2, <1>3

\* The calls that touch neither the run nor what was said of the last one.
LEMMA NoticeFaithful ==
    ASSUME NEW p, Well(p), NEW w, Faithful(p, w), NEW notices
    PROVE  Faithful([p EXCEPT !.notices = notices], w)
BY DEF Faithful, Well, Replays

LEMMA ToldFaithful ==
    ASSUME NEW p, Well(p), NEW w, Faithful(p, w)
    PROVE  Faithful(Told(p), w)
BY DEF Told, Faithful, Well, Replays

LEMMA ControlFaithful ==
    ASSUME NEW p, Well(p), NEW w, Faithful(p, w), NEW id \in NormalIds
    PROVE  Faithful(ControlStart(p, id), w) /\ Faithful(ControlStop(p, id), w)
<1>1. p.run \in Runs /\ p \in Replays /\ Honest(p.run, w)
  BY DEF Well, Replays, Faithful
<1>2. Faithful(ControlStart(p, id), w)
  <2>1. CASE IsBusy(p)
    BY <2>1, NoticeFaithful DEF ControlStart
  <2>2. CASE ~IsBusy(p)
    <3>. DEFINE run == [NoRun EXCEPT !.phase = "waiting", !.start = id]
    <3>1. run \in Runs /\ run.submitted = << >> /\ run.pending = {} /\ run.plan = run.loaded
      BY NoRunType DEF Runs, NoRun
    <3>2. BlockedNamesCause(run)
      BY DEF BlockedNamesCause, NoRun
    <3>3. ControlStart(p, id) = WithRun(p, run)
      BY <2>2 DEF ControlStart, WithRun
    <3>. HIDE DEF run
    <3> QED
      BY <3>1, <3>2, <3>3, FreshHonest, WithRunFaithful
  <2> QED
    BY <2>1, <2>2
<1>3. Faithful(ControlStop(p, id), w)
  <2>1. CASE IsBusy(p)
    <3>. DEFINE run == [p.run EXCEPT !.stopping = TRUE, !.stops = Append(@, id)]
    <3>1. ControlStop(p, id) = WithRun(p, run)
      BY <1>1, <2>1 DEF ControlStop, WithRun, Replays, Runs
    <3>2. /\ run.submitted = p.run.submitted /\ run.plan = p.run.plan /\ run.loaded = p.run.loaded
          /\ run.pending = p.run.pending /\ run.halts = p.run.halts
          /\ run.blocked = p.run.blocked /\ run.stopping /\ run.phase = p.run.phase
      BY <1>1 DEF Runs
    <3>. HIDE DEF run
    <3>3. Honest(run, w)
      BY <1>1, <3>2, MovedHonest
    <3> QED
      BY <3>1, <3>3, WithRunFaithful
  <2>2. CASE ~IsBusy(p)
    BY <2>2, NoticeFaithful DEF ControlStop
  <2> QED
    BY <2>1, <2>2
<1> QED
  BY <1>2, <1>3

LEMMA EndFaithful ==
    ASSUME NEW p, Well(p), NEW w, Faithful(p, w), NEW io \in BOOLEAN
    PROVE  Faithful(EndReplay(p, io), w)
<1>1. CASE IsBusy(p)
  <2>. DEFINE code == IF io THEN "session_io_failed" ELSE "session_ended"
  <2>1. /\ code \in Codes \ {"command_protocol_failed", "stop_failed"}
        /\ EndReplay(p, io) = Finish([p EXCEPT !.run = Block(@, code)])
    BY <1>1 DEF EndReplay, Codes
  <2>. HIDE DEF code
  <2> QED
    BY <1>1, <2>1, BlockFaithful
<1>2. CASE ~IsBusy(p)
  BY <1>2 DEF EndReplay
<1> QED
  BY <1>1, <1>2

\* The next command of an honest run goes out: the next of its plan, or its stop.
LEMMA SubmittedFaithful ==
    ASSUME NEW p, Well(p), IsBusy(p), NEW w \in Seq(Ids), Faithful(p, w),
           NEW id \in NormalIds, \A k \in DOMAIN w : w[k] < id,
           HaltsWarp(p.run) \/ \E earlier \in BOOLEAN : FreesPlan(p.run, earlier),
           p.run.halts \subseteq p.run.pending,
           p.run.warp # 0 => p.run.warp \in p.run.pending
    PROVE  Faithful(Submitted(Taken(p), id, NextKind(p.run)), Append(w, id))
<1>. DEFINE run  == p.run
            halt == IsHalting(run)
            kind == IF halt THEN "halt" ELSE Head(run.plan)
            sent == [id |-> id, outcome |-> "open", kind |-> kind]
            q    == Submitted(Taken(p), id, NextKind(run)).run
            n1   == Len(run.submitted) + 1
<1>1. p \in Replays /\ run \in Runs /\ Honest(run, w)
  BY DEF Well, Replays, Faithful
<1>2. /\ Len(run.submitted) \in Nat /\ run.submitted \in Seq(Submissions)
      /\ Len(run.plan) \in Nat /\ run.plan \in Seq(GameKinds)
      /\ Len(run.loaded) \in Nat
  BY <1>1, SubmittedIsSeq
<1>3. /\ q.submitted = Append(run.submitted, sent) /\ q.pending = run.pending \cup {id}
      /\ q.halts = (IF halt THEN run.halts \cup {id} ELSE run.halts)
      /\ q.loaded = run.loaded /\ q.plan = (IF halt THEN run.plan ELSE Tail(run.plan))
      /\ q.stopping = run.stopping /\ q.blocked = run.blocked /\ q.phase = run.phase
      /\ Submitted(Taken(p), id, NextKind(run)).last = p.last
  <2>1. Taken(p) \in Replays /\ Taken(p).run \in Runs
    BY SubmittedWell DEF Well, Replays
  <2>2. CASE halt
    <3>1. /\ Taken(p).run = [run EXCEPT !.stopSent = TRUE] /\ Taken(p).last = p.last
          /\ NextKind(run) = "warpStop"
      BY <1>1, <2>2 DEF Taken, Replays, NextKind
    <3>2. IsHalting(Taken(p).run)
      BY <1>1, <2>2, <3>1 DEF IsHalting, Runs
    <3> QED
      BY ZenonT(40), <1>1, <2>1, <2>2, <3>1, <3>2 DEF Submitted, Replays, Runs
  <2>3. CASE ~halt
    <3>1. /\ Taken(p).run = [run EXCEPT !.plan = Tail(run.plan)] /\ Taken(p).last = p.last
          /\ NextKind(run) = Head(run.plan)
      BY <1>1, <2>3 DEF Taken, Replays, NextKind
    <3>2. ~IsHalting(Taken(p).run)
      BY <1>1, <2>3, <3>1 DEF IsHalting, Runs
    <3> QED
      BY <1>1, <2>1, <2>3, <3>1, <3>2 DEF Submitted, Replays, Runs
  <2> QED
    BY <2>2, <2>3
<1>4. /\ Len(Append(run.submitted, sent)) = n1
      /\ \A i \in 1 .. Len(run.submitted) : Append(run.submitted, sent)[i] = run.submitted[i]
      /\ Append(run.submitted, sent)[n1] = sent
  BY <1>2
<1>5. id \notin run.pending /\ id \notin run.halts
      /\ \A i \in 1 .. Len(run.submitted) : run.submitted[i].id # id
  <2>1. ASSUME NEW i \in 1 .. Len(run.submitted) PROVE run.submitted[i].id # id
    <3>1. PICK k \in DOMAIN w : w[k] = run.submitted[i].id
      BY <1>1 DEF Honest
    <3>2. w[k] < id /\ id \in Nat
      BY LastIdAssumption DEF NormalIds
    <3> QED
      BY <3>1, <3>2
  <2> QED
    BY <1>1, <2>1 DEF Honest
<1>6. q.phase = "running"
  <2>1. CASE HaltsWarp(run)
    <3>1. run.warp \in run.pending
      BY <2>1 DEF HaltsWarp
    <3>2. PICK i \in 1 .. Len(run.submitted) : run.submitted[i].id = run.warp
      BY <1>1, <3>1 DEF Honest
    <3>3. run.submitted # << >>
      BY <1>2, <3>2, EmptySeq
    <3> QED
      BY <1>1, <1>3, <3>3 DEF Honest
  <2>2. CASE \E earlier \in BOOLEAN : FreesPlan(run, earlier)
    BY <1>3, <2>2 DEF FreesPlan
  <2> QED
    BY <2>1, <2>2
<1>. HIDE DEF q, sent
<1>13. /\ Len(q.submitted) = n1 /\ q.submitted[n1] = sent
       /\ \A i \in 1 .. Len(run.submitted) :
             i \in 1 .. Len(q.submitted) /\ q.submitted[i] = run.submitted[i]
  BY <1>2, <1>3, <1>4
<1>7. \A i \in 1 .. Len(q.submitted) :
         Accounts(q, q.submitted[i]) /\ \E k \in DOMAIN Append(w, id) : Append(w, id)[k] = q.submitted[i].id
  <2>. TAKE i \in 1 .. Len(q.submitted)
  <2>1. /\ Len(Append(w, id)) = Len(w) + 1 /\ Len(w) \in Nat
        /\ DOMAIN Append(w, id) = 1 .. Len(w) + 1 /\ DOMAIN w = 1 .. Len(w)
        /\ \A k \in 1 .. Len(w) : Append(w, id)[k] = w[k]
        /\ Append(w, id)[Len(w) + 1] = id
    <3>1. NormalIds \subseteq Ids
      BY DEF Ids
    <3>2. Append(w, id) \in Seq(Ids)
      BY <3>1
    <3> QED
      BY <3>1, <3>2
  <2>2. CASE i = n1
    <3>1. q.submitted[i] = sent /\ sent.id = id /\ sent.outcome = "open" /\ sent.kind = kind
      BY <1>3, <1>4, <2>2 DEF sent
    <3>2. kind = "halt" <=> id \in q.halts
      <4>1. ~halt => kind \in GameKinds
        <5>1. ~halt => run.plan # << >>
          BY DEF HaltsWarp, FreesPlan
        <5> QED
          BY <1>2, <5>1, HeadTailProperties
      <4>2. ~halt => kind # "halt"
        BY <4>1 DEF GameKinds
      <4> QED
        BY <1>3, <1>5, <4>2
    <3>3. Accounts(q, sent)
      BY <1>3, <3>1, <3>2 DEF Accounts, GameKinds
    <3>4. Len(w) + 1 \in DOMAIN Append(w, id)
      BY <2>1
    <3> QED
      BY <2>1, <3>1, <3>3, <3>4
  <2>3. CASE i # n1
    <3>1. i \in 1 .. Len(run.submitted)
      BY <1>2, <1>3, <1>4, <2>3
    <3>2. /\ q.submitted[i] = run.submitted[i] /\ run.submitted[i].id # id
          /\ Accounts(run, run.submitted[i]) /\ \E k \in DOMAIN w : w[k] = run.submitted[i].id
      BY <1>1, <1>3, <1>4, <1>5, <3>1 DEF Honest
    <3>3. Accounts(q, run.submitted[i])
      BY <1>3, <3>2 DEF Accounts
    <3>4. \E k \in DOMAIN Append(w, id) : Append(w, id)[k] = run.submitted[i].id
      BY <2>1, <3>2
    <3> QED
      BY <3>2, <3>3, <3>4
  <2> QED
    BY <2>2, <2>3
<1>8. \A x \in q.pending : \E i \in 1 .. Len(q.submitted) : q.submitted[i].id = x
  <2>. TAKE x \in q.pending
  <2>1. CASE x = id
    <3>1. n1 \in 1 .. Len(q.submitted) /\ q.submitted[n1].id = id
      BY <1>2, <1>3, <1>4 DEF sent
    <3> QED
      BY <2>1, <3>1
  <2>2. CASE x # id
    <3>1. PICK i \in 1 .. Len(run.submitted) : run.submitted[i].id = x
      BY <1>1, <1>3, <2>2 DEF Honest
    <3>2. i \in 1 .. Len(q.submitted) /\ q.submitted[i] = run.submitted[i]
      BY <1>13, <3>1
    <3> QED
      BY <3>1, <3>2
  <2> QED
    BY <2>1, <2>2
<1>9. q.blocked = "none" => Follows(q)
  <2>. SUFFICES ASSUME q.blocked = "none" PROVE Follows(q)
    OBVIOUS
  <2>1. Follows(run)
    BY <1>1, <1>3 DEF Honest
  <2>2. PICK n \in 0 .. Len(run.submitted) :
           /\ Len(run.loaded) = n + Len(run.plan)
           /\ \A i \in 1 .. n : run.submitted[i].kind = run.loaded[i]
           /\ \A i \in n + 1 .. Len(run.submitted) : run.submitted[i].kind = "halt"
           /\ \A j \in 1 .. Len(run.plan) : run.plan[j] = run.loaded[n + j]
           /\ n < Len(run.submitted) => run.stopping
    BY <2>1 DEF Follows
  <2>3. CASE halt
    <3>1. run.stopping
      BY <1>3, <2>3 DEF IsHalting
    <3>2. \A i \in 1 .. n : q.submitted[i].kind = q.loaded[i]
      BY <1>2, <1>3, <1>4, <2>2
    <3>3. \A i \in n + 1 .. Len(q.submitted) : q.submitted[i].kind = "halt"
      <4>. TAKE i \in n + 1 .. Len(q.submitted)
      <4>1. CASE i = n1
        BY <1>3, <1>4, <2>3, <4>1 DEF sent
      <4>2. CASE i # n1
        <5>1. i \in n + 1 .. Len(run.submitted) /\ i \in 1 .. Len(run.submitted)
          BY <1>2, <1>3, <1>4, <4>2
        <5> QED
          BY <1>3, <1>4, <2>2, <5>1
      <4> QED
        BY <4>1, <4>2
    <3>4. n \in 0 .. Len(q.submitted)
      BY <1>2, <1>3, <1>4
    <3>5. Len(q.loaded) = n + Len(q.plan) /\ \A j \in 1 .. Len(q.plan) : q.plan[j] = q.loaded[n + j]
      BY <1>3, <2>2, <2>3
    <3> QED
      BY <1>3, <3>1, <3>2, <3>3, <3>4, <3>5 DEF Follows
  <2>4. CASE ~halt
    <3>1. n = Len(run.submitted)
      BY <1>2, <2>2, <2>4 DEF IsHalting
    <3>2. run.plan # << >>
      BY <2>4 DEF HaltsWarp, FreesPlan
    <3>3. /\ Head(run.plan) = run.plan[1] /\ Len(Tail(run.plan)) = Len(run.plan) - 1
          /\ Len(run.plan) \in Nat \ {0} /\ Tail(run.plan) \in Seq(GameKinds)
          /\ \A j \in 1 .. Len(run.plan) - 1 : Tail(run.plan)[j] = run.plan[j + 1]
      BY <1>2, <3>2, HeadTailProperties, EmptySeq
    <3>4. \A i \in 1 .. n + 1 : q.submitted[i].kind = q.loaded[i]
      <4>. TAKE i \in 1 .. n + 1
      <4>1. CASE i = n + 1
        <5>1. 1 \in 1 .. Len(run.plan)
          BY <3>3
        <5>2. run.plan[1] = run.loaded[n + 1]
          BY <2>2, <5>1
        <5>3. q.submitted[i].kind = run.plan[1]
          BY <1>3, <1>4, <2>4, <3>1, <3>3, <4>1 DEF sent
        <5> QED
          BY <1>3, <4>1, <5>2, <5>3
      <4>2. CASE i # n + 1
        <5>1. i \in 1 .. n /\ i \in 1 .. Len(run.submitted)
          BY <3>1, <4>2
        <5>2. q.submitted[i] = run.submitted[i] /\ run.submitted[i].kind = run.loaded[i]
          BY <1>13, <2>2, <5>1
        <5> QED
          BY <1>3, <5>2
      <4> QED
        BY <4>1, <4>2
    <3>5. Len(q.submitted) = n + 1
      BY <1>3, <1>4, <3>1
    <3>6. Len(q.loaded) = (n + 1) + Len(q.plan)
      <4>1. Len(q.plan) = Len(run.plan) - 1 /\ Len(q.loaded) = n + Len(run.plan)
        BY <1>3, <2>2, <2>4, <3>3
      <4>2. n \in Nat /\ Len(run.plan) \in Nat
        BY <1>2, <3>1
      <4>. DEFINE before == Len(run.plan)
                  after  == Len(q.plan)
                  whole  == Len(q.loaded)
      <4>3. after = before - 1 /\ whole = n + before /\ n \in Nat /\ before \in Nat
        BY <4>1, <4>2
      <4>4. whole = (n + 1) + after
        <5> HIDE DEF before, after, whole
        <5> QED
          BY <4>3
      <4> QED
        BY <4>4
    <3>7. \A j \in 1 .. Len(q.plan) : q.plan[j] = q.loaded[(n + 1) + j]
      <4>. TAKE j \in 1 .. Len(q.plan)
      <4>1. j \in 1 .. Len(run.plan) - 1 /\ j + 1 \in 1 .. Len(run.plan)
        BY <1>3, <2>4, <3>3
      <4>2. q.plan[j] = run.plan[j + 1]
        BY <1>3, <2>4, <3>3, <4>1
      <4>3. run.plan[j + 1] = run.loaded[n + (j + 1)]
        BY <2>2, <4>1
      <4>4. n + (j + 1) = (n + 1) + j
        BY <4>1
      <4> QED
        BY <1>3, <4>2, <4>3, <4>4
    <3>8. n + 1 \in 0 .. Len(q.submitted)
      BY <3>5, <1>2, <3>1
    <3>9. \A i \in (n + 1) + 1 .. Len(q.submitted) : q.submitted[i].kind = "halt"
      BY <3>5
    <3>10. ~(n + 1 < Len(q.submitted))
      BY <3>5
    <3> QED
      BY <3>4, <3>6, <3>7, <3>8, <3>9, <3>10 DEF Follows
  <2> QED
    BY <2>3, <2>4
<1>10. BlockedNamesCause(q)
  <2>1. ASSUME NEW kinds, NEW outcomes, Has(run, kinds, outcomes) PROVE Has(q, kinds, outcomes)
    <3>1. PICK i \in DOMAIN run.submitted :
             run.submitted[i].kind \in kinds /\ run.submitted[i].outcome \in outcomes
      BY <2>1 DEF Has
    <3>2. i \in 1 .. Len(run.submitted)
      BY <1>2, <3>1
    <3>3. i \in 1 .. Len(q.submitted) /\ q.submitted[i] = run.submitted[i]
      BY <1>2, <1>3, <1>4, <3>2
    <3>4. DOMAIN Append(run.submitted, sent) = 1 .. n1
      BY <1>2
    <3> QED
      BY <1>3, <1>4, <3>1, <3>3, <3>4 DEF Has
  <2> QED
    BY <1>1, <1>3, <2>1 DEF Honest, BlockedNamesCause
<1>11. Honest(q, Append(w, id))
  BY <1>6, <1>7, <1>8, <1>9, <1>10 DEF Honest
<1> QED
  BY <1>3, <1>11 DEF Faithful, q

\* The answer to a command of an honest run settles it, and blocks the run if
\* the game gave no valid one or the internal stop failed.
LEMMA TerminalFaithful ==
    ASSUME NEW p, Well(p), NEW w, Faithful(p, w), NEW id, NEW outcome \in Settled
    PROVE  Faithful(RunTerminal(p, id, outcome), w)
<1>. DEFINE run  == p.run
            halt == id \in run.halts
            code == CodeOf(outcome, halt)
            r    == RunSettled(run, id, outcome)
            b    == Block(r, code)
            settled == WithRun(p, r)
            blocked == WithRun(settled, b)
<1>1. CASE id \notin p.run.pending
  BY <1>1 DEF RunTerminal
<1>. SUFFICES ASSUME id \in p.run.pending PROVE Faithful(RunTerminal(p, id, outcome), w)
  BY <1>1
<1>2. p \in Replays /\ run \in Runs /\ Honest(run, w) /\ IsBusy(p)
  BY DEF Well, Replays, Faithful
<1>3. /\ Len(run.submitted) \in Nat /\ DOMAIN run.submitted = 1 .. Len(run.submitted)
      /\ \A i \in 1 .. Len(run.submitted) : run.submitted[i] \in Submissions
  BY <1>2, SubmittedIsSeq
<1>4. /\ r \in Runs /\ r.start = run.start /\ r.phase = run.phase
      /\ r.pending = run.pending \ {id} /\ r.halts = run.halts \ {id}
      /\ r.submitted = WithOutcome(run.submitted, id, outcome)
      /\ r.plan = run.plan /\ r.loaded = run.loaded /\ r.stopping = run.stopping
      /\ r.blocked = run.blocked
  BY ZenonT(40), <1>2, SettledType DEF RunSettled, Runs
<1>5. /\ Len(r.submitted) = Len(run.submitted)
      /\ \A i \in 1 .. Len(run.submitted) :
            /\ r.submitted[i].id = run.submitted[i].id
            /\ r.submitted[i].kind = run.submitted[i].kind
            /\ r.submitted[i].outcome = (IF run.submitted[i].id = id THEN outcome
                                         ELSE run.submitted[i].outcome)
  <2>1. DOMAIN r.submitted = 1 .. Len(run.submitted)
    BY <1>3, <1>4 DEF WithOutcome
  <2>2. Len(r.submitted) = Len(run.submitted)
    <3>1. /\ DOMAIN r.submitted = 1 .. Len(r.submitted) /\ Len(r.submitted) \in Nat
      BY <1>4, SubmittedIsSeq
    <3> QED
      BY <1>3, <2>1, <3>1
  <2> QED
    BY <1>3, <1>4, <2>2 DEF WithOutcome, Submissions
<1>. HIDE DEF r
<1>6. PICK one \in 1 .. Len(run.submitted) : run.submitted[one].id = id
  BY <1>2 DEF Honest
<1>7. run.phase = "running"
  <2>1. run.submitted # << >>
    BY <1>3, <1>6, EmptySeq
  <2> QED
    BY <1>2, <2>1 DEF Honest
<1>8. ASSUME NEW i \in 1 .. Len(run.submitted)
      PROVE  /\ r.submitted[i].outcome = "open" <=> r.submitted[i].id \in r.pending
             /\ r.submitted[i].id \in r.pending
                  => (r.submitted[i].kind = "halt" <=> r.submitted[i].id \in r.halts)
             /\ \E k \in DOMAIN w : w[k] = r.submitted[i].id
             /\ run.submitted[i].id = id
                  => /\ r.submitted[i].kind = "halt" <=> halt
                     /\ r.submitted[i].outcome = outcome
  <2>1. Accounts(run, run.submitted[i]) /\ \E k \in DOMAIN w : w[k] = run.submitted[i].id
    BY <1>2 DEF Honest
  <2>2. outcome # "open"
    BY AnswersAssumption DEF Settled
  <2> QED
    BY <1>4, <1>5, <2>1, <2>2 DEF Accounts
<1>9. \A x \in r.pending : \E i \in 1 .. Len(r.submitted) : r.submitted[i].id = x
  BY <1>2, <1>4, <1>5 DEF Honest
<1>10. ASSUME NEW kinds, NEW outcomes, "open" \notin outcomes, Has(run, kinds, outcomes)
       PROVE  \E i \in 1 .. Len(r.submitted) :
                 r.submitted[i].kind \in kinds /\ r.submitted[i].outcome \in outcomes
  <2>1. PICK i \in 1 .. Len(run.submitted) :
           run.submitted[i].kind \in kinds /\ run.submitted[i].outcome \in outcomes
    BY <1>3, <1>10 DEF Has
  <2>2. Accounts(run, run.submitted[i])
    BY <1>2 DEF Honest
  <2>3. run.submitted[i].id # id
    BY <1>10, <2>1, <2>2 DEF Accounts
  <2> QED
    BY <1>5, <2>1, <2>3
<1>11. DOMAIN r.submitted = 1 .. Len(r.submitted)
  BY <1>4, SubmittedIsSeq
<1>12. BlockedNamesCause(r)
  BY <1>2, <1>4, <1>10, <1>11 DEF Honest, BlockedNamesCause, Has
<1>13. Well(settled) /\ IsBusy(settled) /\ settled.run = r /\ settled.last = p.last
  <2>1. r.phase # "idle"
    BY <1>4, <1>7
  <2>2. settled.run = r /\ settled.last = p.last
    BY <1>2 DEF WithRun, Replays
  <2> QED
    BY <1>2, <1>4, <2>1, <2>2, WithRunWell DEF IsBusy
<1>14. CASE outcome = "ok" \/ (outcome = "rejected" /\ ~halt)
  <2>1. RunTerminal(p, id, outcome) = settled
    BY <1>2, <1>14 DEF RunTerminal, WithRun, Replays, r
  <2>2. \A i \in 1 .. Len(r.submitted) :
           Accounts(r, r.submitted[i]) /\ \E k \in DOMAIN w : w[k] = r.submitted[i].id
    <3>. TAKE i \in 1 .. Len(r.submitted)
    <3>1. i \in 1 .. Len(run.submitted) /\ Accounts(run, run.submitted[i])
      BY <1>2, <1>5 DEF Honest
    <3>2. r.blocked = "none" => /\ r.submitted[i].outcome \in {"open", "ok", "rejected"}
                                /\ r.submitted[i].kind = "halt" => r.submitted[i].outcome # "rejected"
      <4>1. CASE run.submitted[i].id = id
        BY <1>8, <1>14, <3>1, <4>1
      <4>2. CASE run.submitted[i].id # id
        BY <1>4, <1>5, <3>1, <4>2 DEF Accounts
      <4> QED
        BY <4>1, <4>2
    <3> QED
      BY <1>8, <3>1, <3>2 DEF Accounts
  <2>3. r.blocked = "none" => Follows(r)
    <3>. SUFFICES ASSUME r.blocked = "none" PROVE Follows(r)
      OBVIOUS
    <3>1. Follows(run)
      BY <1>2, <1>4 DEF Honest
    <3>2. PICK n \in 0 .. Len(run.submitted) :
             /\ Len(run.loaded) = n + Len(run.plan)
             /\ \A i \in 1 .. n : run.submitted[i].kind = run.loaded[i]
             /\ \A i \in n + 1 .. Len(run.submitted) : run.submitted[i].kind = "halt"
             /\ \A j \in 1 .. Len(run.plan) : run.plan[j] = run.loaded[n + j]
             /\ n < Len(run.submitted) => run.stopping
      BY <3>1 DEF Follows
    <3>3. \A i \in 1 .. n : r.submitted[i].kind = r.loaded[i]
      <4>. TAKE i \in 1 .. n
      <4>1. i \in 1 .. Len(run.submitted)
        BY <1>3, <3>2
      <4> QED
        BY <1>4, <1>5, <3>2, <4>1
    <3>4. \A i \in n + 1 .. Len(r.submitted) : r.submitted[i].kind = "halt"
      <4>. TAKE i \in n + 1 .. Len(r.submitted)
      <4>1. i \in 1 .. Len(run.submitted) /\ i \in n + 1 .. Len(run.submitted)
        BY <1>3, <1>5, <3>2
      <4> QED
        BY <1>5, <3>2, <4>1
    <3> QED
      BY SMTT(30), <1>4, <1>5, <3>2, <3>3, <3>4 DEF Follows
  <2>4. Honest(r, w)
    BY <1>4, <1>7, <1>9, <1>12, <2>2, <2>3 DEF Honest
  <2> QED
    BY <1>13, <2>1, <2>4 DEF Faithful
<1>15. CASE ~(outcome = "ok" \/ (outcome = "rejected" /\ ~halt))
  <2>1. /\ b.submitted = r.submitted /\ b.phase = r.phase /\ b.pending = r.pending
        /\ b.halts = r.halts /\ b.start = r.start
        /\ b.blocked = (IF run.blocked = "none" THEN code ELSE run.blocked)
    BY <1>4 DEF Block, Runs
  <2>2. b \in Runs /\ code \in Codes /\ b.blocked # "none"
    <3>1. code \in Codes
      BY DEF CodeOf, Codes
    <3> QED
      BY <1>4, <2>1, <3>1, BlockType DEF Codes
  <2>. HIDE DEF b
  <2>3. BlockedNamesCause(b)
    <3>1. CASE run.blocked # "none"
      BY <1>4, <1>11, <1>12, <2>1, <3>1 DEF BlockedNamesCause, Has
    <3>2. CASE run.blocked = "none"
      <4>1. /\ one \in 1 .. Len(r.submitted) /\ r.submitted[one].outcome = outcome
            /\ r.submitted[one].kind = "halt" <=> halt
            /\ r.submitted[one].kind \in GameKinds \cup {"halt"}
        BY <1>3, <1>5, <1>6, <1>8 DEF Submissions
      <4>2. outcome \in {"rejected", "protocol", "io"} /\ (outcome = "rejected" => halt)
        BY <1>15, AnswersAssumption DEF Settled
      <4>3. code = "command_protocol_failed" => outcome = "protocol" /\ ~halt
        BY DEF CodeOf
      <4>4. code = "stop_failed" => outcome \in {"rejected", "protocol"} /\ halt
        BY <4>2 DEF CodeOf
      <4>5. code = "command_protocol_failed" => Has(b, GameKinds, {"protocol"})
        BY <1>11, <2>1, <4>1, <4>3 DEF Has
      <4>6. code = "stop_failed" => Has(b, {"halt"}, {"rejected", "protocol"})
        BY <1>11, <2>1, <4>1, <4>4 DEF Has
      <4> QED
        BY <2>1, <3>2, <4>5, <4>6 DEF BlockedNamesCause
    <3> QED
      BY <3>1, <3>2
  <2>4. \A i \in 1 .. Len(b.submitted) :
           Accounts(b, b.submitted[i]) /\ \E k \in DOMAIN w : w[k] = b.submitted[i].id
    BY <1>5, <1>8, <2>1, <2>2 DEF Accounts
  <2>5. Honest(b, w)
    BY <1>4, <1>7, <1>9, <2>1, <2>2, <2>3, <2>4 DEF Honest
  <2>6. Well(blocked) /\ blocked.run = b /\ blocked.last = p.last
    <3>1. blocked.run = b /\ blocked.last = settled.last
      BY <1>13 DEF WithRun, Well, Replays
    <3>2. Well(blocked)
      BY <1>4, <1>7, <1>13, <2>1, <2>2, WithRunWell
    <3> QED
      BY <1>13, <3>1, <3>2
  <2>7. Faithful(blocked, w)
    BY <2>5, <2>6 DEF Faithful
  <2>8. Faithful(Finish(blocked), w)
    BY <2>2, <2>6, <2>7, FinishFaithful
  <2>9. RunTerminal(p, id, outcome) \in {blocked, Finish(blocked)}
    <3>1. settled = [p EXCEPT !.run = RunSettled(@, id, outcome)]
      BY DEF WithRun, r
    <3>2. blocked = [settled EXCEPT !.run = Block(@, code)]
      BY <1>13 DEF WithRun, b
    <3>. HIDE DEF settled, blocked
    <3> QED
      BY <1>15, <3>1, <3>2 DEF RunTerminal
  <2> QED
    BY <2>7, <2>8, <2>9
<1> QED
  BY <1>14, <1>15

\* Without ids the command taken is lost, and the run is blocked for it.
LEMMA ExhaustedFaithful ==
    ASSUME NEW p, Well(p), NEW w, Faithful(p, w), IsBusy(p), Well(Taken(p)), IsBusy(Taken(p))
    PROVE  Faithful(SubmissionFailed(Taken(p)), w)
<1>. DEFINE took == Taken(p)
            b == Block(took.run, "request_id_exhausted")
            blocked == WithRun(took, b)
<1>1. p \in Replays /\ p.run \in Runs /\ Honest(p.run, w) /\ took.run \in Runs
  BY DEF Well, Replays, Faithful
<1>2. /\ took.run.submitted = p.run.submitted /\ took.run.pending = p.run.pending
      /\ took.run.halts = p.run.halts /\ took.run.phase = p.run.phase
      /\ took.run.blocked = p.run.blocked /\ took.run.loaded = p.run.loaded
      /\ took.run.stopping = p.run.stopping
      /\ IsHalting(p.run) => took.run.plan = p.run.plan
      /\ took.last = p.last
  BY <1>1 DEF Taken, Replays, Runs
<1>. HIDE DEF took
<1>3. "request_id_exhausted" \in Codes \ {"command_protocol_failed", "stop_failed"}
  BY DEF Codes
<1>4. /\ b \in Runs /\ b.start = took.run.start /\ b.phase = took.run.phase
      /\ b.submitted = took.run.submitted /\ b.pending = took.run.pending
      /\ b.halts = took.run.halts
      /\ b.blocked = (IF took.run.blocked = "none" THEN "request_id_exhausted"
                                                   ELSE took.run.blocked)
  <2>1. b \in Runs
    BY <1>1, <1>3, BlockType
  <2> QED
    BY <1>1, <2>1 DEF Block, Runs
<1>5. b.blocked # "none"
  BY <1>4
<1>6. Honest(b, w)
  <2>1. CASE p.run.blocked = "none"
    BY <1>1, <1>2, <1>3, <1>4, <2>1, NamedHonest
  <2>2. CASE p.run.blocked # "none"
    <3>1. IsHalting(p.run) /\ b = took.run
      BY <1>2, <2>2 DEF IsHalting, Block
    <3>2. Honest(took.run, w)
      BY <1>1, <1>2, <3>1, MovedHonest
    <3> QED
      BY <3>1, <3>2
  <2> QED
    BY <2>1, <2>2
<1>. HIDE DEF b
<1>7. Well(took) /\ IsBusy(took)
  BY DEF took
<1>8. Well(blocked) /\ blocked.run = b /\ blocked.last = took.last
  <2>1. blocked.run = b /\ blocked.last = took.last
    BY <1>7 DEF WithRun, Well, Replays
  <2>2. Well(blocked)
    BY <1>4, <1>7, WithRunWell DEF IsBusy
  <2> QED
    BY <2>1, <2>2
<1>9. Faithful(blocked, w)
  BY <1>2, <1>6, <1>8 DEF Faithful
<1>10. Faithful(Finish(blocked), w)
  BY <1>5, <1>8, <1>9, FinishFaithful
<1>11. blocked = [took EXCEPT !.run = Block(@, "request_id_exhausted")]
  BY DEF WithRun, b
<1>12. SubmissionFailed(took) \in {blocked, Finish(blocked)}
  <2> HIDE DEF blocked
  <2> QED
    BY <1>11 DEF SubmissionFailed
<1> QED
  BY <1>9, <1>10, <1>12 DEF took

TruthInv == Faithful(replay, wire)

\* Another id on the wire takes nothing from an honest run.
LEMMA LongerWire ==
    ASSUME NEW p, NEW w \in Seq(Ids), NEW id \in Ids, Faithful(p, w)
    PROVE  Faithful(p, Append(w, id))
<1>1. \A k \in DOMAIN w : k \in DOMAIN Append(w, id) /\ Append(w, id)[k] = w[k]
  <2>1. /\ DOMAIN w = 1 .. Len(w) /\ DOMAIN Append(w, id) = 1 .. Len(w) + 1 /\ Len(w) \in Nat
        /\ \A k \in 1 .. Len(w) : Append(w, id)[k] = w[k]
    OBVIOUS
  <2> QED
    BY <2>1
<1>2. Honest(p.run, Append(w, id))
  BY <1>1 DEF Faithful, Honest
<1> QED
  BY <1>2 DEF Faithful

\* Every step keeps the run honest and what was said of the last one true.
LEMMA TruthStep ==
    IInv /\ WarpInv /\ TruthInv /\ [ReplayNext]_<<replayVars, baseVars>> => TruthInv'
<1>. SUFFICES ASSUME IInv, WarpInv, TruthInv, [ReplayNext]_<<replayVars, baseVars>>
              PROVE  TruthInv'
  OBVIOUS
<1>0. /\ Well(replay) /\ loader \in Loaders /\ Faithful(replay, wire) /\ wire \in Seq(Ids)
      /\ replay.run.halts \subseteq replay.run.pending
      /\ replay.run.warp # 0 => replay.run.warp \in replay.run.pending
      /\ NormalIds \subseteq Ids
  BY DEF IInv, ReplayTypeOK, TruthInv, WarpInv, Owned, Ids
<1>1. ASSUME NEW id \in NormalIds, CallReplayStart(id) PROVE Faithful(replay', wire')
  BY <1>0, <1>1, ControlFaithful DEF CallReplayStart, baseVars
<1>2. ASSUME NEW id \in NormalIds, CallReplayStop(id) PROVE Faithful(replay', wire')
  BY <1>0, <1>2, ControlFaithful DEF CallReplayStop, baseVars
<1>3. ASSUME NEW id \in NormalIds, Frees, FreshId(id)
      PROVE  Faithful(FromReplay(id), Append(wire, id)) /\ Well(FromReplay(id))
  <2>1. /\ IsBusy(replay) /\ \A k \in DOMAIN wire : wire[k] < id
        /\ HaltsWarp(replay.run) \/ \E earlier \in BOOLEAN : FreesPlan(replay.run, earlier)
    BY <1>3 DEF Frees, Earlier, FreshId, NextOnWire
  <2> QED
    BY <1>0, <2>1, SubmittedFaithful, SubmittedWell DEF FromReplay
<1>4. ASSUME NEW id \in NormalIds, CallNext(id) PROVE Faithful(replay', wire')
  BY <1>3, <1>4 DEF CallNext
<1>5. ASSUME NEW id \in NormalIds, CallNextFailed(id) PROVE Faithful(replay', wire')
  BY <1>3, <1>5, TerminalFaithful DEF CallNextFailed, Settled
<1>6. ASSUME CallNextExhausted PROVE Faithful(replay', wire')
  <2>1. 1 \in NormalIds
    BY LastIdAssumption DEF NormalIds
  <2>2. IsBusy(replay) /\ Well(Taken(replay)) /\ IsBusy(Taken(replay))
    BY <1>0, <1>6, <2>1, SubmittedWell DEF CallNextExhausted, Frees, Earlier
  <2> QED
    BY <1>0, <1>6, <2>2, ExhaustedFaithful DEF CallNextExhausted, baseVars
<1>7. ASSUME NEW id \in Ids, NEW outcome \in Answers, CallAnswer(id, outcome)
      PROVE  Faithful(replay', wire')
  BY <1>0, <1>7, TerminalFaithful DEF CallAnswer, Settled
<1>8. ASSUME NEW id \in Ids, CallExternal(id) \/ CallExternalFailed(id)
      PROVE  Faithful(replay', wire')
  BY <1>0, <1>8, LongerWire DEF CallExternal, CallExternalFailed, replayVars
<1>9. ASSUME NEW barrier \in BOOLEAN, CallPoll(barrier) PROVE Faithful(replay', wire')
  BY <1>0, <1>9, PolledFaithful, PolledWell, ToldFaithful DEF CallPoll, baseVars
<1>10. ASSUME NEW io \in BOOLEAN, CallEndReplay(io) PROVE Faithful(replay', wire')
  BY <1>0, <1>10, EndFaithful, EndsWell, ToldFaithful DEF CallEndReplay, baseVars
<1>11. ASSUME Load /\ UNCHANGED baseVars PROVE Faithful(replay', wire')
  BY <1>0, <1>11 DEF Load, baseVars
<1>12. ASSUME UNCHANGED <<replayVars, baseVars>> PROVE Faithful(replay', wire')
  BY <1>0, <1>12 DEF replayVars, baseVars
<1>13. Faithful(replay', wire')
  BY <1>1, <1>2, <1>4, <1>5, <1>6, <1>7, <1>8, <1>9, <1>10, <1>11, <1>12 DEF ReplayNext
<1> QED
  BY <1>13 DEF TruthInv

(***************************************************************************)
(* The outcome a replay reports is the truth: "completed" means that the   *)
(* whole plan was submitted in order and answered, "stopped" that a prefix *)
(* of it was and nothing is open, and a cause that blames the game names   *)
(* an answer the game gave.  Stops, failed writes, exhausted ids and the   *)
(* end of the session may come at any point of the run.                    *)
(***************************************************************************)
THEOREM OutcomesAreTrue == ReplaySpec => []EndsTruthfully
<1>1. ReplayInit => TruthInv
  <2>1. EndedTrue(NewReplay.last) /\ NewReplay.run = NoRun
    BY DEF NewReplay, NoRun, EndedTrue, CompletedMeansWhole, StoppedMeansDrained, BlockedNamesCause
  <2> QED
    BY <2>1, NoRunHonest DEF ReplayInit, TruthInv, Faithful
<1>2. ReplayInit => WarpInv
  BY NoRunOwned DEF ReplayInit, WarpInv, NewReplay
<1>3. TruthInv => EndsTruthfully
  BY DEF TruthInv, Faithful, EndedTrue, EndsTruthfully
<1> QED
  BY <1>1, <1>2, <1>3, TypeInit, TypeStep, WarpStep, TruthStep, PTL DEF ReplaySpec

=============================================================================
