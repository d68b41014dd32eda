----------------------------- MODULE Recordings -----------------------------
(***************************************************************************)
(* What the recorder writes, read back by the replay loader.  Recorder.tla *)
(* knows of a command only whether it was answered; what a file says about *)
(* warps comes from the game, so the property below quantifies over what   *)
(* the game may have done with the recorded commands.                      *)
(***************************************************************************)
EXTENDS Recorder, Loader

CONSTANT LoadedLines    \* how many commands a file may have whose load is checked

ASSUME LoadedLinesAssumption == LoadedLines \in Nat

Requested == 2    \* the ticks every warp start asks for

(***************************************************************************)
(* One possible history of the game: the kind of each recorded command,    *)
(* how many commands reached it, and how many ticks a warp would run       *)
(* before the next stop reaches the game (Requested: it ends before).      *)
(***************************************************************************)
History(kinds, reach, life) == [kinds |-> kinds, reach |-> reach, life |-> life]

KindsOf(lines) == [DOMAIN lines -> {"game", "warp", "warpStop"}]
LivesOf(kinds) == [{i \in DOMAIN kinds : kinds[i] = "warp"} -> 0 .. Requested]

\* What was answered did reach the game, what could not be written did not.
ReachesOf(lines) ==
    {r \in 0 .. Len(lines) :
        \A i \in DOMAIN lines : /\ lines[i].outcome \in Answers => i <= r
                                /\ lines[i].outcome = "io" => r < i}

\* The history of commands that are no warps.
WithoutWarps(lines) ==
    History([i \in DOMAIN lines |-> "game"], Len(lines), << >>)

\* The warp that runs when line i + 1 is met (0: none); a start then is rejected.
Runs(h, now, i) ==
    CASE i > h.reach                              -> now
      [] i <= h.reach /\ h.kinds[i] = "game"      -> now
      [] i <= h.reach /\ h.kinds[i] = "warpStop"  -> 0
      [] i <= h.reach /\ h.kinds[i] = "warp"      ->
            IF now # 0 THEN now ELSE IF h.life[i] = Requested THEN 0 ELSE i

\* running[i] is the warp that runs when line i is met.
RunningIn(h) ==
    FoldLeft(LAMBDA running, i : Append(running, Runs(h, Last(running), i)),
             <<0>>, [i \in DOMAIN h.kinds |-> i])

\* The stops that ended warp i: one or none.
StopsOf(h, running, i) ==
    {j \in 1 .. Len(h.kinds) : /\ h.kinds[j] = "warpStop"
                               /\ running[j] = i /\ running[j + 1] # i}

Executed(h, running, i) ==
    IF StopsOf(h, running, i) = {} THEN Requested ELSE h.life[i]

Begun(h, running, i) == h.kinds[i] = "warp" /\ running[i] = 0

\* How the file shows line i.
LineOf(h, running, i, outcome, tag) ==
    LET command == Command(h.kinds[i], IF h.kinds[i] = "warp" THEN Requested ELSE 0, tag)
        ended   == IF StopsOf(h, running, i) = {} THEN "completed" ELSE "stopped"
    IN  CASE h.kinds[i] = "warp" ->
                Recorded(command, IF Begun(h, running, i) THEN outcome
                                  ELSE IF outcome = "ok" THEN "rejected" ELSE outcome,
                         Completion(Requested, Executed(h, running, i), ended))
          [] h.kinds[i] = "warpStop" ->
                Recorded(command, outcome, StopOutput(running[i] # 0))
          [] OTHER -> Recorded(command, outcome, OtherOutput)

Rendered(file, h) ==
    LET running == RunningIn(h)
    IN  <<HeaderLine(1)>>
        \o [i \in DOMAIN file.lines |->
               LineOf(h, running, i, file.lines[i].outcome, file.lines[i].id)]
        \o IF file.footer = NoFooter THEN << >>
           ELSE <<FooterLine(file.footer.outcome, file.footer.count)>>

(***************************************************************************)
(* The plan the file stands for: each command in order; a warp whose       *)
(* completion is recorded with the ticks it executed, or not at all when   *)
(* it executed none; and no stop that ended such a warp, for a replay      *)
(* that runs the executed ticks has nothing left to stop.                  *)
(***************************************************************************)
PlanOf(file, h) ==
    LET running == RunningIn(h)
        Known(i) == Begun(h, running, i) /\ file.lines[i].outcome = "ok"
        Ticks(i) == IF Known(i) THEN Executed(h, running, i) ELSE Requested
        Dropped(i) ==
            \/ Known(i) /\ Ticks(i) = 0
            \/ \E k \in 1 .. i : Known(k) /\ i \in StopsOf(h, running, k)
        Kept == SelectSeq([i \in DOMAIN file.lines |-> i], LAMBDA i : ~Dropped(i))
    IN  [k \in DOMAIN Kept |->
            Command(h.kinds[Kept[k]],
                    IF h.kinds[Kept[k]] = "warp" THEN Ticks(Kept[k]) ELSE 0,
                    file.lines[Kept[k]].id)]

\* The session ends with the first write that fails.
EndsWithItsFailure(lines) ==
    \A i \in DOMAIN lines : lines[i].outcome = "io" => i = Len(lines)

\* Damage of a line: lost, doubled or torn.
Damaged(lines) ==
    UNION {{RemoveAt(lines, i), InsertAt(lines, i, lines[i]),
            ReplaceAt(lines, i, TornLine)} : i \in DOMAIN lines}

(***************************************************************************)
(* A recording can be replayed or is refused, never replayed as something  *)
(* else.  Of a file with its footer the loader makes exactly the plan the  *)
(* game's own history gives, also when the answer of the stop that ended a *)
(* warp was lost or malformed and the loader has to infer from the warp's  *)
(* completion which stop it was; a file without its footer, and a file one *)
(* of whose lines is lost, doubled or torn, is refused.                    *)
(***************************************************************************)
RecordingsLoad ==
    (Quiet /\ files # << >>) =>
        LET file == Last(files)
            whole == file.footer # NoFooter
        IN  (EndsWithItsFailure(file.lines) /\ Len(file.lines) <= LoadedLines) =>
                /\ whole =>
                     \A kinds \in KindsOf(file.lines), reach \in ReachesOf(file.lines) :
                        \A life \in LivesOf(kinds) :
                            LET h      == History(kinds, reach, life)
                                parsed == Parse(Rendered(file, h))
                            IN  /\ parsed.error = "none"
                                /\ parsed.plan = PlanOf(file, h)
                /\ LET lines == Rendered(file, WithoutWarps(file.lines))
                   IN  \A bad \in Damaged(lines) \cup (IF whole THEN {} ELSE {lines}) :
                           Parse(bad).error # "none"
=============================================================================
