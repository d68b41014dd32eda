------------------------------ MODULE MCReplay ------------------------------
(* The replay engine driven with consecutive request ids, and with the     *)
(* fairness of a coordinator that keeps looping and a game that answers.   *)
EXTENDS Replay

CONSTANT Externals      \* how many external commands may go to the game

MCPlans == {<<"game", "game">>, <<"game", "warp", "game">>, <<"warp", "warpStop">>}

Used  == ToSet(wire) \cup ControlIds(replay)
Fresh == Max(Used) + 1

Caller ==
    \/ /\ Fresh < LastId
       /\ \/ CallReplayStart(Fresh) \/ CallReplayStop(Fresh)
          \/ Len(wire) < Externals /\ (CallExternal(Fresh) \/ CallExternalFailed(Fresh))
    \/ \E io \in BOOLEAN : CallEndReplay(io)
    \/ CallPoll(TRUE)

Submits == IF Fresh < LastId THEN CallNext(Fresh) \/ CallNextFailed(Fresh)
                             ELSE CallNextExhausted

GameAnswers == \E id \in active, outcome \in Answers : CallAnswer(id, outcome)

Loads == Load /\ UNCHANGED baseVars

MCNext == Caller \/ CallPoll(FALSE) \/ Submits \/ GameAnswers \/ Loads

(***************************************************************************)
(* The coordinator polls and asks for the next command in every iteration, *)
(* file transitions end, the loader answers, and the game answers each     *)
(* command it was sent.                                                    *)
(***************************************************************************)
Fairness ==
    /\ WF_<<replayVars, baseVars>>(CallPoll(FALSE))
    /\ WF_<<replayVars, baseVars>>(Submits)
    /\ WF_<<replayVars, baseVars>>(GameAnswers)
    /\ WF_<<replayVars, baseVars>>(Loads)

MCSpec == ReplayInit /\ [][MCNext]_<<replayVars, baseVars>> /\ Fairness

(***************************************************************************)
(* Every run ends: neither the warp barrier, a stop racing the loader, a   *)
(* failed command nor exhausted ids leave a replay hanging.                *)
(***************************************************************************)
RunsEnd == IsBusy(replay) ~> ~IsBusy(replay)
=============================================================================
