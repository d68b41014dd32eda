---------------------------- MODULE SessionBase ----------------------------
(***************************************************************************)
(* What the parts of one woodpecker session share: request ids, command    *)
(* kinds, terminal outcomes, and the two pieces of coordinator state the   *)
(* recorder and the replay engine are driven by.                           *)
(*                                                                         *)
(* Request ids are u64 in the code.  LastId stands for u64::MAX, the id    *)
(* reserved for the shutdown command; normal ids are 1 .. LastId - 1 and   *)
(* run out at a bound TLC can reach.                                       *)
(***************************************************************************)
EXTENDS Integers, Sequences, FiniteSets

CONSTANTS
    LastId,     \* u64::MAX
    Answers     \* the ways the game answers a command, of those below

ASSUME LastIdAssumption  == LastId \in Nat \ {0, 1}
ASSUME AnswersAssumption == Answers \subseteq {"ok", "rejected", "protocol"}

\* Id 0 never names a request: the modules use it for "no request".
NormalIds == 1 .. LastId - 1
Ids       == NormalIds \cup {LastId}

(***************************************************************************)
(* Every command the coordinator treats alike is one kind: "game" stands   *)
(* for the input, inspect, screenshot, window and remaining tick commands. *)
(***************************************************************************)
GameKinds    == {"game", "warp", "warpStop"}
RecordKinds  == {"recordingStart", "recordingStop"}
ReplayKinds  == {"replayStart", "replayStop"}
Kinds        == GameKinds \cup RecordKinds \cup ReplayKinds \cup {"shutdown"}

IsRecordable(kind) == kind \notin RecordKinds \cup ReplayKinds \cup {"shutdown"}

\* How a response of the game, or the failure to send, settles a command.
Settled == Answers \cup {"io"}

VARIABLES
    active,     \* ids written to the game and not yet answered
    wire        \* history: every id handed to the stdin writer, in order

baseVars == <<active, wire>>

\* The order of acceptance is the order on the wire: only a larger id may follow.
NextOnWire(id) == \A i \in DOMAIN wire : wire[i] < id
=============================================================================
