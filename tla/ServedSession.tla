--------------------------- MODULE ServedSession ---------------------------
(***************************************************************************)
(* A session as the server's owner thread sees it (session/mod.rs and the  *)
(* acceptance rules of session/coordinator.rs): submit() accepts a command *)
(* or refuses it, outcomes and events arrive by themselves, and at last    *)
(* the session has ended.  The inside is the business of Coordinator.tla.  *)
(***************************************************************************)
EXTENDS Naturals, FiniteSets

CONSTANT LastId     \* u64::MAX, the id of shutdown

ASSUME LastIdAssumption == LastId \in Nat \ {0, 1}

\* Kinds of command; the last four are those an orderly stop sends.
ServedKinds == {"warp", "recordingStart", "replayStart",
                "replayStop", "warpStop", "recordingStop", "shutdown"}

NewSession ==
    [life      |-> "none",  \* none, live, closing, ended; gone when dropped
     next      |-> 1,
     open      |-> {},      \* accepted commands without an outcome
     results   |-> {},      \* outcomes nobody took yet
     events    |-> 0,       \* failures nobody took yet
     reported  |-> FALSE,
     confirmed |-> FALSE,   \* history: was shutdown answered with success?
     recording |-> FALSE]

IsOpen(session, kinds) == \E command \in session.open : command.kind \in kinds

IsExhausted(session) == session.next = LastId

(***************************************************************************)
(* Why submit() refuses a command, or "none".  A shutdown leaves open only *)
(* itself.                                                                 *)
(***************************************************************************)
Refusal(session, kind) ==
    IF session.life # "live" \/ IsOpen(session, {"shutdown"}) THEN "ended"
    ELSE IF kind = "shutdown" /\ session.open # {} THEN "shutdown_commands_pending"
    ELSE IF kind = "shutdown" /\ session.recording THEN "shutdown_recording_active"
    ELSE IF kind # "shutdown" /\ IsExhausted(session) THEN "request_id_exhausted"
    ELSE "none"

IdFor(session, kind) == IF kind = "shutdown" THEN LastId ELSE session.next

\* Commands that are answered with a rejection when they are accepted.
IsRejected(session, kind) ==
    \/ kind \notin {"replayStop", "shutdown"} /\ IsOpen(session, {"replayStart"})
    \/ kind = "recordingStart" /\ (session.recording \/ session.open # {})
    \/ kind = "recordingStop" /\ (~session.recording \/ session.open # {})

Submitted(session, kind) ==
    LET id == IdFor(session, kind) IN
    [session EXCEPT
        !.next = IF kind = "shutdown" THEN @ ELSE @ + 1,
        !.open = IF IsRejected(session, kind) THEN @
                 ELSE @ \cup {[id |-> id, kind |-> kind]},
        !.results = IF IsRejected(session, kind)
                    THEN @ \cup {[id |-> id, outcome |-> "rejected"]} ELSE @]

\* The outcomes command may get now; replay.stop waits for the end of the replay.
OutcomesOf(session, command) ==
    IF command.kind = "replayStop" /\ IsOpen(session, {"replayStart"}) THEN {}
    ELSE {"ok", "rejected", "failed"}

SettledWith(session, command, outcome) ==
    [session EXCEPT
        !.open = @ \ {command},
        !.results = @ \cup {[id |-> command.id, outcome |-> outcome]},
        !.recording = CASE command.kind = "recordingStart" -> outcome = "ok"
                        [] command.kind = "recordingStop"  -> FALSE
                        [] OTHER -> @,
        !.confirmed = @ \/ (command.kind = "shutdown" /\ outcome = "ok"),
        !.life = IF command.kind = "shutdown" THEN "closing" ELSE @]

\* What is open gets no outcome any more.
EndOf(session) == [session EXCEPT !.life = "ended", !.open = {}]

\* try_receive(): the outcome, "ended" without one, or nothing yet.
Received(session, id) ==
    LET results == {result \in session.results : result.id = id}
    IN  IF results # {} THEN (CHOOSE result \in results : TRUE).outcome
        ELSE IF session.life = "ended" THEN "failed" ELSE "nothing"

Taken(session, id) == [session EXCEPT !.results = {result \in @ : result.id # id}]
=============================================================================
