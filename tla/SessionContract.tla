-------------------------- MODULE SessionContract --------------------------
(***************************************************************************)
(* What a session promises to its client (session/mod.rs, Session and      *)
(* Pending), whatever happens inside: request ids are handed out in order, *)
(* an outcome is given at most once and only to an accepted command, the   *)
(* shutdown is accepted when everything before it is settled, nothing is   *)
(* accepted after it, and it learns its outcome only as the session ends.  *)
(* Events wait in a bounded queue; Ended has a place beyond the bound, is  *)
(* the last of them, and does not follow a shutdown that succeeded.        *)
(***************************************************************************)
EXTENDS Naturals, Sequences

CONSTANTS
    LastId,     \* the id of the shutdown command
    EventCap    \* how many events wait at most before Ended

VARIABLES
    accepted,   \* how many commands were accepted
    outcome,    \* the outcome of each id, or "open"
    stopping,   \* was the shutdown accepted?
    ended,      \* has the session ended?
    events      \* the events the client has not received yet

vars == <<accepted, outcome, stopping, ended, events>>

Init ==
    /\ accepted = 0
    /\ outcome = [id \in 1 .. LastId |-> "open"]
    /\ stopping = FALSE
    /\ ended = FALSE
    /\ events = << >>

\* Outcomes are given to open commands among the first n, and stay.
Settles(n) ==
    \A id \in DOMAIN outcome :
        outcome'[id] # outcome[id] => outcome[id] = "open" /\ id <= n

\* An event may come with any step before the end, while there is room.
Notifies ==
    \/ UNCHANGED events
    \/ /\ Len(events) < EventCap
       /\ \E event \in {"protocolError", "failure", "recordingFailed"} :
             events' = Append(events, event)

\* The next command is accepted; it may be settled in the same step.
Accept ==
    /\ ~stopping /\ ~ended
    /\ accepted + 1 < LastId
    /\ accepted' = accepted + 1
    /\ Settles(accepted + 1)
    /\ Notifies
    /\ UNCHANGED <<stopping, ended>>

Settle ==
    /\ ~ended
    /\ Settles(accepted)
    /\ Notifies
    /\ UNCHANGED <<accepted, stopping, ended>>

Stop ==
    /\ ~stopping /\ ~ended
    /\ \A id \in 1 .. accepted : outcome[id] # "open"
    /\ stopping' = TRUE
    /\ UNCHANGED <<accepted, outcome, ended, events>>

\* Commands that are still open now never are settled: their waiters see the end.
End ==
    /\ ~ended
    /\ ended' = TRUE
    /\ IF stopping
       THEN \E o \in {"ok", "rejected", "protocol", "ended"} :
               outcome' = [outcome EXCEPT ![LastId] = o]
       ELSE UNCHANGED outcome
    /\ events' \in {events, Append(events, "ended")}
    /\ stopping /\ outcome'[LastId] = "ok" => UNCHANGED events
    /\ UNCHANGED <<accepted, stopping>>

Receive ==
    /\ events # << >>
    /\ events' = Tail(events)
    /\ UNCHANGED <<accepted, outcome, stopping, ended>>

Next == Accept \/ Settle \/ Stop \/ End \/ Receive

Spec == Init /\ [][Next]_vars
=============================================================================
