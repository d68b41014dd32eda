------------------------------- MODULE Script -------------------------------
(***************************************************************************)
(* The script client (cli/script): it sends the commands of a script in    *)
(* their order without waiting for outcomes, except around those that are  *)
(* boundaries, follows the activity, and reports what became of each.      *)
(***************************************************************************)
EXTENDS Remote

VARIABLES
    scriptPc,       \* bind, loop, poll, done
    next,           \* the command that is to be sent
    pending,        \* those that were accepted: [id, index]
    scriptCursor,
    reports,        \* what was reported for each command, one after the other
    verdict,        \* none, client (no session), passed or failed
    cancel,         \* Ctrl-C was pressed,
    interrupted     \* and the socket was closed

scriptVars ==
    <<scriptPc, next, pending, scriptCursor, reports, verdict, cancel, interrupted>>

script == setting.script
Boundaries == {"recordingStart", "recordingStop", "shutdown"}

Told(reason, id) == [reason |-> reason, id |-> id]

ScriptInit ==
    /\ scriptPc = (IF script = << >> THEN "done" ELSE "bind")
    /\ next = 1 /\ pending = {} /\ scriptCursor = 0
    /\ reports = [index \in DOMAIN script |-> << >>]
    /\ verdict = (IF script = << >> THEN "passed" ELSE "none")
    /\ cancel = FALSE /\ interrupted = FALSE

-----------------------------------------------------------------------------
MayBreak == May("loss") \/ interrupted

\* The connection and the first snapshot.
Bind ==
    /\ scriptPc = "bind"
    /\ \/ /\ ~interrupted
          /\ scriptPc' = "loop" /\ scriptCursor' = store.position
          /\ UNCHANGED verdict
       \/ /\ MayBreak
          /\ scriptPc' = "done" /\ verdict' = "client"
          /\ UNCHANGED scriptCursor
    /\ UNCHANGED <<next, pending, reports, cancel, interrupted, remoteVars>>

AllCompleted(told) ==
    \A index \in DOMAIN told : \A i \in DOMAIN told[index] :
        told[index][i].reason = "completed"

Finish(told) ==
    /\ scriptPc' = "done" /\ pending' = {} /\ reports' = told
    /\ verdict' = IF AllCompleted(told) THEN "passed" ELSE "failed"

\* abort(): what is pending is unknown, what was not sent never will be.
Aborted(told, open_, from) ==
    [index \in DOMAIN told |->
        told[index]
          \o (IF \E p \in open_ : p.index = index
              THEN <<Told("unknown", (CHOOSE p \in open_ : p.index = index).id)>> ELSE << >>)
          \o (IF index >= from THEN <<Told("notSubmitted", 0)>> ELSE << >>)]

Abort == Finish(Aborted(reports, pending, next)) /\ UNCHANGED <<next, scriptCursor>>

-----------------------------------------------------------------------------
(* execute() *)

IsSent == next > Len(script)

MustDrain == pending # {} /\ (~IsSent => script[next] \in Boundaries)

\* check(), before each submission and each wait of drain().
Cancelled ==
    /\ scriptPc = "loop" /\ cancel
    /\ ~IsSent \/ pending # {}
    /\ Abort
    /\ UNCHANGED <<cancel, interrupted, remoteVars>>

Sends == scriptPc = "loop" /\ ~cancel /\ ~IsSent /\ ~MustDrain

SubmitAccepted ==
    /\ Sends /\ ~interrupted
    /\ Submitted("script", next, script[next])
    /\ pending' = pending \cup {[id |-> Len(accepted'), index |-> next]}
    /\ next' = next + 1 /\ scriptPc' = "poll"
    /\ UNCHANGED <<scriptCursor, reports, verdict, cancel, interrupted>>

SubmitRefused ==
    /\ Sends /\ ~interrupted
    /\ Refused(script[next])
    /\ reports' = [reports EXCEPT ![next] = Append(@, Told("rejected", 0))]
    /\ next' = next + 1 /\ scriptPc' = "poll"
    /\ UNCHANGED <<pending, scriptCursor, verdict, cancel, interrupted>>

\* Mutation of LostReason: no answer means no acceptance.
LostReasonSimple == "notSubmitted"

\* What a submission without an answer is called.
LostReason == "unknown"

SubmitLost ==
    /\ Sends /\ MayBreak
    /\ LostSubmission("script", next, script[next])
    /\ Finish(Aborted([reports EXCEPT ![next] = Append(@, Told(LostReason, 0))],
                      pending, next + 1))
    /\ next' = next + 1
    /\ UNCHANGED <<scriptCursor, cancel, interrupted>>

-----------------------------------------------------------------------------
(* poll() *)

IsEnd(entry) == entry.kind \in {"Ended", "Failed"}

\* One entry of the activity: an outcome of a command of this script, or not.
Noted(now, entry) ==
    LET mine == {p \in now.pending : p.id = entry.what.id}
    IN  IF entry.what.kind \notin {"completed", "rejected", "failed"} \/ mine = {} THEN now
        ELSE [pending |-> now.pending \ mine,
              reports |-> [now.reports EXCEPT ![(CHOOSE p \in mine : TRUE).index] =
                               Append(@, Told(entry.what.kind, entry.what.id))]]

Polls == scriptPc = "poll" \/ (scriptPc = "loop" /\ ~cancel /\ MustDrain)

PollNews ==
    /\ Polls /\ ~interrupted /\ ~IsGap(store, scriptCursor)
    /\ LET news == News(store, scriptCursor)
           now  == FoldLeft(Noted, [pending |-> pending, reports |-> reports], news)
           ends == \E i \in DOMAIN news : IsEnd(news[i].what)
       IN  IF ends /\ now.pending # {}
           THEN Finish(Aborted(now.reports, now.pending, next))
           ELSE /\ pending' = now.pending /\ reports' = now.reports
                /\ scriptPc' = "loop" /\ UNCHANGED verdict
    /\ scriptCursor' = store.position
    /\ UNCHANGED <<next, cancel, interrupted, remoteVars>>

\* The connection breaks, or entries are gone: nothing is known any more.
PollFails ==
    /\ Polls
    /\ MayBreak \/ IsGap(store, scriptCursor)
    /\ Abort
    /\ UNCHANGED <<cancel, interrupted, remoteVars>>

Completes ==
    /\ scriptPc = "loop" /\ IsSent /\ pending = {}
    /\ Finish(reports)
    /\ UNCHANGED <<next, scriptCursor, cancel, interrupted, remoteVars>>

\* Ctrl-C: first the flag, then the socket.
Press ==
    /\ May("interrupt") /\ scriptPc # "done" /\ ~cancel
    /\ cancel' = TRUE
    /\ UNCHANGED <<scriptPc, next, pending, scriptCursor, reports, verdict, interrupted,
                   remoteVars>>

CloseSocket ==
    /\ cancel /\ ~interrupted /\ scriptPc # "done"
    /\ interrupted' = TRUE
    /\ UNCHANGED <<scriptPc, next, pending, scriptCursor, reports, verdict, cancel, remoteVars>>

ScriptStep ==
    \/ Bind \/ Cancelled \/ SubmitAccepted \/ SubmitRefused \/ SubmitLost
    \/ PollNews \/ PollFails \/ Completes \/ Press \/ CloseSocket

-----------------------------------------------------------------------------
(* Properties *)

IdsOf(client, index) ==
    {id \in DOMAIN accepted : accepted[id].client = client /\ accepted[id].index = index}

IsTrue(index, told) ==
    CASE told.reason \in {"completed", "rejected", "failed"} /\ told.id # 0 ->
            told.id \in IdsOf("script", index) /\ outcome[told.id] = told.reason
      [] told.reason \in {"rejected", "notSubmitted"} /\ told.id = 0 ->
            IdsOf("script", index) = {}
      [] OTHER -> told.reason = "unknown"

(***************************************************************************)
(* Of every command of a script one thing is reported, and it is so: an    *)
(* outcome is the session's, and what was not submitted or was rejected    *)
(* without an id never runs, whatever breaks, ends, is evicted or is       *)
(* interrupted; nothing is sent twice, a boundary is accepted when nothing *)
(* of the script is open, and a script that passed has run to its last     *)
(* command (script/execution.rs:28-233).                                   *)
(***************************************************************************)
ScriptIsTruthful ==
    /\ \A index \in DOMAIN script :
          /\ Cardinality(IdsOf("script", index)) <= 1
          /\ \A i \in DOMAIN reports[index] : IsTrue(index, reports[index][i])
          /\ verdict \in {"passed", "failed"} => Len(reports[index]) = 1
          /\ verdict = "passed" =>
                \E id \in IdsOf("script", index) : outcome[id] = "completed"
    /\ \A id \in DOMAIN accepted :
          accepted[id].client = "script" /\ accepted[id].kind \in Boundaries =>
              \A other \in accepted[id].behind : accepted[other].client # "script"
=============================================================================
