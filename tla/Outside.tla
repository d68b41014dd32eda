------------------------------ MODULE Outside -------------------------------
(***************************************************************************)
(* All that stands around a served session: a script and a REPL that       *)
(* command it and read its activity, and the workers that take reports of  *)
(* failures from it and put their results into the same activity.          *)
(***************************************************************************)
EXTENDS Script, Repl, Reports

vars == <<remoteVars, scriptVars, replVars, reportVars>>

Init == RemoteInit /\ ScriptInit /\ ReplInit /\ ReportsInit

\* Everybody has come to an end; clients end by themselves or are left.
Rest ==
    /\ scriptPc = "done" /\ replPc = "ended"
    /\ \A w \in Workers : At(w, "idle") /\ job[w] = Len(setting.jobs[w])
    /\ UNCHANGED vars

Next ==
    \/ SessionStep /\ UNCHANGED <<scriptVars, replVars, reportVars>>
    \/ ScriptStep /\ UNCHANGED <<replVars, reportVars>>
    \/ ReplStep /\ UNCHANGED <<scriptVars, reportVars>>
    \/ ReportStep /\ UNCHANGED <<scriptVars, replVars>>
    \/ Rest

Spec == Init /\ [][Next]_vars
=============================================================================
