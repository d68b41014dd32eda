------------------------------ MODULE Reports -------------------------------
(***************************************************************************)
(* Where the reports of failures go (report/mod.rs, report/provider):      *)
(* every session has one worker for them (server/reports.rs), the workers  *)
(* may share a directory and a repository, and any of them can be          *)
(* cancelled when the cleanup of its session is forced.                    *)
(***************************************************************************)
EXTENDS Remote

VARIABLES
    workPc,     \* of each worker: idle, begin, search, publish, look, write, link,
                \* recheck, remove
    job,        \* how many of its jobs it has taken
    declined,   \* the provider of the present job failed: this is the fallback
    temporary,  \* its temporary file: none, partial or whole
    created,    \* remove: the report was created here, and did not exist
    files,      \* what each report's name holds: none, foreign, partial or whole
    theirs,     \* history: the names that hold a file of another program
    issues,     \* how many issues carry each signature
    reportCancel, incomplete,
    published   \* results of each worker, one for each job

reportVars ==
    <<workPc, job, declined, temporary, created, files, theirs, issues, reportCancel,
      incomplete, published>>

Workers == DOMAIN setting.jobs

Signature(w) == setting.jobs[w][job[w]]

ReportsInit ==
    /\ workPc = [w \in Workers |-> "idle"] /\ job = [w \in Workers |-> 0]
    /\ declined = [w \in Workers |-> FALSE]
    /\ temporary = [w \in Workers |-> "none"] /\ created = [w \in Workers |-> FALSE]
    /\ files = [s \in Signatures |-> "none"] /\ theirs = {}
    /\ issues = [s \in Signatures |-> 0]
    /\ reportCancel = [w \in Workers |-> FALSE] /\ incomplete = [w \in Workers |-> FALSE]
    /\ published = [w \in Workers |-> << >>]

-----------------------------------------------------------------------------
At(w, pc) == workPc[w] = pc
Goes(w, pc) == workPc' = [workPc EXCEPT ![w] = pc]

\* The worker pushes a report with its result, and takes the next one.
Publish(w, status) ==
    /\ published' = [published EXCEPT ![w] = Append(@, [signature |-> Signature(w),
                                                        status |-> status])]
    /\ incomplete' = [incomplete EXCEPT ![w] = @ \/ status = "interrupted"]
    /\ declined' = [declined EXCEPT ![w] = FALSE]
    /\ store' = Pushed(Entry("report", 0))
    /\ Goes(w, "idle")
    /\ UNCHANGED <<theirs, setting, life, accepted, open, outcome>>

\* Result::complete(): a failure of a worker that was cancelled is no failure.
Fails(w) == Publish(w, IF reportCancel[w] THEN "interrupted"
                       ELSE IF declined[w] THEN "fallbackFailed" ELSE "failed")

FileStatus(w, status) == IF declined[w] THEN "fallback" ELSE status

\* The job goes on without a result.
Continues(w, pc) ==
    Goes(w, pc) /\ UNCHANGED <<theirs, published, incomplete, declined, remoteVars>>

TakeJob(w) ==
    /\ At(w, "idle") /\ job[w] < Len(setting.jobs[w])
    /\ job' = [job EXCEPT ![w] = @ + 1]
    /\ Continues(w, "begin")
    /\ UNCHANGED <<temporary, created, files, issues, reportCancel>>

Begin(w) ==
    /\ At(w, "begin")
    /\ IF reportCancel[w] THEN Publish(w, "interrupted")
       ELSE Continues(w, IF setting.provider[w] = "github" THEN "search" ELSE "look")
    /\ UNCHANGED <<job, temporary, created, files, issues, reportCancel>>

-----------------------------------------------------------------------------
(* gh: a search and a publication, each a process that is killed on cancel *)

\* The process does not start, ends badly, says what is no answer, or is killed.
GhFails(w) == May("io") \/ reportCancel[w]

\* The provider did not do it: it was cancelled, or the report becomes a file.
Declines(w) ==
    IF reportCancel[w] THEN Publish(w, "interrupted")
    ELSE /\ Goes(w, "look")
         /\ declined' = [declined EXCEPT ![w] = TRUE]
         /\ UNCHANGED <<theirs, published, incomplete, remoteVars>>

Search(w) ==
    /\ At(w, "search")
    /\ \/ /\ ~reportCancel[w]
          /\ IF issues[Signature(w)] > 0 THEN Publish(w, "existingIssue")
             ELSE Continues(w, "publish")
       \/ GhFails(w) /\ Declines(w)
    /\ UNCHANGED <<job, temporary, created, files, issues, reportCancel>>

\* A failure does not tell whether the issue is there.
PublishIssue(w) ==
    /\ At(w, "publish")
    /\ \/ /\ issues' = [issues EXCEPT ![Signature(w)] = @ + 1]
          /\ Publish(w, "createdIssue")
       \/ /\ GhFails(w)
          /\ issues' \in {issues, [issues EXCEPT ![Signature(w)] = @ + 1]}
          /\ Declines(w)
    /\ UNCHANGED <<job, temporary, created, files, reportCancel>>

-----------------------------------------------------------------------------
(* The file: looked for, written beside, linked, and the rest removed *)

\* Drop for Temporary removes it if it can.
Dropped(w) ==
    temporary' \in {[temporary EXCEPT ![w] = "none"]}
                     \cup (IF May("io") THEN {temporary} ELSE {})

MayFail(w) == May("io") \/ reportCancel[w]

\* existing(), and a new temporary file if there is none.
Look(w) ==
    /\ At(w, "look")
    /\ LET found == files[Signature(w)] IN
       \/ /\ found = "none" /\ ~reportCancel[w]
          /\ temporary' = [temporary EXCEPT ![w] = "partial"]
          /\ Continues(w, "write")
       \/ /\ found = "whole" /\ ~reportCancel[w]
          /\ Publish(w, FileStatus(w, "existing")) /\ UNCHANGED temporary
       \/ /\ found \in {"foreign", "partial"} \/ MayFail(w)
          /\ Fails(w) /\ UNCHANGED temporary
    /\ UNCHANGED <<job, created, files, issues, reportCancel>>

Write(w) ==
    /\ At(w, "write")
    /\ \/ /\ ~reportCancel[w]
          /\ temporary' = [temporary EXCEPT ![w] = "whole"]
          /\ Continues(w, "link")
       \/ MayFail(w) /\ Fails(w) /\ Dropped(w)
    /\ UNCHANGED <<job, created, files, issues, reportCancel>>

\* Mutation of MayLink: a rename replaces what is there.
MayLinkOver(signature) == TRUE

\* A link is made only where nothing is.
MayLink(signature) == files[signature] = "none"

Link(w) ==
    /\ At(w, "link")
    /\ \/ /\ ~reportCancel[w]
          /\ created' = [created EXCEPT ![w] = MayLink(Signature(w))]
          /\ IF MayLink(Signature(w))
             THEN files' = [files EXCEPT ![Signature(w)] = temporary[w]] /\ Continues(w, "remove")
             ELSE UNCHANGED files /\ Continues(w, "recheck")
          /\ UNCHANGED temporary
       \/ MayFail(w) /\ Fails(w) /\ Dropped(w) /\ UNCHANGED <<created, files>>
    /\ UNCHANGED <<job, issues, reportCancel>>

\* Another one was faster: is it the same report, and is it still there?
Recheck(w) ==
    /\ At(w, "recheck")
    /\ \/ /\ files[Signature(w)] = "whole" /\ ~reportCancel[w]
          /\ Continues(w, "remove") /\ UNCHANGED temporary
       \/ /\ files[Signature(w)] # "whole" \/ MayFail(w)
          /\ Fails(w) /\ Dropped(w)
    /\ UNCHANGED <<job, created, files, issues, reportCancel>>

\* The report is there; without its temporary file it counts.
RemoveTemporary(w) ==
    /\ At(w, "remove")
    /\ \/ /\ temporary' = [temporary EXCEPT ![w] = "none"]
          /\ Publish(w, FileStatus(w, IF created[w] THEN "created" ELSE "existing"))
       \/ May("io") /\ Fails(w) /\ Dropped(w)
    /\ UNCHANGED <<job, created, files, issues, reportCancel>>

CancelReports(w) ==
    /\ May("cancel") /\ ~reportCancel[w]
    /\ reportCancel' = [reportCancel EXCEPT ![w] = TRUE]
    /\ UNCHANGED <<workPc, job, declined, temporary, created, files, theirs, issues,
                   incomplete, published, remoteVars>>

-----------------------------------------------------------------------------
(* Another program uses the same directory, at any time *)

\* It takes a name that is free, or its file there disappears.
Intrudes(s) ==
    /\ \/ /\ files[s] = "none"
          /\ files' = [files EXCEPT ![s] = "foreign"] /\ theirs' = theirs \cup {s}
       \/ /\ files[s] = "foreign"
          /\ files' = [files EXCEPT ![s] = "none"] /\ theirs' = theirs \ {s}
    /\ UNCHANGED <<workPc, job, declined, temporary, created, issues, reportCancel,
                   incomplete, published, remoteVars>>

ReportStep ==
    \/ \E w \in Workers :
          \/ TakeJob(w) \/ Begin(w) \/ Search(w) \/ PublishIssue(w)
          \/ Look(w) \/ Write(w) \/ Link(w) \/ Recheck(w) \/ RemoveTemporary(w)
          \/ CancelReports(w)
    \/ \E s \in setting.occupied : Intrudes(s)

-----------------------------------------------------------------------------
(* Properties *)

Results(status) ==
    UNION {{[worker |-> w, i |-> i, signature |-> published[w][i].signature] :
               i \in {j \in DOMAIN published[w] : published[w][j].status = status}} :
           w \in Workers}

FileResults == Results("created") \cup Results("existing") \cup Results("fallback")

(***************************************************************************)
(* What a worker says of a report is so, whoever else writes into the      *)
(* directory: a file it names is whole, only one job created it, nothing   *)
(* of somebody else is replaced, each job has one result, an interrupted   *)
(* one was cancelled and counts as incomplete, and without failures of the *)
(* disk no temporary file stays (provider/local.rs:259-302,                *)
(* provider/github.rs:95-279, report/mod.rs:127-181).                      *)
(***************************************************************************)
ReportsAreTruthful ==
    /\ \A r \in FileResults : files[r.signature] = "whole"
    /\ \A r, other \in Results("created") : r.signature = other.signature => r = other
    /\ \A r \in Results("createdIssue") \cup Results("existingIssue") : issues[r.signature] > 0
    /\ \A s \in theirs : files[s] = "foreign"
    /\ \A r \in Results("interrupted") : reportCancel[r.worker] /\ incomplete[r.worker]
    /\ \A w \in Workers :
          /\ Len(published[w]) = job[w] - (IF At(w, "idle") THEN 0 ELSE 1)
          /\ At(w, "idle") /\ ~May("io") => temporary[w] = "none"
=============================================================================
