------------------------------- MODULE Remote -------------------------------
(***************************************************************************)
(* A served session as its clients see it (server/entry.rs): submissions   *)
(* are accepted or refused, outcomes and the end appear in the activity,   *)
(* and an exchange of a client (client/access.rs) may break before or      *)
(* after the server has done its part.  The inside is the business of      *)
(* Server.tla.                                                             *)
(***************************************************************************)
EXTENDS Activity, FiniteSets

(***************************************************************************)
(* What stands outside of the session, chosen at the start.  script: the   *)
(* commands of a script.  typed: what is entered into a REPL.  jobs: the   *)
(* signatures each report worker is given; provider: of each worker;       *)
(* occupied: signatures whose file name another program may use.  faults:  *)
(* loss, exchanges break; interrupt, the user presses Ctrl-C; crash, the   *)
(* session fails; force, and leaves commands without an outcome; io, gh    *)
(* and the disk fail; cancel, report work is cancelled.                    *)
(***************************************************************************)
CONSTANTS Settings, Signatures

Commands  == {"play", "recordingStart", "recordingStop", "replayStart", "replayStop",
              "shutdown"}
Providers == {"local", "github"}
Faults    == {"loss", "interrupt", "crash", "force", "io", "cancel"}

ASSUME SettingsAssumption ==
    /\ Settings \subseteq
          [script : Seq(Commands), typed : Seq(Commands \cup {"pending"}),
           jobs : Seq(Seq(Signatures)), provider : Seq(Providers),
           occupied : SUBSET Signatures, faults : SUBSET Faults]
    /\ \A s \in Settings : Len(s.provider) = Len(s.jobs)

VARIABLES
    setting,    \* one of Settings
    life,       \* Ready, Ended or Failed
    accepted,   \* history: the commands by their ids, and who submitted them
    open,       \* ids without an outcome
    outcome,    \* history: the outcome of each id, or "none"
    store       \* the activity

remoteVars == <<setting, life, accepted, open, outcome, store>>

May(fault) == fault \in setting.faults

Entry(kind, id) == [kind |-> kind, id |-> id]

\* Every entry is of the same size; what is pending is read from open.
Pushed(entry) == Push(store, entry, 1, {})

RemoteInit ==
    /\ setting \in Settings
    /\ life = "Ready" /\ accepted = << >> /\ open = {} /\ outcome = << >>
    /\ store = NewStore

-----------------------------------------------------------------------------
(* The session *)

IsOpen(kind) == \E id \in open : accepted[id].kind = kind
HasShutdown  == \E id \in DOMAIN accepted : accepted[id].kind = "shutdown"

\* Not Ready, or refused by the session itself: there is no id.
Refuses(kind) ==
    \/ life # "Ready" \/ HasShutdown
    \/ kind = "shutdown" /\ open # {}

Accept(client, index, kind) ==
    LET id == Len(accepted) + 1 IN
    /\ ~Refuses(kind)
    /\ accepted' = Append(accepted, [client |-> client, index |-> index, kind |-> kind,
                                     behind |-> open])
    /\ open' = open \cup {id}
    /\ outcome' = Append(outcome, "none")
    /\ store' = Pushed(Entry("pending", id))
    /\ UNCHANGED <<setting, life>>

Settle(id, result) ==
    /\ life = "Ready" /\ id \in open
    /\ open' = open \ {id}
    /\ outcome' = [outcome EXCEPT ![id] = result]
    /\ store' = Pushed(Entry(result, id))
    /\ UNCHANGED <<setting, life, accepted>>

(***************************************************************************)
(* It ends after a shutdown, or because it was stopped; it fails with a    *)
(* crash of the game, and when it is forced some commands stay open.       *)
(***************************************************************************)
End(state) ==
    /\ life = "Ready"
    /\ open = {} \/ May("force")
    /\ state = "Ended" => open = {}
    /\ state = "Failed" => May("crash")
    /\ life' = state
    /\ store' = Pushed(Entry(state, 0))
    /\ UNCHANGED <<setting, accepted, open, outcome>>

SessionStep ==
    \/ \E id \in DOMAIN accepted, result \in {"completed", "rejected", "failed"} :
          Settle(id, result)
    \/ \E state \in {"Ended", "Failed"} : End(state)

-----------------------------------------------------------------------------
(***************************************************************************)
(* An exchange: the socket carries one request and its answer at a time.   *)
(* The server did its part or not when the connection breaks.              *)
(***************************************************************************)
Submitted(client, index, kind) == Accept(client, index, kind)
Refused(kind) == Refuses(kind) /\ UNCHANGED remoteVars

LostSubmission(client, index, kind) ==
    Accept(client, index, kind) \/ UNCHANGED remoteVars
=============================================================================
