---------------------------- MODULE OutsideProofs ----------------------------
(***************************************************************************)
(* Theorems about what stands around a served session (Outside): what a    *)
(* script reports is so, the REPL keeps its word, and what a worker says   *)
(* of a report is so, for scripts and inputs of any length, any number of  *)
(* workers and jobs, and every fault.                                      *)
(*                                                                         *)
(* Each has an invariant of its own on top of RemoteInv, which says what   *)
(* the session's history and its activity have to do with one another.     *)
(***************************************************************************)
EXTENDS Outside, ActivityProofs

-----------------------------------------------------------------------------
(* The session and its activity *)

Settled      == {"completed", "rejected", "failed"}
Lives        == {"Ready", "Ended", "Failed"}
Whats        == [kind : Settled \cup {"pending", "report", "Ended", "Failed"}, id : Nat]
Stored       == [position : Nat, size : Nat, what : Whats, pending : {{}}]
Acceptances  == [client : {"script", "repl"}, index : Nat, kind : Commands \cup {"pending"},
                 behind : SUBSET Nat]

RemoteTypes ==
    /\ setting \in Settings /\ life \in Lives
    /\ accepted \in Seq(Acceptances)
    /\ outcome \in Seq(Settled \cup {"none"}) /\ Len(outcome) = Len(accepted)
    /\ open \subseteq 1 .. Len(accepted)
    /\ IsLog(store, Stored)

\* An entry about an outcome or the end tells what is so.
Truthful(what) ==
    /\ what.kind \in Settled => what.id \in 1 .. Len(outcome) /\ outcome[what.id] = what.kind
    /\ what.kind \in {"Ended", "Failed"} => life = what.kind

RemoteInv ==
    /\ RemoteTypes
    /\ \A id \in open : outcome[id] = "none"
    /\ \A id \in 1 .. Len(accepted) : accepted[id].behind \subseteq 1 .. id - 1
    /\ \A i \in 1 .. Len(store.entries) : Truthful(store.entries[i].what)

-----------------------------------------------------------------------------
(* The script *)

Reasons == Settled \cup {"unknown", "notSubmitted"}
Tolds   == [reason : Reasons, id : Nat]

\* What was submitted by the script; each of its commands once.
Ours == {id \in 1 .. Len(accepted) : accepted[id].client = "script"}

OursOnce ==
    /\ \A id \in Ours : /\ accepted[id].index \in 1 .. Len(script)
                        /\ accepted[id].index < next
                        /\ accepted[id].kind = script[accepted[id].index]
    /\ \A id, other \in Ours : accepted[id].index = accepted[other].index => id = other

\* What is pending and what was reported, when the commands before nx were sent.
PendingOurs(pend) ==
    /\ pend \subseteq [id : Nat, index : Nat]
    /\ \A p \in pend : p.id \in Ours /\ accepted[p.id].index = p.index

OpenIsPending(pend) ==
    \A id \in Ours \cap open : [id |-> id, index |-> accepted[id].index] \in pend

IsPending(pend, index) == \E p \in pend : p.index = index

Reported(reps) == reps \in [1 .. Len(script) -> Seq(Tolds)]

ReportedOnce(reps, pend, nx) ==
    \A index \in 1 .. Len(script) :
        Len(reps[index]) = IF index < nx /\ ~IsPending(pend, index) THEN 1 ELSE 0

\* Without an id, a report is about a command that was sent before, or never will be.
ReportedTruly(reps, nx, pc) ==
    \A index \in 1 .. Len(script) : \A i \in 1 .. Len(reps[index]) :
        LET told == reps[index][i] IN
        /\ IsTrue(index, told)
        /\ told.id = 0 /\ told.reason \in {"rejected", "notSubmitted"} =>
              index < nx \/ pc = "done"

\* A boundary was accepted when nothing else of the script was open.
BoundariesAlone ==
    \A id \in Ours : accepted[id].kind \in Boundaries =>
        \A other \in accepted[id].behind : other \notin Ours

Ongoing(pend, reps, nx) ==
    PendingOurs(pend) /\ OpenIsPending(pend) /\ ReportedOnce(reps, pend, nx)

AllReported(reps) == \A index \in 1 .. Len(script) : Len(reps[index]) = 1

ScriptInv ==
    /\ scriptPc \in {"bind", "loop", "poll", "done"}
    /\ next \in 1 .. Len(script) + 1
    /\ scriptCursor \in 0 .. store.position
    /\ OursOnce /\ BoundariesAlone
    /\ Reported(reports) /\ ReportedTruly(reports, next, scriptPc)
    /\ scriptPc # "done" => verdict = "none" /\ Ongoing(pending, reports, next)
    /\ verdict \in {"passed", "failed"} => AllReported(reports)
    /\ verdict = "passed" => AllCompleted(reports)

-----------------------------------------------------------------------------
(* The REPL *)

Words == {"queueFull", "notSent", "replayInProgress", "refused", "listed", "pending",
          "unknown"}

OurRuns == {id \in 1 .. Len(accepted) : accepted[id].client = "repl"}

\* Nothing is said of what waits; one thing of the rest.
SaidOnce ==
    \A index \in 1 .. Len(typed) :
        Len(said[index]) = IF index <= entered /\ ~Waits(index) THEN 1 ELSE 0

\* What ran was said to be pending, or nothing is known of it.
SaidTruly ==
    /\ \A id \in OurRuns :
          LET index == accepted[id].index IN
          /\ index \in 1 .. entered /\ ~Waits(index)
          /\ said[index][1] \in {"pending", "unknown"}
          /\ accepted[id].kind = typed[index]
    /\ \A id, other \in OurRuns : accepted[id].index = accepted[other].index => id = other
    /\ \A index \in 1 .. Len(typed) : \A i \in 1 .. Len(said[index]) :
          said[index][i] = "pending" => \E id \in OurRuns : accepted[id].index = index

RanShutdown ==
    \E id \in OurRuns : accepted[id].kind = "shutdown"

\* What it has shown is in order.
InOrder(shown) ==
    \A i \in 2 .. Len(shown) :
        IF shown[i].isGap THEN shown[i].position > shown[i - 1].position
        ELSE shown[i].position = shown[i - 1].position + 1

Showns == [position : Nat, isGap : BOOLEAN]

\* It ends at the cursor.
PrintedUpTo ==
    /\ printed \in Seq(Showns) /\ InOrder(printed)
    /\ \/ replCursor = << >> /\ printed = << >>
       \/ /\ replCursor # << >> /\ replCursor = <<replCursor[1]>>
          /\ replCursor[1] \in 0 .. store.position
          /\ printed # << >> /\ printed[Len(printed)].position = replCursor[1]

QueueTypes ==
    /\ entered \in 0 .. Len(typed) /\ input \in Seq(1 .. entered) /\ hand \in 0 .. entered
    /\ \A i \in 1 .. Len(input) : input[i] # hand
    /\ \A i, j \in 1 .. Len(input) : input[i] = input[j] => i = j
    /\ said \in [1 .. Len(typed) -> Seq(Words)]

ReplInv ==
    /\ replPc \in {"connect", "backoff", "turn", "submit", "poll", "gap", "ended"}
    /\ replPc = "submit" <=> hand # 0
    /\ replPc \in {"turn", "submit", "poll", "gap"} => replCursor # << >>
    /\ ownShutdown \in BOOLEAN /\ left \in BOOLEAN
    /\ result \in {"none", "ok", "error"}
    /\ QueueTypes /\ SaidOnce /\ SaidTruly /\ PrintedUpTo
    /\ ownShutdown => RanShutdown
    /\ result = "ok" => left \/ (life = "Ended" /\ RanShutdown)

-----------------------------------------------------------------------------
(* The workers *)

Pcs      == {"idle", "begin", "search", "publish", "look", "write", "link", "recheck",
             "remove"}
Statuses == {"interrupted", "fallbackFailed", "failed", "fallback", "existing", "created",
             "existingIssue", "createdIssue"}

ReportTypes ==
    /\ workPc \in [Workers -> Pcs] /\ job \in [Workers -> Nat]
    /\ declined \in [Workers -> BOOLEAN]
    /\ temporary \in [Workers -> {"none", "partial", "whole"}]
    /\ created \in [Workers -> BOOLEAN]
    /\ files \in [Signatures -> {"none", "foreign", "partial", "whole"}]
    /\ theirs \subseteq Signatures
    /\ issues \in [Signatures -> Nat]
    /\ reportCancel \in [Workers -> BOOLEAN] /\ incomplete \in [Workers -> BOOLEAN]
    /\ published \in [Workers -> Seq([signature : Signatures, status : Statuses])]

\* Where each worker stands: its jobs, and its temporary file.
Placed(w) ==
    /\ job[w] \in (IF At(w, "idle") THEN 0 ELSE 1) .. Len(setting.jobs[w])
    /\ Len(published[w]) = job[w] - (IF At(w, "idle") THEN 0 ELSE 1)
    /\ At(w, "link") => temporary[w] = "whole"
    /\ At(w, "recheck") => ~created[w]
    /\ At(w, "remove") => files[Signature(w)] = "whole"
    /\ workPc[w] \in {"idle", "begin", "search", "publish", "look"} /\ ~May("io") =>
          temporary[w] = "none"

\* That worker has created the report of its present job.
Creates(w) == At(w, "remove") /\ created[w]

IsCreated(w, i) == published[w][i].status = "created"

\* A report was created once, by a job that is done or by one that is about to be.
CreatedOnce ==
    /\ \A w, v \in Workers : Creates(w) /\ Creates(v) /\ Signature(w) = Signature(v) => w = v
    /\ \A w, v \in Workers : \A i \in 1 .. Len(published[v]) :
          Creates(w) /\ IsCreated(v, i) => published[v][i].signature # Signature(w)
    /\ \A w, v \in Workers :
          \A i \in 1 .. Len(published[w]), j \in 1 .. Len(published[v]) :
              /\ IsCreated(w, i) /\ IsCreated(v, j)
              /\ published[w][i].signature = published[v][j].signature
              => w = v /\ i = j

\* What a result says of a report is so.
ResultIsTrue(w, r) ==
    /\ r.status \in {"created", "existing", "fallback"} => files[r.signature] = "whole"
    /\ r.status \in {"createdIssue", "existingIssue"} => issues[r.signature] > 0
    /\ r.status = "interrupted" => reportCancel[w] /\ incomplete[w]

ReportInv ==
    /\ ReportTypes
    /\ \A w \in Workers : Placed(w)
    /\ \A w \in Workers : \A i \in 1 .. Len(published[w]) : ResultIsTrue(w, published[w][i])
    /\ CreatedOnce
    /\ \A s \in theirs : files[s] = "foreign"

-----------------------------------------------------------------------------
(* What the session does *)

\* The settings that there are.
LEMMA SettingIs ==
    ASSUME setting \in Settings
    PROVE  /\ script \in Seq(Commands) /\ typed \in Seq(Commands \cup {"pending"})
           /\ Workers = 1 .. Len(setting.jobs) /\ setting.jobs \in Seq(Seq(Signatures))
           /\ setting.occupied \subseteq Signatures
BY SettingsAssumption DEF script, typed, Workers

\* An entry is pushed onto a log.
LEMMA PushedIs ==
    ASSUME IsLog(store, Stored), NEW what \in Whats
    PROVE  /\ IsLog(Pushed(what), Stored) /\ Pushed(what).position = store.position + 1
           /\ store.position \in Nat
           /\ \A i \in 1 .. Len(Pushed(what).entries) :
                 \/ Pushed(what).entries[i].what = what
                 \/ \E j \in 1 .. Len(store.entries) :
                       Pushed(what).entries[i] = store.entries[j]
<1>1. store.position \in Nat
  BY DEF IsLog, LogOf
<1>2. Pushes(store, what, 1, {}) \in Stored /\ Pushes(store, what, 1, {}).what = what
  BY <1>1 DEF Pushes, Stored
<1>3. Pushed(what) = Push(store, what, 1, {})
  BY DEF Pushed
<1>4. IsLog(Pushed(what), Stored)
  BY <1>2, <1>3, PushKeepsLog
<1>5. Pushed(what).position = store.position + 1
  BY <1>3 DEF Push
<1>6. ASSUME NEW i \in 1 .. Len(Pushed(what).entries)
      PROVE  \/ Pushed(what).entries[i] = Pushes(store, what, 1, {})
             \/ \E j \in 1 .. Len(store.entries) : Pushed(what).entries[i] = store.entries[j]
  BY <1>2, <1>3, PushContents
<1> QED
  BY <1>1, <1>2, <1>4, <1>5, <1>6

\* What a report worker does to the session: it adds an entry.
AddsReport ==
    store' = Pushed(Entry("report", 0)) /\ UNCHANGED <<setting, life, accepted, open, outcome>>

Submits(client) ==
    \E index \in Nat, kind \in Commands \cup {"pending"} : Accept(client, index, kind)

Moves(clients) ==
    \/ \E client \in clients : Submits(client)
    \/ SessionStep \/ AddsReport \/ UNCHANGED remoteVars

\* Whatever happens, what was accepted, settled or ended stays so.
Grows ==
    /\ setting' = setting
    /\ Len(accepted') \in Nat /\ Len(accepted) <= Len(accepted')
    /\ \A id \in 1 .. Len(accepted) :
          /\ accepted'[id] = accepted[id]
          /\ outcome[id] # "none" => outcome'[id] = outcome[id]
    /\ \A id \in open' : id \in 1 .. Len(accepted) => id \in open
    /\ store.position \in Nat /\ store'.position \in Nat /\ store.position <= store'.position
    /\ life # "Ready" => life' = life

\* No command of these clients is new.
Foreign(clients) ==
    \A id \in 1 .. Len(accepted') : id \in 1 .. Len(accepted) \/ accepted'[id].client \notin clients

\* The entries of the activity stay true when the new one is.
LEMMA StayTrue ==
    ASSUME RemoteInv, NEW what \in Whats, store' = Pushed(what), Truthful(what)',
           Len(outcome) <= Len(outcome'), Len(outcome') \in Nat,
           \A id \in 1 .. Len(outcome) : outcome[id] # "none" => outcome'[id] = outcome[id],
           life # "Ready" => life' = life
    PROVE  (\A i \in 1 .. Len(store.entries) : Truthful(store.entries[i].what))'
<1>. SUFFICES ASSUME NEW i \in 1 .. Len(store'.entries)
              PROVE  (Truthful(store.entries[i].what))'
  OBVIOUS
<1>1. /\ IsLog(store, Stored)
      /\ \A j \in 1 .. Len(store.entries) : Truthful(store.entries[j].what)
      /\ outcome \in Seq(Settled \cup {"none"})
  BY DEF RemoteInv, RemoteTypes
<1>2. \/ store'.entries[i].what = what
      \/ \E j \in 1 .. Len(store.entries) : store'.entries[i] = store.entries[j]
  BY <1>1, PushedIs
<1>3. CASE store'.entries[i].what = what
  BY <1>3 DEF Truthful
<1>4. CASE \E j \in 1 .. Len(store.entries) : store'.entries[i] = store.entries[j]
  <2>1. PICK j \in 1 .. Len(store.entries) : store'.entries[i] = store.entries[j]
    BY <1>4
  <2>. DEFINE w == store.entries[j].what
  <2>2. Truthful(w) /\ store'.entries[i].what = w
    BY <1>1, <2>1
  <2>. HIDE DEF w
  <2>3. w.kind \in Settled => w.id \in 1 .. Len(outcome') /\ outcome'[w.id] = w.kind
    BY <1>1, <2>2 DEF Truthful, Settled
  <2>4. w.kind \in {"Ended", "Failed"} => life' = w.kind
    BY <2>2 DEF Truthful
  <2> QED
    BY <2>2, <2>3, <2>4 DEF Truthful
<1> QED
  BY <1>2, <1>3, <1>4

\* A command is accepted, with the next id.
AcceptedNow(client, index, kind) ==
    LET id == Len(accepted) + 1 IN
    /\ Len(accepted') = id /\ life = "Ready"
    /\ accepted'[id] = [client |-> client, index |-> index, kind |-> kind, behind |-> open]
    /\ open' = open \cup {id}

LEMMA AcceptKeeps ==
    ASSUME RemoteInv, NEW client \in {"script", "repl"}, NEW index \in Nat,
           NEW kind \in Commands \cup {"pending"}, Accept(client, index, kind)
    PROVE  RemoteInv' /\ Grows /\ AcceptedNow(client, index, kind)
<1>. DEFINE id == Len(accepted) + 1
            acc == [client |-> client, index |-> index, kind |-> kind, behind |-> open]
<1>0. PICK what : what = Entry("pending", id)
  OBVIOUS
<1>1. /\ setting \in Settings /\ accepted \in Seq(Acceptances)
      /\ outcome \in Seq(Settled \cup {"none"}) /\ Len(outcome) = Len(accepted)
      /\ open \subseteq 1 .. Len(accepted) /\ IsLog(store, Stored)
      /\ \A i \in open : outcome[i] = "none"
      /\ \A i \in 1 .. Len(accepted) : accepted[i].behind \subseteq 1 .. i - 1
  BY DEF RemoteInv, RemoteTypes
<1>2. /\ life = "Ready" /\ accepted' = Append(accepted, acc) /\ open' = open \cup {id}
      /\ outcome' = Append(outcome, "none") /\ store' = Pushed(what)
      /\ setting' = setting /\ life' = life
  BY <1>0 DEF Accept, Refuses
<1>3. acc \in Acceptances
  BY <1>1 DEF Acceptances
<1>4. /\ accepted' \in Seq(Acceptances) /\ Len(accepted') = Len(accepted) + 1
      /\ \A i \in 1 .. Len(accepted) : accepted'[i] = accepted[i]
      /\ accepted'[id] = acc
  BY <1>1, <1>2, <1>3, AppendIs
<1>5. /\ outcome' \in Seq(Settled \cup {"none"}) /\ Len(outcome') = Len(accepted) + 1
      /\ \A i \in 1 .. Len(accepted) : outcome'[i] = outcome[i]
      /\ outcome'[id] = "none"
  BY <1>1, <1>2, AppendIs
<1>. HIDE DEF acc
<1>6. what \in Whats /\ what.kind = "pending"
  BY <1>0, <1>1 DEF Whats, Entry
<1>7. IsLog(store', Stored) /\ store'.position = store.position + 1 /\ store.position \in Nat
  BY <1>1, <1>2, <1>6, PushedIs
<1>8. Truthful(what)'
  BY <1>6 DEF Truthful, Settled
<1>9. (\A i \in 1 .. Len(store.entries) : Truthful(store.entries[i].what))'
  <2>1. /\ Len(outcome) <= Len(outcome') /\ Len(outcome') \in Nat
        /\ \A i \in 1 .. Len(outcome) : outcome[i] # "none" => outcome'[i] = outcome[i]
    BY <1>1, <1>5
  <2> QED
    BY <1>2, <1>6, <1>8, <2>1, StayTrue
<1>10. \A i \in open' : outcome'[i] = "none"
  BY <1>1, <1>2, <1>5
<1>11. \A i \in 1 .. Len(accepted') : accepted'[i].behind \subseteq 1 .. i - 1
  <2>1. Len(accepted) \in Nat /\ 1 .. Len(accepted') = (1 .. Len(accepted)) \cup {id}
    BY <1>1, <1>4
  <2>2. accepted'[id].behind = open /\ id - 1 = Len(accepted)
    BY <1>4, <2>1 DEF acc
  <2>. HIDE DEF id
  <2> QED
    BY <1>1, <1>4, <2>1, <2>2
<1>12. \A i \in open' : i \in 1 .. Len(accepted')
  <2>1. /\ Len(accepted) \in Nat /\ open \subseteq 1 .. Len(accepted)
        /\ open' = open \cup {Len(accepted) + 1} /\ Len(accepted') = Len(accepted) + 1
    BY <1>1, <1>2, <1>4
  <2>. TAKE i \in open'
  <2>2. i \in 1 .. Len(accepted) \/ i = Len(accepted) + 1
    BY <2>1
  <2> QED
    BY <2>1, <2>2
<1>13. RemoteTypes'
  BY <1>1, <1>2, <1>4, <1>5, <1>7, <1>12 DEF RemoteTypes, Lives
<1>14. RemoteInv'
  BY <1>4, <1>9, <1>10, <1>11, <1>13 DEF RemoteInv
<1>15. Grows
  BY <1>1, <1>2, <1>4, <1>5, <1>7 DEF Grows
<1> QED
  BY <1>2, <1>4, <1>14, <1>15 DEF AcceptedNow, acc

LEMMA SettleKeeps ==
    ASSUME RemoteInv, NEW id, NEW kind \in Settled, Settle(id, kind)
    PROVE  RemoteInv' /\ Grows /\ accepted' = accepted
<1>. DEFINE what == Entry(kind, id)
<1>1. /\ setting \in Settings /\ accepted \in Seq(Acceptances)
      /\ outcome \in Seq(Settled \cup {"none"}) /\ Len(outcome) = Len(accepted)
      /\ open \subseteq 1 .. Len(accepted) /\ IsLog(store, Stored)
      /\ \A i \in open : outcome[i] = "none"
      /\ \A i \in 1 .. Len(accepted) : accepted[i].behind \subseteq 1 .. i - 1
  BY DEF RemoteInv, RemoteTypes
<1>2. /\ life = "Ready" /\ id \in open /\ open' = open \ {id}
      /\ outcome' = [outcome EXCEPT ![id] = kind] /\ store' = Pushed(what)
      /\ setting' = setting /\ life' = life /\ accepted' = accepted
  BY DEF Settle
<1>3. /\ outcome' \in Seq(Settled \cup {"none"}) /\ Len(outcome') = Len(accepted)
      /\ \A i \in 1 .. Len(accepted) : outcome'[i] = IF i = id THEN kind ELSE outcome[i]
  BY <1>1, <1>2
<1>4. what \in Whats
  BY <1>1, <1>2 DEF Whats, Entry
<1>5. IsLog(store', Stored) /\ store'.position = store.position + 1 /\ store.position \in Nat
  BY <1>1, <1>2, <1>4, PushedIs
<1>6. Truthful(what)'
  BY <1>1, <1>2, <1>3 DEF Truthful, Entry, Settled
<1>7. \A i \in 1 .. Len(outcome) : outcome[i] # "none" => outcome'[i] = outcome[i]
  BY <1>1, <1>2, <1>3
<1>8. (\A i \in 1 .. Len(store.entries) : Truthful(store.entries[i].what))'
  BY <1>1, <1>2, <1>3, <1>4, <1>6, <1>7, StayTrue
<1>. HIDE DEF what
<1>9. \A i \in open' : outcome'[i] = "none"
  BY <1>1, <1>2, <1>3
<1>10. RemoteTypes'
  BY <1>1, <1>2, <1>3, <1>5 DEF RemoteTypes, Lives
<1>11. RemoteInv'
  BY <1>1, <1>2, <1>8, <1>9, <1>10 DEF RemoteInv
<1>12. Grows
  BY <1>1, <1>2, <1>5, <1>7 DEF Grows
<1> QED
  BY <1>2, <1>11, <1>12

\* An entry that is about no outcome: the end, or a report.
LEMMA EntryKeeps ==
    ASSUME RemoteInv, NEW what \in Whats, store' = Pushed(what), Truthful(what)',
           life' \in Lives, life # "Ready" => life' = life,
           UNCHANGED <<setting, accepted, open, outcome>>
    PROVE  RemoteInv' /\ Grows /\ accepted' = accepted
<1>1. /\ setting \in Settings /\ accepted \in Seq(Acceptances)
      /\ outcome \in Seq(Settled \cup {"none"}) /\ Len(outcome) = Len(accepted)
      /\ open \subseteq 1 .. Len(accepted) /\ IsLog(store, Stored)
  BY DEF RemoteInv, RemoteTypes
<1>2. IsLog(store', Stored) /\ store'.position = store.position + 1 /\ store.position \in Nat
  BY <1>1, PushedIs
<1>3. (\A i \in 1 .. Len(store.entries) : Truthful(store.entries[i].what))'
  BY <1>1, StayTrue
<1>4. RemoteInv'
  BY <1>1, <1>2, <1>3 DEF RemoteInv, RemoteTypes
<1> QED
  BY <1>1, <1>2, <1>4 DEF Grows

LEMMA EndKeeps ==
    ASSUME RemoteInv, NEW state \in {"Ended", "Failed"}, End(state)
    PROVE  RemoteInv' /\ Grows /\ accepted' = accepted
<1>1. /\ life = "Ready" /\ life' = state /\ store' = Pushed(Entry(state, 0))
      /\ UNCHANGED <<setting, accepted, open, outcome>>
  BY DEF End
<1>2. Entry(state, 0) \in Whats
  BY DEF Whats, Entry
<1>3. Truthful(Entry(state, 0))'
  BY <1>1 DEF Truthful, Entry, Settled
<1> QED
  BY <1>1, <1>2, <1>3, EntryKeeps DEF Lives

LEMMA ReportKeeps ==
    ASSUME RemoteInv, AddsReport
    PROVE  RemoteInv' /\ Grows /\ accepted' = accepted
<1>1. Entry("report", 0) \in Whats
  BY DEF Whats, Entry
<1>2. Truthful(Entry("report", 0))'
  BY DEF Truthful, Entry, Settled
<1>3. life \in Lives
  BY DEF RemoteInv, RemoteTypes
<1> QED
  BY <1>1, <1>2, <1>3, EntryKeeps DEF AddsReport

LEMMA RestKeeps ==
    ASSUME RemoteInv, UNCHANGED remoteVars
    PROVE  RemoteInv' /\ Grows /\ accepted' = accepted
BY DEF remoteVars, RemoteInv, RemoteTypes, Grows, Truthful, IsLog, LogOf

LEMMA RemoteKeeps ==
    ASSUME RemoteInv, NEW clients \in SUBSET {"script", "repl"}, Moves(clients)
    PROVE  /\ RemoteInv' /\ Grows
           /\ \A id \in 1 .. Len(accepted') :
                 id \in 1 .. Len(accepted) \/ accepted'[id].client \in clients
<1>0. Len(accepted) \in Nat
  BY DEF RemoteInv, RemoteTypes
<1>1. ASSUME NEW client \in clients, Submits(client)
      PROVE  /\ RemoteInv' /\ Grows
             /\ \A id \in 1 .. Len(accepted') :
                   id \in 1 .. Len(accepted) \/ accepted'[id].client \in clients
  <2>1. PICK index \in Nat, kind \in Commands \cup {"pending"} : Accept(client, index, kind)
    BY <1>1 DEF Submits
  <2>2. RemoteInv' /\ Grows /\ AcceptedNow(client, index, kind)
    BY <2>1, AcceptKeeps
  <2>3. Len(accepted') = Len(accepted) + 1 /\ accepted'[Len(accepted) + 1].client = client
    BY <2>2 DEF AcceptedNow
  <2> QED
    BY <1>0, <2>2, <2>3
<1>2. CASE SessionStep
  <2>1. ASSUME NEW id, NEW kind \in {"completed", "rejected", "failed"}, Settle(id, kind)
        PROVE  RemoteInv' /\ Grows /\ accepted' = accepted
    BY <2>1, SettleKeeps DEF Settled
  <2> QED
    BY <1>2, <2>1, EndKeeps DEF SessionStep
<1> QED
  BY <1>1, <1>2, ReportKeeps, RestKeeps DEF Moves

LEMMA RemoteStarts == ASSUME RemoteInit PROVE RemoteInv
<1>1. IsLog(NewStore, Stored) /\ Len(NewStore.entries) = 0
  BY NewLog DEF NewStore
<1> QED
  BY <1>1 DEF RemoteInit, RemoteInv, RemoteTypes, Lives

-----------------------------------------------------------------------------
(* The script: what the activity says *)

NotedAll(base, seq) == FoldLeft(Noted, base, seq)

\* What the fold of the news goes through.
LEMMA NotedFold ==
    ASSUME NEW base, NEW n \in Nat, NEW seq, DOMAIN seq = 1 .. n
    PROVE  \E h : /\ h[0] = base
                  /\ \A i \in 1 .. n : h[i] = Noted(h[i - 1], seq[i])
                  /\ NotedAll(base, seq) = h[n]
<1>. DEFINE Is(g, k) == g = [s \in SUBSET (1 .. k) |->
                                IF s = {} THEN base
                                ELSE LET x == Max(s) IN Noted(g[s \ {x}], seq[x])]
            Good == {k \in Nat : \E g : Is(g, k)}
            it == CHOOSE g : Is(g, n)
            h == [i \in 0 .. n |-> it[1 .. i]]
<1>1. NotedAll(base, seq) = it[1 .. n]
  BY DEF NotedAll, FoldLeft, MapThenFoldSet
<1>2. 0 \in Good
  <2>1. Is([s \in SUBSET (1 .. 0) |-> base], 0)
    OBVIOUS
  <2> QED
    BY <2>1
<1>3. ASSUME NEW k \in Nat, k \in Good PROVE k + 1 \in Good
  <2>1. PICK f : Is(f, k)
    BY <1>3
  <2>. DEFINE g == [s \in SUBSET (1 .. k + 1) |->
                       IF k + 1 \in s THEN Noted(f[s \ {k + 1}], seq[k + 1]) ELSE f[s]]
  <2>2. ASSUME NEW s \in SUBSET (1 .. k + 1)
        PROVE  g[s] = IF s = {} THEN base
                      ELSE LET x == Max(s) IN Noted(g[s \ {x}], seq[x])
    <3>1. CASE k + 1 \in s
      <4>1. Max(s) = k + 1
        BY <3>1, MaxOfRange
      <4>2. s \ {k + 1} \in SUBSET (1 .. k + 1) /\ s # {}
        BY <3>1
      <4>3. g[s \ {k + 1}] = f[s \ {k + 1}]
        BY <4>2
      <4> QED
        BY <3>1, <4>1, <4>2, <4>3
    <3>2. CASE k + 1 \notin s
      <4>1. s \in SUBSET (1 .. k)
        BY <3>2
      <4>2. g[s] = f[s]
        BY <3>2
      <4>3. CASE s = {}
        BY <2>1, <4>1, <4>2, <4>3
      <4>4. CASE s # {}
        <5>. DEFINE x == Max(s)
        <5>1. f[s] = Noted(f[s \ {x}], seq[x])
          BY <2>1, <4>1, <4>4
        <5>2. s \ {x} \in SUBSET (1 .. k + 1) /\ k + 1 \notin s \ {x}
          BY <3>2
        <5>3. g[s \ {x}] = f[s \ {x}]
          BY <5>2
        <5> QED
          BY <4>2, <4>4, <5>1, <5>3
      <4> QED
        BY <4>3, <4>4
    <3> QED
      BY <3>1, <3>2
  <2>3. Is(g, k + 1)
    BY <2>2
  <2>. HIDE DEF g, Is
  <2>4. \E e : Is(e, k + 1)
    BY <2>3
  <2> QED
    BY <2>4
<1>4. Nat \subseteq Good
  <2>. HIDE DEF Good
  <2> QED
    BY <1>2, <1>3, NatsIn
<1>5. Is(it, n)
  <2>. HIDE DEF Is
  <2>1. \E g : Is(g, n)
    BY <1>4
  <2> QED
    BY <2>1
<1>6. \A s \in SUBSET (1 .. n) :
         it[s] = IF s = {} THEN base ELSE LET x == Max(s) IN Noted(it[s \ {x}], seq[x])
  <2>. HIDE DEF it
  <2> QED
    BY <1>5
<1>. HIDE DEF it, Is
<1>7. h[0] = base
  <2>1. 1 .. 0 = {} /\ {} \in SUBSET (1 .. n) /\ h[0] = it[1 .. 0]
    OBVIOUS
  <2> QED
    BY <1>6, <2>1
<1>8. ASSUME NEW i \in 1 .. n PROVE h[i] = Noted(h[i - 1], seq[i])
  <2>1. 1 .. i \in SUBSET (1 .. n) /\ i \in 1 .. i
    OBVIOUS
  <2>2. (1 .. i) \ {i} = 1 .. i - 1
    OBVIOUS
  <2>3. Max(1 .. i) = i
    <3>1. 1 .. i \subseteq Nat /\ \A y \in 1 .. i : y <= i
      OBVIOUS
    <3> QED
      BY <2>1, <3>1, MaxIs
  <2>4. it[1 .. i] = Noted(it[1 .. i - 1], seq[i])
    BY <1>6, <2>1, <2>2, <2>3
  <2> QED
    BY <2>4
<1>9. h[n] = it[1 .. n]
  OBVIOUS
<1>. HIDE DEF h
<1> QED
  BY <1>1, <1>7, <1>8, <1>9

\* The same, named.
NotedBy(base, seq, n, h) ==
    /\ h[0] = base
    /\ \A i \in 1 .. n : h[i] = Noted(h[i - 1], seq[i])
    /\ NotedAll(base, seq) = h[n]

LEMMA NotedFoldBy ==
    ASSUME NEW base, NEW n \in Nat, NEW seq, DOMAIN seq = 1 .. n
    PROVE  \E h : NotedBy(base, seq, n, h)
<1>1. \E h : /\ h[0] = base
             /\ \A i \in 1 .. n : h[i] = Noted(h[i - 1], seq[i])
             /\ NotedAll(base, seq) = h[n]
  BY ONLY NotedFold, n \in Nat, DOMAIN seq = 1 .. n
<1> QED
  BY <1>1 DEF NotedBy

\* What a reader that misses nothing gets: all behind its cursor, in order, and true.
LEMMA NewsAreTrue ==
    ASSUME RemoteInv, NEW cursor \in Nat, ~IsGap(store, cursor), cursor <= store.position
    PROVE  /\ News(store, cursor) \in Seq(Stored)
           /\ Len(News(store, cursor)) = store.position - cursor
           /\ \A i \in 1 .. Len(News(store, cursor)) :
                 /\ News(store, cursor)[i].position = cursor + i
                 /\ Truthful(News(store, cursor)[i].what)
<1>. DEFINE k == cursor - store.floor
            kept == After(store.entries, k)
<1>1. /\ IsLog(store, Stored)
      /\ \A i \in 1 .. Len(store.entries) : Truthful(store.entries[i].what)
  BY DEF RemoteInv, RemoteTypes
<1>2. /\ store.entries \in Seq(Stored) /\ store.floor \in Nat /\ Len(store.entries) \in Nat
      /\ store.position = store.floor + Len(store.entries)
      /\ \A i \in 1 .. Len(store.entries) : store.entries[i].position = store.floor + i
  BY <1>1 DEF IsLog, LogOf
<1>3. store.floor <= cursor
  BY <1>2 DEF IsGap
<1>4. News(store, cursor) = kept
  BY <1>1, <1>3, NewsIs
<1>5. /\ k \in 0 .. Len(store.entries) /\ Len(store.entries) - k = store.position - cursor
      /\ store.floor + k = cursor
  BY <1>2, <1>3
<1>6. /\ kept \in Seq(Stored) /\ Len(kept) = Len(store.entries) - k
      /\ \A i \in 1 .. Len(store.entries) - k : kept[i] = store.entries[k + i]
  BY <1>2, <1>5, AfterIs
<1>7. ASSUME NEW i \in 1 .. Len(kept)
      PROVE  kept[i].position = cursor + i /\ Truthful(kept[i].what)
  <2>. HIDE DEF kept, k
  <2>0. /\ k \in Nat /\ i \in Nat /\ 1 <= i /\ i <= Len(store.entries) - k
        /\ store.floor + k = cursor /\ store.floor \in Nat /\ Len(store.entries) \in Nat
    BY <1>2, <1>5, <1>6
  <2>1. k + i \in 1 .. Len(store.entries) /\ store.floor + (k + i) = cursor + i
    BY <2>0
  <2>2. kept[i] = store.entries[k + i]
    BY <1>5, <1>6
  <2> QED
    BY <1>1, <1>2, <2>1, <2>2
<1>. HIDE DEF kept, k
<1> QED
  BY <1>4, <1>5, <1>6, <1>7

\* The script's own submissions, and what is true of a report.
LEMMA IdsOfIs ==
    ASSUME RemoteInv, NEW index
    PROVE  IdsOf("script", index) = {id \in Ours : accepted[id].index = index}
BY DEF IdsOf, Ours, RemoteInv, RemoteTypes

LEMMA IsTrueIs ==
    ASSUME NEW told \in Tolds, NEW index
    PROVE  IsTrue(index, told) <=>
              \/ /\ told.reason \in Settled /\ told.id # 0
                 /\ told.id \in IdsOf("script", index) /\ outcome[told.id] = told.reason
              \/ /\ told.reason \in {"rejected", "notSubmitted"} /\ told.id = 0
                 /\ IdsOf("script", index) = {}
              \/ told.reason = "unknown"
BY DEF Tolds, Reasons, Settled, IsTrue

\* What is true of a report stays so, if its command is not sent only now.
LEMMA StaysReported ==
    ASSUME RemoteInv, RemoteInv', Grows, NEW told \in Tolds, NEW index, IsTrue(index, told),
           IdsOf("script", index) = {} /\ told.id = 0 => IdsOf("script", index)' = {}
    PROVE  IsTrue(index, told)'
<1>1. /\ accepted \in Seq(Acceptances) /\ Len(accepted) = Len(outcome)
      /\ accepted' \in Seq(Acceptances)
  BY DEF RemoteInv, RemoteTypes
<1>2. (IsTrue(index, told) <=>
          \/ /\ told.reason \in Settled /\ told.id # 0
             /\ told.id \in IdsOf("script", index) /\ outcome[told.id] = told.reason
          \/ /\ told.reason \in {"rejected", "notSubmitted"} /\ told.id = 0
             /\ IdsOf("script", index) = {}
          \/ told.reason = "unknown")'
  BY DEF Tolds, Reasons, Settled, IsTrue
<1>3. CASE /\ told.reason \in Settled /\ told.id # 0
           /\ told.id \in IdsOf("script", index) /\ outcome[told.id] = told.reason
  <2>1. told.id \in 1 .. Len(accepted)
    BY <1>1, <1>3 DEF IdsOf
  <2>2. outcome'[told.id] = told.reason
    BY <1>3, <2>1 DEF Grows, Settled
  <2>3. told.id \in IdsOf("script", index)'
    <3>1. accepted'[told.id] = accepted[told.id] /\ told.id \in 1 .. Len(accepted')
      BY <1>1, <2>1 DEF Grows
    <3> QED
      BY <1>1, <1>3, <3>1 DEF IdsOf
  <2> QED
    BY <1>2, <1>3, <2>2, <2>3
<1>4. CASE /\ told.reason \in {"rejected", "notSubmitted"} /\ told.id = 0
           /\ IdsOf("script", index) = {}
  BY <1>2, <1>4
<1>5. CASE told.reason = "unknown"
  BY <1>2, <1>5
<1> QED
  BY <1>3, <1>4, <1>5, IsTrueIs

\* Steps of the others leave the script's submissions as they are.
LEMMA OursStay ==
    ASSUME RemoteInv, RemoteInv', Grows, Foreign({"script"})
    PROVE  /\ Ours' = Ours /\ Ours \subseteq 1 .. Len(accepted)
           /\ \A id \in Ours : accepted'[id] = accepted[id]
           /\ \A index : IdsOf("script", index)' = IdsOf("script", index)
<1>1. Len(accepted) \in Nat
  BY DEF RemoteInv, RemoteTypes
<1>2. Ours' = Ours
  BY <1>1 DEF Ours, Grows, Foreign
<1>3. \A id \in Ours : id \in 1 .. Len(accepted) /\ accepted'[id] = accepted[id]
  BY DEF Ours, Grows
<1>4. ASSUME NEW index PROVE IdsOf("script", index)' = IdsOf("script", index)
  <2>1. (IdsOf("script", index) = {id \in Ours : accepted[id].index = index})'
    BY DEF IdsOf, Ours, RemoteInv, RemoteTypes
  <2> QED
    BY <1>2, <1>3, <2>1, IdsOfIs
<1> QED
  BY <1>2, <1>3, <1>4

LEMMA AloneStay ==
    ASSUME RemoteInv, RemoteInv', Grows, Foreign({"script"}), BoundariesAlone
    PROVE  BoundariesAlone'
BY OursStay DEF BoundariesAlone

LEMMA OnceStay ==
    ASSUME RemoteInv, RemoteInv', Grows, Foreign({"script"}), OursOnce,
           next \in Nat, next' \in Nat, next <= next'
    PROVE  OursOnce'
<1>1. script' = script
  BY DEF Grows, script
<1>2. script \in Seq(Commands)
  BY SettingIs DEF RemoteInv, RemoteTypes
<1> QED
  BY <1>1, <1>2, OursStay DEF OursOnce

(***************************************************************************)
(* An outcome of a command of this script: its report is added, and it is  *)
(* not pending any more.                                                   *)
(***************************************************************************)
NoteInv(now) ==
    /\ now = [pending |-> now.pending, reports |-> now.reports]
    /\ Ongoing(now.pending, now.reports, next)
    /\ Reported(now.reports) /\ ReportedTruly(now.reports, next, scriptPc)

LEMMA NoteStep ==
    ASSUME RemoteInv, ScriptInv, NEW now, NoteInv(now), NEW entry, entry.what \in Whats,
           Truthful(entry.what)
    PROVE  NoteInv(Noted(now, entry))
<1>. DEFINE mine == {p \in now.pending : p.id = entry.what.id}
            id == entry.what.id
            kind == entry.what.kind
            new == Noted(now, entry)
            told == Told(kind, id)
<1>1. /\ OursOnce /\ next \in Nat /\ script \in Seq(Commands)
      /\ PendingOurs(now.pending) /\ OpenIsPending(now.pending)
      /\ ReportedOnce(now.reports, now.pending, next)
      /\ Reported(now.reports) /\ ReportedTruly(now.reports, next, scriptPc)
  BY SettingIs DEF ScriptInv, NoteInv, Ongoing, RemoteInv, RemoteTypes
<1>2. CASE kind \notin Settled \/ mine = {}
  BY <1>2 DEF Noted, Settled
<1>3. CASE kind \in Settled /\ mine # {}
  <2>1. PICK p \in now.pending : p.id = id
    BY <1>3
  <2>2. /\ p \in [id : Nat, index : Nat] /\ id \in Ours /\ p.index = accepted[id].index
    BY <1>1, <2>1 DEF PendingOurs
  <2>3. \A q \in now.pending : q.id = id => q = p
    BY <1>1, <2>1, <2>2 DEF PendingOurs
  <2>4. mine = {p}
    BY <2>1, <2>3
  <2>5. p.index \in 1 .. Len(script) /\ p.index < next
    BY <1>1, <2>2 DEF OursOnce
  <2>6. new = [pending |-> now.pending \ {p},
               reports |-> [now.reports EXCEPT ![p.index] = Append(@, told)]]
    <3>1. (CHOOSE q \in mine : TRUE) = p
      BY <2>4
    <3> QED
      BY <1>3, <2>4, <3>1 DEF Noted, Settled
  <2>. HIDE DEF mine, new
  <2>7. \A q \in now.pending \ {p} : q.id # id /\ q.index # p.index
    BY <1>1, <2>2, <2>3 DEF PendingOurs, OursOnce
  <2>8. /\ id \in Nat /\ id # 0 /\ outcome[id] = kind
        /\ id \in 1 .. Len(accepted) /\ id \notin open
    <3>1. id \in 1 .. Len(accepted)
      BY <2>2 DEF Ours
    <3>2. outcome[id] = kind
      BY <1>3 DEF Truthful
    <3> QED
      BY <1>3, <3>1, <3>2 DEF RemoteInv, RemoteTypes, Settled
  <2>9. told \in Tolds /\ IsTrue(p.index, told)
    <3>1. told \in Tolds /\ told.reason = kind /\ told.id = id
      BY <1>3, <2>8 DEF Told, Tolds, Reasons
    <3>2. id \in IdsOf("script", p.index)
      BY <2>2, IdsOfIs
    <3> QED
      BY <1>3, <2>8, <3>1, <3>2, IsTrueIs
  <2>. HIDE DEF told, id, kind
  <2>10. now.reports[p.index] \in Seq(Tolds) /\ Len(now.reports[p.index]) = 0
    BY <1>1, <2>1, <2>5 DEF ReportedOnce, IsPending, Reported
  <2>11. /\ new.reports \in [1 .. Len(script) -> Seq(Tolds)]
         /\ Len(new.reports[p.index]) = 1 /\ new.reports[p.index][1] = told
         /\ \A index \in 1 .. Len(script) :
               index # p.index => new.reports[index] = now.reports[index]
    <3>1. /\ Append(now.reports[p.index], told) \in Seq(Tolds)
          /\ Len(Append(now.reports[p.index], told)) = 1
          /\ Append(now.reports[p.index], told)[1] = told
      BY <2>9, <2>10
    <3>. HIDE DEF told
    <3> QED
      BY <1>1, <2>5, <2>6, <3>1 DEF Reported
  <2>12. new.pending = now.pending \ {p} /\ new = [pending |-> new.pending, reports |-> new.reports]
    BY <2>6
  <2>13. PendingOurs(new.pending)
    BY <1>1, <2>12 DEF PendingOurs
  <2>14. OpenIsPending(new.pending)
    BY <1>1, <2>1, <2>8, <2>12 DEF OpenIsPending
  <2>15. ReportedOnce(new.reports, new.pending, next)
    <3>1. SUFFICES ASSUME NEW index \in 1 .. Len(script)
                   PROVE  Len(new.reports[index]) =
                             IF index < next /\ ~IsPending(new.pending, index) THEN 1 ELSE 0
      BY DEF ReportedOnce
    <3>2. CASE index = p.index
      BY <2>5, <2>7, <2>11, <2>12, <3>2 DEF IsPending
    <3>3. CASE index # p.index
      <4>1. IsPending(new.pending, index) <=> IsPending(now.pending, index)
        BY <2>12, <3>3 DEF IsPending
      <4> QED
        BY <1>1, <2>11, <3>3, <4>1 DEF ReportedOnce
    <3> QED
      BY <3>2, <3>3
  <2>16. ReportedTruly(new.reports, next, scriptPc)
    <3>1. SUFFICES ASSUME NEW index \in 1 .. Len(script), NEW i \in 1 .. Len(new.reports[index])
                   PROVE  /\ IsTrue(index, new.reports[index][i])
                          /\ new.reports[index][i].id = 0
                               /\ new.reports[index][i].reason \in {"rejected", "notSubmitted"} =>
                                index < next \/ scriptPc = "done"
      BY DEF ReportedTruly
    <3>2. CASE index = p.index
      <4>0. Len(new.reports[index]) = 1
        BY <2>11, <3>2
      <4>1. i = 1
        BY <4>0
      <4> QED
        BY <2>5, <2>9, <2>11, <3>2, <4>1
    <3>3. CASE index # p.index
      BY <1>1, <2>11, <3>3 DEF ReportedTruly
    <3> QED
      BY <3>2, <3>3
  <2>17. NoteInv(new)
    BY <2>11, <2>12, <2>13, <2>14, <2>15, <2>16 DEF NoteInv, Ongoing, Reported
  <2> QED
    BY <2>17 DEF new
<1> QED
  BY <1>2, <1>3

\* All the news.
LEMMA NotesKeep ==
    ASSUME RemoteInv, ScriptInv, NEW base, NoteInv(base), NEW n \in Nat, NEW seq,
           DOMAIN seq = 1 .. n,
           \A i \in 1 .. n : seq[i].what \in Whats /\ Truthful(seq[i].what)
    PROVE  NoteInv(NotedAll(base, seq))
<1>1. PICK h : NotedBy(base, seq, n, h)
  BY NotedFoldBy
<1>2. /\ h[0] = base
      /\ \A i \in 1 .. n : h[i] = Noted(h[i - 1], seq[i])
      /\ NotedAll(base, seq) = h[n]
  BY <1>1 DEF NotedBy
<1>. DEFINE Good == {i \in Nat : i <= n => NoteInv(h[i])}
<1>3. 0 \in Good
  BY <1>2
<1>4. ASSUME NEW i \in Nat, i \in Good PROVE i + 1 \in Good
  <2>1. SUFFICES ASSUME i + 1 <= n PROVE NoteInv(h[i + 1])
    OBVIOUS
  <2>2. NoteInv(h[i]) /\ i + 1 \in 1 .. n /\ (i + 1) - 1 = i
    BY <1>4, <2>1
  <2>3. h[i + 1] = Noted(h[i], seq[i + 1])
    BY <1>2, <2>2
  <2> QED
    BY <2>2, <2>3, NoteStep
<1>5. Nat \subseteq Good
  <2>. HIDE DEF Good
  <2> QED
    BY <1>3, <1>4, NatsIn
<1> QED
  BY <1>2, <1>5

-----------------------------------------------------------------------------
(* The script: how it ends *)

\* What was pending is unknown, what was not sent is not submitted, the rest is as it was.
LEMMA AbortedIs ==
    ASSUME NEW told, Reported(told), NEW open_ \in SUBSET [id : Nat, index : Nat],
           NEW from \in Nat, \A p \in open_ : p.index < from, ReportedOnce(told, open_, from),
           script \in Seq(Commands)
    PROVE  /\ Reported(Aborted(told, open_, from)) /\ AllReported(Aborted(told, open_, from))
           /\ \A index \in 1 .. Len(script) :
                 \/ 1 \in 1 .. Len(told[index])
                      /\ Aborted(told, open_, from)[index][1] = told[index][1]
                 \/ Aborted(told, open_, from)[index][1].reason = "unknown"
                 \/ /\ index >= from
                    /\ Aborted(told, open_, from)[index][1] = Told("notSubmitted", 0)
<1>. DEFINE all == Aborted(told, open_, from)
            lost(index) == Told("unknown", (CHOOSE p \in open_ : p.index = index).id)
<1>1. /\ told \in [1 .. Len(script) -> Seq(Tolds)] /\ DOMAIN told = 1 .. Len(script)
  BY DEF Reported
<1>2. all = [index \in 1 .. Len(script) |->
                told[index]
                  \o (IF IsPending(open_, index) THEN <<lost(index)>> ELSE << >>)
                  \o (IF index >= from THEN <<Told("notSubmitted", 0)>> ELSE << >>)]
  BY <1>1 DEF Aborted, IsPending
<1>3. Told("notSubmitted", 0) \in Tolds
  BY DEF Told, Tolds, Reasons
<1>4. ASSUME NEW index \in 1 .. Len(script)
      PROVE  /\ all[index] \in Seq(Tolds) /\ Len(all[index]) = 1
             /\ \/ 1 \in 1 .. Len(told[index]) /\ all[index][1] = told[index][1]
                \/ all[index][1].reason = "unknown"
                \/ index >= from /\ all[index][1] = Told("notSubmitted", 0)
  <2>1. /\ told[index] \in Seq(Tolds)
        /\ Len(told[index]) = IF index < from /\ ~IsPending(open_, index) THEN 1 ELSE 0
    BY <1>1 DEF ReportedOnce
  <2>2. CASE index >= from
    <3>1. ~IsPending(open_, index) /\ ~(index < from)
      BY <2>2 DEF IsPending
    <3>2. told[index] = << >>
      BY <2>1, <3>1
    <3>3. all[index] = << >> \o << >> \o <<Told("notSubmitted", 0)>>
      BY <1>2, <2>2, <3>1, <3>2
    <3>4. all[index] = <<Told("notSubmitted", 0)>>
      BY <1>3, <3>3
    <3> QED
      BY <1>3, <2>2, <3>4
  <2>3. CASE index < from /\ IsPending(open_, index)
    <3>1. told[index] = << >> /\ ~(index >= from)
      BY <2>1, <2>3
    <3>2. lost(index) \in Tolds /\ lost(index).reason = "unknown"
      BY <2>3 DEF IsPending, Told, Tolds, Reasons
    <3>. HIDE DEF lost
    <3>3. all[index] = << >> \o <<lost(index)>> \o << >>
      BY <1>2, <2>3, <3>1
    <3>4. all[index] = <<lost(index)>>
      BY <3>2, <3>3
    <3> QED
      BY <3>2, <3>4
  <2>4. CASE index < from /\ ~IsPending(open_, index)
    <3>1. ~(index >= from) /\ Len(told[index]) = 1
      BY <2>1, <2>4
    <3>2. all[index] = told[index] \o << >> \o << >>
      BY <1>2, <2>4, <3>1
    <3>3. all[index] = told[index]
      BY <2>1, <3>2
    <3> QED
      BY <2>1, <3>1, <3>3
  <2> QED
    BY <2>2, <2>3, <2>4
<1>5. DOMAIN all = 1 .. Len(script)
  BY <1>2
<1>6. all = [index \in 1 .. Len(script) |-> all[index]]
  BY <1>2
<1>. HIDE DEF all
<1>7. all \in [1 .. Len(script) -> Seq(Tolds)]
  BY <1>4, <1>5, <1>6
<1>8. Reported(all) /\ AllReported(all)
  BY <1>4, <1>7 DEF Reported, AllReported
<1> QED
  BY <1>4, <1>8 DEF all

\* Everything was reported once, and truly.
LEMMA DoneKeeps ==
    ASSUME script' = script, scriptPc' = "done", next' \in 1 .. Len(script) + 1,
           scriptCursor' \in 0 .. store'.position, OursOnce', BoundariesAlone',
           Reported(reports)', AllReported(reports)',
           verdict' = "passed" => AllCompleted(reports'),
           \A index \in 1 .. Len(script) : \A told \in Tolds :
              told = reports'[index][1] => IsTrue(index, told)'
    PROVE  ScriptInv'
<1>1. ReportedTruly(reports, next, scriptPc)'
  <2>1. SUFFICES ASSUME NEW index \in 1 .. Len(script), NEW i \in 1 .. Len(reports'[index])
                 PROVE  (/\ IsTrue(index, reports[index][i])
                         /\ reports[index][i].id = 0
                              /\ reports[index][i].reason \in {"rejected", "notSubmitted"} =>
                               index < next \/ scriptPc = "done")'
    BY DEF ReportedTruly
  <2>2. Len(reports'[index]) = 1 /\ reports'[index] \in Seq(Tolds)
    BY DEF Reported, AllReported
  <2>3. i = 1
    BY <2>2
  <2>4. reports'[index][1] \in Tolds
    BY <2>2
  <2>5. PICK told \in Tolds : told = reports'[index][1]
    BY <2>4
  <2>6. IsTrue(index, told)'
    BY <2>5
  <2>7. IsTrue(index, reports[index][i])'
    BY <2>3, <2>5, <2>6
  <2> QED
    BY <2>7
<1> QED
  BY <1>1 DEF ScriptInv

(***************************************************************************)
(* An abort, when the commands before from were sent, or were lost.        *)
(***************************************************************************)
LEMMA AbortKeeps ==
    ASSUME RemoteInv, RemoteInv', ScriptInv, Grows, OursOnce', BoundariesAlone',
           next' \in 1 .. Len(script) + 1, scriptCursor' \in 0 .. store'.position,
           NEW pend \in SUBSET [id : Nat, index : Nat], NEW reps, Reported(reps),
           NEW from \in Nat, from = next',
           \A p \in pend : p.index < from, ReportedOnce(reps, pend, from),
           \A index \in 1 .. Len(script) : \A told \in Tolds :
              1 \in 1 .. Len(reps[index]) /\ told = reps[index][1] => IsTrue(index, told)',
           Finish(Aborted(reps, pend, from))
    PROVE  ScriptInv'
<1>. DEFINE all == Aborted(reps, pend, from)
<1>1. /\ script \in Seq(Commands) /\ script' = script
      /\ \A id \in Ours' : accepted'[id].index < from
  <2>1. script \in Seq(Commands)
    BY SettingIs DEF RemoteInv, RemoteTypes
  <2> QED
    BY <2>1 DEF OursOnce, Grows, script
<1>2. /\ Reported(all) /\ AllReported(all)
      /\ \A index \in 1 .. Len(script) :
            \/ 1 \in 1 .. Len(reps[index]) /\ all[index][1] = reps[index][1]
            \/ all[index][1].reason = "unknown"
            \/ index >= from /\ all[index][1] = Told("notSubmitted", 0)
  BY <1>1, AbortedIs
<1>3. /\ scriptPc' = "done" /\ reports' = all
      /\ verdict' = "passed" => AllCompleted(all)
  BY DEF Finish
<1>. HIDE DEF all
<1>4. Reported(reports)' /\ AllReported(reports)'
  BY <1>1, <1>2, <1>3 DEF Reported, AllReported
<1>5. ASSUME NEW index \in 1 .. Len(script), NEW told \in Tolds, told = reports'[index][1]
      PROVE  IsTrue(index, told)'
  <2>0. (IsTrue(index, told) <=>
            \/ /\ told.reason \in Settled /\ told.id # 0
               /\ told.id \in IdsOf("script", index) /\ outcome[told.id] = told.reason
            \/ /\ told.reason \in {"rejected", "notSubmitted"} /\ told.id = 0
               /\ IdsOf("script", index) = {}
            \/ told.reason = "unknown")'
    BY DEF Tolds, Reasons, Settled, IsTrue
  <2>1. CASE 1 \in 1 .. Len(reps[index]) /\ told = reps[index][1]
    BY <2>1
  <2>2. CASE told.reason = "unknown"
    BY <2>0, <2>2
  <2>3. CASE index >= from /\ told = Told("notSubmitted", 0)
    <3>1. IdsOf("script", index)' = {}
      <4>1. \A id \in Ours' : accepted'[id].index # index
        <5>1. \A id \in Ours' : accepted'[id].index \in 1 .. Len(script)
          BY <1>1 DEF OursOnce
        <5> QED
          BY <1>1, <2>3, <5>1
      <4> QED
        BY <4>1 DEF IdsOf, Ours, RemoteInv, RemoteTypes
    <3> QED
      BY <2>0, <2>3, <3>1 DEF Told
  <2> QED
    BY <1>2, <1>3, <1>5, <2>1, <2>2, <2>3
<1> QED
  BY <1>1, <1>3, <1>4, <1>5, DoneKeeps

\* What holds while the script runs on, for everything that is pending or reported.
LEMMA OngoingIs ==
    ASSUME RemoteInv, ScriptInv, scriptPc # "done"
    PROVE  /\ NoteInv([pending |-> pending, reports |-> reports])
           /\ verdict = "none" /\ script \in Seq(Commands) /\ next \in Nat
BY SettingIs DEF ScriptInv, NoteInv, RemoteInv, RemoteTypes

LEMMA PendingWasSent ==
    ASSUME OursOnce, NEW pend, PendingOurs(pend)
    PROVE  \A p \in pend : p.index < next /\ p.index \in 1 .. Len(script)
BY DEF PendingOurs, OursOnce

\* An abort in a step that leaves the session alone.
LEMMA QuietAbortKeeps ==
    ASSUME RemoteInv, ScriptInv, UNCHANGED remoteVars, scriptPc # "done", next' = next,
           scriptCursor' \in 0 .. store.position,
           NEW now, NoteInv(now), Finish(Aborted(now.reports, now.pending, next))
    PROVE  ScriptInv'
<1>1. RemoteInv' /\ Grows /\ accepted' = accepted /\ store' = store
  BY RestKeeps DEF remoteVars
<1>2. Foreign({"script"})
  BY <1>1 DEF Foreign
<1>3. /\ script \in Seq(Commands) /\ next \in 1 .. Len(script) + 1 /\ next \in Nat
      /\ OursOnce /\ BoundariesAlone
  BY OngoingIs DEF ScriptInv
<1>4. OursOnce' /\ BoundariesAlone'
  BY <1>1, <1>2, <1>3, OnceStay, AloneStay
<1>5. /\ now.pending \in SUBSET [id : Nat, index : Nat] /\ PendingOurs(now.pending)
      /\ Reported(now.reports) /\ ReportedOnce(now.reports, now.pending, next)
      /\ ReportedTruly(now.reports, next, scriptPc)
  BY DEF NoteInv, Ongoing, PendingOurs
<1>6. \A p \in now.pending : p.index < next
  BY <1>3, <1>5, PendingWasSent
<1>7. ASSUME NEW index \in 1 .. Len(script), NEW told \in Tolds,
             1 \in 1 .. Len(now.reports[index]) /\ told = now.reports[index][1]
      PROVE  IsTrue(index, told)'
  <2>1. IsTrue(index, told)
    BY <1>5, <1>7 DEF ReportedTruly
  <2> QED
    BY <1>1, <1>2, <2>1, OursStay, StaysReported
<1>8. next' \in 1 .. Len(script) + 1 /\ scriptCursor' \in 0 .. store'.position
  BY <1>1, <1>3
<1> QED
  BY <1>1, <1>3, <1>4, <1>5, <1>6, <1>7, <1>8, AbortKeeps

\* A step of the script that does neither send nor end.
LEMMA RunsOn ==
    ASSUME RemoteInv, ScriptInv, UNCHANGED remoteVars, scriptPc # "done", next' \in Nat,
           next' \in next .. Len(script) + 1, scriptCursor' \in 0 .. store.position,
           scriptPc' \in {"bind", "loop", "poll"}, verdict' = verdict,
           Ongoing(pending', reports', next'), Reported(reports'),
           ReportedTruly(reports', next', scriptPc')
    PROVE  ScriptInv'
<1>1. RemoteInv' /\ Grows /\ accepted' = accepted /\ store' = store /\ setting' = setting
      /\ open' = open /\ outcome' = outcome
  BY RestKeeps DEF remoteVars
<1>2. Foreign({"script"})
  BY <1>1 DEF Foreign
<1>3. /\ script \in Seq(Commands) /\ next \in 1 .. Len(script) + 1 /\ next \in Nat
      /\ OursOnce /\ BoundariesAlone /\ verdict = "none"
  BY OngoingIs DEF ScriptInv
<1>4. OursOnce' /\ BoundariesAlone'
  BY <1>1, <1>2, <1>3, OnceStay, AloneStay
<1>5. script' = script
  BY <1>1 DEF script
<1>6. Ongoing(pending, reports, next)'
  BY <1>1, <1>5 DEF Ongoing, PendingOurs, OpenIsPending, ReportedOnce, IsPending, Ours
<1>7. Reported(reports)'
  BY <1>5 DEF Reported
<1>8. ReportedTruly(reports, next, scriptPc)'
  BY <1>1, <1>5 DEF ReportedTruly, IsTrue, IdsOf
<1> QED
  BY <1>1, <1>3, <1>4, <1>5, <1>6, <1>7, <1>8 DEF ScriptInv

\* The activity is read to its end: what the news say was noted.
LEMMA PollKeeps ==
    ASSUME RemoteInv, ScriptInv, PollNews
    PROVE  ScriptInv'
<1>. DEFINE news == News(store, scriptCursor)
            base == [pending |-> pending, reports |-> reports]
            now  == NotedAll(base, news)
            ends == \E i \in DOMAIN news : IsEnd(news[i].what)
<1>1. /\ scriptPc \in {"poll", "loop"} /\ ~IsGap(store, scriptCursor)
      /\ IF ends /\ now.pending # {}
         THEN Finish(Aborted(now.reports, now.pending, next))
         ELSE pending' = now.pending /\ reports' = now.reports /\ scriptPc' = "loop"
                /\ verdict' = verdict
      /\ scriptCursor' = store.position /\ next' = next /\ UNCHANGED remoteVars
  BY DEF PollNews, Polls, NotedAll
<1>2. scriptCursor \in Nat /\ scriptCursor <= store.position /\ store.position \in Nat
  BY DEF ScriptInv, RemoteInv, RemoteTypes, IsLog, LogOf
<1>3. /\ news \in Seq(Stored) /\ Len(news) \in Nat /\ DOMAIN news = 1 .. Len(news)
      /\ \A i \in 1 .. Len(news) : news[i].what \in Whats /\ Truthful(news[i].what)
  <2>1. /\ news \in Seq(Stored)
        /\ \A i \in 1 .. Len(news) : Truthful(news[i].what)
    BY <1>1, <1>2, NewsAreTrue
  <2>. HIDE DEF news
  <2>2. ASSUME NEW i \in 1 .. Len(news) PROVE news[i].what \in Whats
    <3>1. news[i] \in Stored
      BY <2>1
    <3> QED
      BY <3>1 DEF Stored
  <2> QED
    BY <2>1, <2>2
<1>. HIDE DEF news
<1>4. NoteInv(base) /\ scriptPc # "done" /\ next \in 1 .. Len(script) + 1 /\ next \in Nat
  BY <1>1, OngoingIs DEF ScriptInv
<1>. HIDE DEF base
<1>5. NoteInv(now)
  BY <1>3, <1>4, NotesKeep
<1>. HIDE DEF now, ends
<1>6. scriptCursor' \in 0 .. store.position
  BY <1>1, <1>2
<1>7. CASE ends /\ now.pending # {}
  BY <1>1, <1>4, <1>5, <1>6, <1>7, QuietAbortKeeps
<1>8. CASE ~(ends /\ now.pending # {})
  <2>1. /\ pending' = now.pending /\ reports' = now.reports /\ scriptPc' = "loop"
        /\ verdict' = verdict
    BY <1>1, <1>8
  <2>2. Ongoing(pending', reports', next') /\ Reported(reports')
    BY <1>1, <1>5, <2>1 DEF NoteInv
  <2>3. ReportedTruly(reports', next', scriptPc')
    BY <1>1, <1>4, <1>5, <2>1 DEF NoteInv, ReportedTruly
  <2>4. next' \in next .. Len(script) + 1 /\ next' \in Nat
    <3>1. Len(script) \in Nat
      BY <1>4, OngoingIs
    <3> QED
      BY <1>1, <1>4, <3>1
  <2> QED
    BY <1>1, <1>4, <1>6, <2>1, <2>2, <2>3, <2>4, RunsOn
<1> QED
  BY <1>7, <1>8

\* The steps that leave the session, what is pending and what was reported alone.
LEMMA IdleKeeps ==
    ASSUME RemoteInv, ScriptInv, UNCHANGED <<remoteVars, next, pending, reports, verdict>>,
           scriptPc # "done", scriptPc' \in {"bind", "loop", "poll"},
           scriptCursor' \in 0 .. store.position
    PROVE  ScriptInv'
<1>1. /\ NoteInv([pending |-> pending, reports |-> reports]) /\ script \in Seq(Commands)
      /\ next \in 1 .. Len(script) + 1 /\ next \in Nat
  BY OngoingIs DEF ScriptInv
<1>2. Ongoing(pending, reports, next) /\ Reported(reports) /\ ReportedTruly(reports, next, scriptPc')
  BY <1>1 DEF NoteInv, ReportedTruly
<1>3. Len(script) \in Nat
  BY <1>1
<1>4. next' \in next .. Len(script) + 1 /\ next' \in Nat
  BY <1>1, <1>3
<1> QED
  BY <1>2, <1>4, RunsOn

LEMMA BindKeeps ==
    ASSUME RemoteInv, ScriptInv, Bind
    PROVE  ScriptInv'
<1>1. scriptPc = "bind" /\ UNCHANGED <<next, pending, reports, remoteVars>>
      /\ store.position \in Nat
  BY DEF Bind, RemoteInv, RemoteTypes, IsLog, LogOf
<1>2. CASE scriptPc' = "loop" /\ scriptCursor' = store.position /\ verdict' = verdict
  <2>1. scriptCursor' \in 0 .. store.position
    BY <1>1, <1>2
  <2> QED
    BY <1>1, <1>2, <2>1, IdleKeeps
<1>3. CASE scriptPc' = "done" /\ verdict' = "client" /\ scriptCursor' = scriptCursor
  <2>1. RemoteInv' /\ Grows /\ accepted' = accepted /\ store' = store /\ setting' = setting
        /\ outcome' = outcome
    BY <1>1, RestKeeps DEF remoteVars
  <2>2. Foreign({"script"}) /\ script' = script
    BY <2>1 DEF Foreign, script
  <2>3. next \in 1 .. Len(script) + 1 /\ next \in Nat
    BY DEF ScriptInv
  <2>4. OursOnce' /\ BoundariesAlone'
    BY <1>1, <2>1, <2>2, <2>3, OnceStay, AloneStay DEF ScriptInv
  <2>5. Reported(reports)'
    BY <1>1, <2>2 DEF ScriptInv, Reported
  <2>6. ReportedTruly(reports, next, scriptPc)'
    <3>1. ReportedTruly(reports, next, scriptPc)
      BY DEF ScriptInv
    <3> QED
      BY <1>1, <1>3, <2>1, <2>2, <3>1 DEF ReportedTruly, IsTrue, IdsOf
  <2> QED
    BY <1>1, <1>3, <2>1, <2>2, <2>3, <2>4, <2>5, <2>6 DEF ScriptInv
<1> QED
  BY <1>2, <1>3 DEF Bind

LEMMA AbortsKeep ==
    ASSUME RemoteInv, ScriptInv, Cancelled \/ PollFails
    PROVE  ScriptInv'
<1>1. /\ Finish(Aborted(reports, pending, next)) /\ next' = next
      /\ scriptCursor' = scriptCursor /\ UNCHANGED remoteVars /\ scriptPc # "done"
  BY DEF Cancelled, PollFails, Abort, Polls
<1>. DEFINE now == [pending |-> pending, reports |-> reports]
<1>2. NoteInv(now) /\ scriptCursor' \in 0 .. store.position
  BY <1>1, OngoingIs DEF ScriptInv
<1>3. Finish(Aborted(now.reports, now.pending, next))
  BY <1>1
<1>. HIDE DEF now
<1> QED
  BY <1>1, <1>2, <1>3, QuietAbortKeeps

\* Everything was sent, and is settled.
LEMMA CompletesKeeps ==
    ASSUME RemoteInv, ScriptInv, Completes
    PROVE  ScriptInv'
<1>1. /\ scriptPc = "loop" /\ next > Len(script) /\ pending = {} /\ scriptPc' = "done"
      /\ reports' = reports /\ UNCHANGED <<next, scriptCursor, remoteVars>>
  BY DEF Completes, IsSent, Finish
<1>2. RemoteInv' /\ Grows /\ accepted' = accepted /\ store' = store /\ setting' = setting
      /\ outcome' = outcome
  BY <1>1, RestKeeps DEF remoteVars
<1>3. Foreign({"script"}) /\ script' = script
  BY <1>2 DEF Foreign, script
<1>4. /\ next \in 1 .. Len(script) + 1 /\ next \in Nat /\ OursOnce /\ BoundariesAlone
      /\ Reported(reports) /\ ReportedTruly(reports, next, scriptPc)
      /\ ReportedOnce(reports, pending, next) /\ scriptCursor \in 0 .. store.position
      /\ script \in Seq(Commands)
  BY <1>1, OngoingIs DEF ScriptInv, Ongoing
<1>5. OursOnce' /\ BoundariesAlone'
  BY <1>1, <1>2, <1>3, <1>4, OnceStay, AloneStay
<1>6. AllReported(reports)
  <2>1. ASSUME NEW index \in 1 .. Len(script) PROVE Len(reports[index]) = 1
    <3>1. index < next /\ ~IsPending(pending, index)
      BY <1>1, <1>4 DEF IsPending
    <3> QED
      BY <1>4, <3>1 DEF ReportedOnce
  <2> QED
    BY <2>1 DEF AllReported
<1>7. Reported(reports)' /\ AllReported(reports)'
  BY <1>1, <1>3, <1>4, <1>6 DEF Reported, AllReported
<1>8. ReportedTruly(reports, next, scriptPc)'
  BY <1>1, <1>2, <1>3, <1>4 DEF ReportedTruly, IsTrue, IdsOf
<1>9. verdict' = "passed" => AllCompleted(reports')
  BY <1>1 DEF Completes, Finish
<1> QED
  BY <1>1, <1>2, <1>3, <1>4, <1>5, <1>7, <1>8, <1>9 DEF ScriptInv

LEMMA RefusedKeeps ==
    ASSUME RemoteInv, ScriptInv, SubmitRefused
    PROVE  ScriptInv'
<1>1. /\ scriptPc = "loop" /\ ~(next > Len(script))
      /\ reports' = [reports EXCEPT ![next] = Append(@, Told("rejected", 0))]
      /\ next' = next + 1 /\ scriptPc' = "poll"
      /\ UNCHANGED <<pending, scriptCursor, verdict, remoteVars>>
  BY DEF SubmitRefused, Sends, IsSent, Refused
<1>2. /\ next \in 1 .. Len(script) /\ next \in Nat /\ OursOnce /\ Reported(reports)
      /\ ReportedTruly(reports, next, scriptPc) /\ PendingOurs(pending)
      /\ OpenIsPending(pending) /\ ReportedOnce(reports, pending, next)
      /\ scriptCursor \in 0 .. store.position /\ script \in Seq(Commands) /\ Len(script) \in Nat
  <2>1. script \in Seq(Commands) /\ next \in 1 .. Len(script) + 1
    BY <1>1, OngoingIs DEF ScriptInv
  <2> QED
    BY <1>1, <2>1 DEF ScriptInv, Ongoing
<1>3. \A p \in pending : p.index < next
  BY <1>2, PendingWasSent
<1>. DEFINE told == Told("rejected", 0)
<1>4. told \in Tolds /\ told.reason = "rejected" /\ told.id = 0
  BY DEF Told, Tolds, Reasons, Settled
<1>5. reports[next] \in Seq(Tolds) /\ Len(reports[next]) = 0
  BY <1>2 DEF Reported, ReportedOnce
<1>. HIDE DEF told
<1>6. /\ Append(reports[next], told) \in Seq(Tolds) /\ Len(Append(reports[next], told)) = 1
      /\ Append(reports[next], told)[1] = told
  BY <1>4, <1>5
<1>7. /\ reports' \in [1 .. Len(script) -> Seq(Tolds)]
      /\ Len(reports'[next]) = 1 /\ reports'[next][1] = told
      /\ \A index \in 1 .. Len(script) : index # next => reports'[index] = reports[index]
  BY <1>1, <1>2, <1>6 DEF Reported, told
<1>8. IsTrue(next, told)
  <2>1. IdsOf("script", next) = {}
    BY <1>2, IdsOfIs DEF OursOnce
  <2> QED
    BY <1>4, <2>1, IsTrueIs
<1>9. ReportedOnce(reports', pending', next')
  <2>1. SUFFICES ASSUME NEW index \in 1 .. Len(script)
                 PROVE  Len(reports'[index]) =
                           IF index < next + 1 /\ ~IsPending(pending, index) THEN 1 ELSE 0
    BY <1>1 DEF ReportedOnce
  <2>2. CASE index = next
    BY <1>2, <1>3, <1>7, <2>2 DEF IsPending
  <2>3. CASE index # next
    <3>1. index < next + 1 <=> index < next
      BY <1>2, <2>3
    <3> QED
      BY <1>2, <1>7, <2>3, <3>1 DEF ReportedOnce
  <2> QED
    BY <2>2, <2>3
<1>10. ReportedTruly(reports', next', scriptPc')
  <2>1. SUFFICES ASSUME NEW index \in 1 .. Len(script), NEW i \in 1 .. Len(reports'[index])
                 PROVE  /\ IsTrue(index, reports'[index][i])
                        /\ reports'[index][i].id = 0
                             /\ reports'[index][i].reason \in {"rejected", "notSubmitted"} =>
                              index < next + 1
    BY <1>1 DEF ReportedTruly
  <2>2. CASE index = next
    <3>1. Len(reports'[index]) = 1
      BY <1>7, <2>2
    <3>2. i = 1
      BY <3>1
    <3> QED
      BY <1>2, <1>7, <1>8, <2>2, <3>2
  <2>3. CASE index # next
    BY <1>1, <1>2, <1>7, <2>3 DEF ReportedTruly
  <2> QED
    BY <2>2, <2>3
<1>11. Ongoing(pending', reports', next') /\ Reported(reports')
  BY <1>1, <1>2, <1>7, <1>9 DEF Ongoing, Reported
<1>12. next' \in Nat /\ next' \in next .. Len(script) + 1 /\ scriptCursor' \in 0 .. store.position
  BY <1>1, <1>2
<1> QED
  BY <1>1, <1>10, <1>11, <1>12, RunsOn

-----------------------------------------------------------------------------
(* The script: what it sends *)

\* A command of the script is accepted.
LEMMA ScriptAccepts ==
    ASSUME RemoteInv, RemoteInv', Grows, ScriptInv, next \in 1 .. Len(script),
           AcceptedNow("script", next, script[next]), next' = next + 1
    PROVE  /\ Ours' = Ours \cup {Len(accepted) + 1} /\ Len(accepted) + 1 \notin Ours
           /\ \A id \in Ours : accepted'[id] = accepted[id]
           /\ OursOnce'
           /\ (script[next] \in Boundaries => Ours \cap open = {}) => BoundariesAlone'
           /\ \A index : index # next => IdsOf("script", index)' = IdsOf("script", index)
<1>. DEFINE id == Len(accepted) + 1
<1>1. /\ Len(accepted) \in Nat /\ Len(accepted') = id /\ id \in Nat
      /\ accepted'[id] = [client |-> "script", index |-> next, kind |-> script[next],
                          behind |-> open]
      /\ \A other \in 1 .. Len(accepted) : accepted'[other] = accepted[other]
      /\ \A other \in 1 .. Len(accepted) : accepted[other].behind \subseteq 1 .. other - 1
  BY DEF AcceptedNow, RemoteInv, RemoteTypes, Grows
<1>2. /\ OursOnce /\ BoundariesAlone /\ script \in Seq(Commands) /\ script' = script
      /\ open \subseteq 1 .. Len(accepted)
  BY SettingIs DEF ScriptInv, RemoteInv, RemoteTypes, Grows, script
<1>. HIDE DEF id
<1>3. id \notin 1 .. Len(accepted)
  BY <1>1 DEF id
<1>4. 1 .. Len(accepted') = (1 .. Len(accepted)) \cup {id}
  BY <1>1 DEF id
<1>5. Ours' = Ours \cup {id} /\ id \notin Ours
  BY <1>1, <1>3, <1>4 DEF Ours
<1>6. \A other \in Ours : other \in 1 .. Len(accepted) /\ accepted'[other] = accepted[other]
  BY <1>1 DEF Ours
<1>7. OursOnce'
  <2>1. \A other \in Ours : accepted[other].index \in Nat /\ accepted[other].index < next
    BY <1>2 DEF OursOnce
  <2>2. \A i \in Ours' : /\ accepted'[i].index \in 1 .. Len(script)
                         /\ accepted'[i].index < next + 1
                         /\ accepted'[i].kind = script[accepted'[i].index]
    BY <1>1, <1>2, <1>5, <1>6, <2>1 DEF OursOnce
  <2>3. ASSUME NEW i \in Ours', NEW j \in Ours', accepted'[i].index = accepted'[j].index
        PROVE  i = j
    <3>1. accepted'[id].index = next /\ next \in Nat
      BY <1>1
    <3>2. \A k \in Ours' : k = id \/ (k \in Ours /\ accepted'[k].index = accepted[k].index)
      BY <1>5, <1>6
    <3>3. \A k \in Ours : accepted[k].index \in Nat /\ accepted[k].index # next
      BY <2>1, <3>1
    <3>4. CASE i \in Ours /\ j \in Ours
      <4>1. accepted[i].index = accepted[j].index
        BY <1>6, <2>3, <3>4
      <4> QED
        BY <1>2, <3>4, <4>1 DEF OursOnce
    <3>5. CASE ~(i \in Ours /\ j \in Ours)
      <4>1. i = id \/ j = id
        BY <3>2, <3>5
      <4> QED
        BY <2>3, <3>1, <3>2, <3>3, <4>1
    <3> QED
      BY <3>4, <3>5
  <2> QED
    BY <1>2, <2>2, <2>3 DEF OursOnce
<1>8. ASSUME script[next] \in Boundaries => Ours \cap open = {}
      PROVE  BoundariesAlone'
  <2>1. SUFFICES ASSUME NEW i \in Ours', accepted'[i].kind \in Boundaries,
                        NEW other \in accepted'[i].behind
                 PROVE  other \notin Ours'
    BY DEF BoundariesAlone
  <2>2. CASE i = id
    BY <1>1, <1>2, <1>3, <1>5, <1>8, <2>1, <2>2
  <2>3. CASE i \in Ours
    <3>1. other \notin Ours
      BY <1>2, <1>6, <2>1, <2>3 DEF BoundariesAlone
    <3>2. other \in 1 .. Len(accepted)
      BY <1>1, <1>6, <2>1, <2>3
    <3> QED
      BY <1>3, <1>5, <3>1, <3>2
  <2> QED
    BY <1>5, <2>2, <2>3
<1>9. ASSUME NEW index, index # next
      PROVE  IdsOf("script", index)' = IdsOf("script", index)
  <2>1. (IdsOf("script", index) = {other \in Ours : accepted[other].index = index})'
    BY DEF IdsOf, Ours, RemoteInv, RemoteTypes
  <2>2. \A other : other \in Ours' /\ accepted'[other].index = index <=>
                      other \in Ours /\ accepted[other].index = index
    BY <1>1, <1>5, <1>6, <1>9
  <2> QED
    BY <2>1, <2>2, IdsOfIs
<1> QED
  BY <1>5, <1>6, <1>7, <1>8, <1>9 DEF id

LEMMA AcceptedKeeps ==
    ASSUME RemoteInv, ScriptInv, SubmitAccepted
    PROVE  ScriptInv'
<1>1. /\ scriptPc = "loop" /\ ~(next > Len(script)) /\ ~MustDrain
      /\ Accept("script", next, script[next])
      /\ pending' = pending \cup {[id |-> Len(accepted'), index |-> next]}
      /\ next' = next + 1 /\ scriptPc' = "poll"
      /\ UNCHANGED <<scriptCursor, reports, verdict>>
  BY DEF SubmitAccepted, Sends, IsSent, Submitted
<1>2. /\ next \in 1 .. Len(script) /\ next \in Nat /\ OursOnce /\ Reported(reports)
      /\ ReportedTruly(reports, next, scriptPc) /\ PendingOurs(pending)
      /\ OpenIsPending(pending) /\ ReportedOnce(reports, pending, next)
      /\ scriptCursor \in 0 .. store.position /\ script \in Seq(Commands)
      /\ Len(script) \in Nat /\ verdict = "none"
  <2>1. script \in Seq(Commands) /\ next \in 1 .. Len(script) + 1
    BY <1>1, OngoingIs DEF ScriptInv
  <2> QED
    BY <1>1, <2>1 DEF ScriptInv, Ongoing
<1>3. RemoteInv' /\ Grows /\ AcceptedNow("script", next, script[next])
  <2>1. script[next] \in Commands \cup {"pending"}
    BY <1>2
  <2> QED
    BY <1>1, <1>2, <2>1, AcceptKeeps
<1>4. script[next] \in Boundaries => Ours \cap open = {}
  <2>1. SUFFICES ASSUME script[next] \in Boundaries, NEW id \in Ours \cap open PROVE FALSE
    OBVIOUS
  <2>2. pending # {}
    BY <1>2, <2>1 DEF OpenIsPending
  <2> QED
    BY <1>1, <2>1, <2>2 DEF MustDrain, IsSent
<1>. DEFINE id == Len(accepted) + 1
            p == [id |-> id, index |-> next]
<1>5. /\ Ours' = Ours \cup {id} /\ id \notin Ours
      /\ \A other \in Ours : accepted'[other] = accepted[other]
      /\ OursOnce' /\ BoundariesAlone'
      /\ \A index : index # next => IdsOf("script", index)' = IdsOf("script", index)
  BY <1>1, <1>2, <1>3, <1>4, ScriptAccepts
<1>6. /\ Len(accepted') = id /\ id \in Nat /\ accepted'[id].index = next
      /\ open' = open \cup {id} /\ Len(accepted) \in Nat
  BY <1>3 DEF AcceptedNow, RemoteInv, RemoteTypes
<1>. HIDE DEF id
<1>7. pending' = pending \cup {p} /\ p \in [id : Nat, index : Nat] /\ p.id = id /\ p.index = next
  BY <1>1, <1>2, <1>6
<1>. HIDE DEF p
<1>8. script' = script /\ store'.position \in Nat /\ store.position <= store'.position
      /\ store.position \in Nat
  BY <1>3 DEF Grows, script
<1>9. PendingOurs(pending)'
  BY <1>2, <1>5, <1>6, <1>7 DEF PendingOurs
<1>10. OpenIsPending(pending)'
  <2>1. SUFFICES ASSUME NEW i \in Ours', i \in open'
                 PROVE  [id |-> i, index |-> accepted'[i].index] \in pending'
    BY DEF OpenIsPending
  <2>2. CASE i = id
    BY <1>6, <1>7, <2>2 DEF p
  <2>3. CASE i # id
    BY <1>2, <1>5, <1>6, <1>7, <2>1, <2>3 DEF OpenIsPending
  <2> QED
    BY <2>2, <2>3
<1>11. ReportedOnce(reports, pending, next)'
  <2>1. SUFFICES ASSUME NEW index \in 1 .. Len(script)
                 PROVE  Len(reports[index]) =
                           IF index < next + 1 /\ ~IsPending(pending', index) THEN 1 ELSE 0
    BY <1>1, <1>8 DEF ReportedOnce
  <2>2. IsPending(pending', index) <=> IsPending(pending, index) \/ index = next
    BY <1>7 DEF IsPending
  <2>3. CASE index = next
    <3>1. ~(index < next)
      BY <1>2, <2>3
    <3> QED
      BY <1>2, <2>2, <2>3, <3>1 DEF ReportedOnce
  <2>4. CASE index # next
    <3>1. index < next + 1 <=> index < next
      BY <1>2, <2>4
    <3> QED
      BY <1>2, <2>2, <2>4, <3>1 DEF ReportedOnce
  <2> QED
    BY <2>3, <2>4
<1>12. ReportedTruly(reports, next, scriptPc)'
  <2>1. SUFFICES ASSUME NEW index \in 1 .. Len(script), NEW i \in 1 .. Len(reports[index]),
                        NEW told \in Tolds, told = reports[index][i]
                 PROVE  /\ IsTrue(index, told)'
                        /\ told.id = 0 /\ told.reason \in {"rejected", "notSubmitted"} =>
                              index < next + 1
    <3>1. \A index \in 1 .. Len(script) : \A i \in 1 .. Len(reports[index]) :
             reports[index][i] \in Tolds
      BY <1>2 DEF Reported
    <3> QED
      BY <1>1, <1>8, <3>1 DEF ReportedTruly
  <2>2. /\ IsTrue(index, told)
        /\ told.id = 0 /\ told.reason \in {"rejected", "notSubmitted"} => index < next
    BY <1>1, <1>2, <2>1 DEF ReportedTruly
  <2>3. index # next
    <3>1. Len(reports[index]) # 0
      BY <1>2, <2>1 DEF Reported
    <3>2. index < next
      BY <1>2, <3>1 DEF ReportedOnce
    <3> QED
      BY <1>2, <3>2
  <2>4. IsTrue(index, told)'
    BY <1>3, <1>5, <2>2, <2>3, StaysReported
  <2>5. index \in Nat
    OBVIOUS
  <2> QED
    BY <1>2, <2>2, <2>4, <2>5
<1>13. Ongoing(pending, reports, next)' /\ Reported(reports)'
  BY <1>1, <1>2, <1>8, <1>9, <1>10, <1>11 DEF Ongoing, Reported
<1>14. /\ next' \in 1 .. Len(script) + 1 /\ scriptCursor' \in 0 .. store'.position
  BY <1>1, <1>2, <1>8
<1> QED
  BY <1>1, <1>2, <1>5, <1>8, <1>12, <1>13, <1>14 DEF ScriptInv

\* Nothing is known of the command, and the script gives up.
LEMMA LostKeeps ==
    ASSUME RemoteInv, ScriptInv, SubmitLost
    PROVE  ScriptInv'
<1>. DEFINE unknown == Told(LostReason, 0)
            reps == [reports EXCEPT ![next] = Append(@, unknown)]
            from == next + 1
<1>1. /\ scriptPc = "loop" /\ ~(next > Len(script)) /\ ~MustDrain
      /\ Accept("script", next, script[next]) \/ UNCHANGED remoteVars
      /\ Finish(Aborted(reps, pending, from)) /\ next' = from /\ scriptCursor' = scriptCursor
  BY DEF SubmitLost, Sends, IsSent, LostSubmission
<1>2. /\ next \in 1 .. Len(script) /\ next \in Nat /\ OursOnce /\ Reported(reports)
      /\ ReportedTruly(reports, next, scriptPc) /\ PendingOurs(pending)
      /\ OpenIsPending(pending) /\ ReportedOnce(reports, pending, next)
      /\ scriptCursor \in 0 .. store.position /\ script \in Seq(Commands)
      /\ Len(script) \in Nat /\ BoundariesAlone
  <2>1. script \in Seq(Commands) /\ next \in 1 .. Len(script) + 1
    BY <1>1, OngoingIs DEF ScriptInv
  <2> QED
    BY <1>1, <2>1 DEF ScriptInv, Ongoing
<1>3. script[next] \in Boundaries => Ours \cap open = {}
  <2>1. SUFFICES ASSUME script[next] \in Boundaries, NEW id \in Ours \cap open PROVE FALSE
    OBVIOUS
  <2>2. pending # {}
    BY <1>2, <2>1 DEF OpenIsPending
  <2> QED
    BY <1>1, <2>1, <2>2 DEF MustDrain, IsSent
<1>4. /\ RemoteInv' /\ Grows /\ OursOnce' /\ BoundariesAlone'
      /\ \A index : index # next => IdsOf("script", index)' = IdsOf("script", index)
  <2>1. CASE Accept("script", next, script[next])
    <3>1. RemoteInv' /\ Grows /\ AcceptedNow("script", next, script[next])
      <4>1. script[next] \in Commands \cup {"pending"}
        BY <1>2
      <4> QED
        BY <1>2, <2>1, <4>1, AcceptKeeps
    <3> QED
      BY <1>1, <1>2, <1>3, <3>1, ScriptAccepts
  <2>2. CASE UNCHANGED remoteVars
    <3>1. RemoteInv' /\ Grows /\ Foreign({"script"})
      BY <2>2, RestKeeps DEF Foreign
    <3>2. next' \in Nat /\ next <= next'
      BY <1>1, <1>2
    <3> QED
      BY <1>2, <3>1, <3>2, OnceStay, AloneStay, OursStay
  <2> QED
    BY <1>1, <2>1, <2>2
<1>5. unknown \in Tolds /\ unknown.reason = "unknown"
  BY DEF Told, LostReason, Tolds, Reasons
<1>6. reports[next] \in Seq(Tolds) /\ Len(reports[next]) = 0
  BY <1>2 DEF Reported, ReportedOnce
<1>. HIDE DEF unknown
<1>7. /\ Append(reports[next], unknown) \in Seq(Tolds)
      /\ Len(Append(reports[next], unknown)) = 1
      /\ Append(reports[next], unknown)[1] = unknown
  BY <1>5, <1>6
<1>8. /\ reps \in [1 .. Len(script) -> Seq(Tolds)]
      /\ Len(reps[next]) = 1 /\ reps[next][1] = unknown
      /\ \A index \in 1 .. Len(script) : index # next => reps[index] = reports[index]
  BY <1>2, <1>7 DEF Reported
<1>. HIDE DEF reps
<1>9. \A p \in pending : p.index < next
  BY <1>2, PendingWasSent
<1>10. ReportedOnce(reps, pending, from)
  <2>1. SUFFICES ASSUME NEW index \in 1 .. Len(script)
                 PROVE  Len(reps[index]) =
                           IF index < from /\ ~IsPending(pending, index) THEN 1 ELSE 0
    BY DEF ReportedOnce
  <2>2. CASE index = next
    BY <1>2, <1>8, <1>9, <2>2 DEF IsPending
  <2>3. CASE index # next
    <3>1. index < from <=> index < next
      BY <1>2, <2>3
    <3> QED
      BY <1>2, <1>8, <2>3, <3>1 DEF ReportedOnce
  <2> QED
    BY <2>2, <2>3
<1>11. ASSUME NEW index \in 1 .. Len(script), NEW told \in Tolds,
              1 \in 1 .. Len(reps[index]), told = reps[index][1]
       PROVE  IsTrue(index, told)'
  <2>1. CASE index = next
    <3>1. told.reason = "unknown"
      BY <1>5, <1>8, <1>11, <2>1
    <3> QED
      BY <3>1 DEF IsTrue
  <2>2. CASE index # next
    <3>1. told = reports[index][1] /\ 1 \in 1 .. Len(reports[index])
      BY <1>8, <1>11, <2>2
    <3>2. IsTrue(index, told)
      BY <1>2, <3>1 DEF ReportedTruly
    <3> QED
      BY <1>4, <2>2, <3>2, StaysReported
  <2> QED
    BY <2>1, <2>2
<1>12. /\ next' \in 1 .. Len(script) + 1 /\ scriptCursor' \in 0 .. store'.position
       /\ from \in Nat /\ \A p \in pending : p.index < from
  <2>1. store'.position \in Nat /\ store.position <= store'.position /\ store.position \in Nat
    BY <1>4 DEF Grows
  <2>2. \A p \in pending : p.index \in Nat
    BY <1>2 DEF PendingOurs
  <2> QED
    BY <1>1, <1>2, <1>9, <2>1, <2>2
<1>13. pending \in SUBSET [id : Nat, index : Nat] /\ Reported(reps)
  BY <1>2, <1>8 DEF PendingOurs, Reported
<1>. HIDE DEF from
<1> QED
  BY <1>1, <1>4, <1>10, <1>11, <1>12, <1>13, AbortKeeps

-----------------------------------------------------------------------------
(* The script: all its steps, and those of the others *)

LEMMA ScriptKeeps ==
    ASSUME RemoteInv, ScriptInv, ScriptStep
    PROVE  ScriptInv'
<1>1. CASE Press \/ CloseSocket
  <2>1. /\ scriptPc # "done" /\ scriptCursor' = scriptCursor /\ scriptPc' = scriptPc
        /\ UNCHANGED <<remoteVars, next, pending, reports, verdict>>
    BY <1>1 DEF Press, CloseSocket
  <2> QED
    BY <2>1, IdleKeeps DEF ScriptInv
<1> QED
  BY <1>1, BindKeeps, AbortsKeep, AcceptedKeeps, RefusedKeeps, LostKeeps, PollKeeps,
     CompletesKeeps DEF ScriptStep

LEMMA ScriptRests ==
    ASSUME RemoteInv, RemoteInv', Grows, Foreign({"script"}), ScriptInv, UNCHANGED scriptVars
    PROVE  ScriptInv'
<1>1. /\ UNCHANGED <<scriptPc, next, pending, scriptCursor, reports, verdict>>
      /\ script' = script /\ store'.position \in Nat /\ store.position <= store'.position
      /\ store.position \in Nat
  BY DEF scriptVars, Grows, script
<1>2. /\ next \in 1 .. Len(script) + 1 /\ next \in Nat /\ OursOnce /\ BoundariesAlone
      /\ scriptCursor \in 0 .. store.position /\ Reported(reports)
      /\ ReportedTruly(reports, next, scriptPc)
  BY DEF ScriptInv
<1>3. OursOnce' /\ BoundariesAlone' /\ scriptCursor' \in 0 .. store'.position
  BY <1>1, <1>2, OnceStay, AloneStay
<1>4. ReportedTruly(reports, next, scriptPc)'
  <2>1. SUFFICES ASSUME NEW index \in 1 .. Len(script), NEW i \in 1 .. Len(reports[index]),
                        NEW told \in Tolds, told = reports[index][i]
                 PROVE  IsTrue(index, told)'
    <3>1. \A index \in 1 .. Len(script) : \A i \in 1 .. Len(reports[index]) :
             reports[index][i] \in Tolds
      BY <1>2 DEF Reported
    <3> QED
      BY <1>1, <1>2, <3>1 DEF ReportedTruly
  <2>2. IsTrue(index, told)
    BY <1>2, <2>1 DEF ReportedTruly
  <2> QED
    BY <2>2, OursStay, StaysReported
<1>5. scriptPc # "done" => Ongoing(pending, reports, next)'
  <2>1. SUFFICES ASSUME scriptPc # "done" PROVE Ongoing(pending, reports, next)'
    OBVIOUS
  <2>2. PendingOurs(pending) /\ OpenIsPending(pending) /\ ReportedOnce(reports, pending, next)
    BY <2>1 DEF ScriptInv, Ongoing
  <2>3. /\ Ours' = Ours /\ Ours \subseteq 1 .. Len(accepted)
        /\ \A id \in Ours : accepted'[id] = accepted[id]
    BY OursStay
  <2>4. \A id \in Ours : id \in open' => id \in open
    BY <2>3 DEF Grows
  <2>5. PendingOurs(pending)'
    BY <1>1, <2>2, <2>3 DEF PendingOurs
  <2>6. OpenIsPending(pending)'
    BY <1>1, <2>2, <2>3, <2>4 DEF OpenIsPending
  <2>7. ReportedOnce(reports, pending, next)'
    BY <1>1, <2>2 DEF ReportedOnce, IsPending
  <2> QED
    BY <2>5, <2>6, <2>7 DEF Ongoing
<1> QED
  BY <1>1, <1>2, <1>3, <1>4, <1>5 DEF ScriptInv, Reported, AllReported

LEMMA ScriptStarts ==
    ASSUME RemoteInit, ScriptInit
    PROVE  ScriptInv
<1>1. /\ accepted = << >> /\ script \in Seq(Commands) /\ store.position = 0
  BY SettingIs DEF RemoteInit, NewStore
<1>2. Ours = {} /\ \A index : IdsOf("script", index) = {}
  BY <1>1 DEF Ours, IdsOf
<1>3. /\ reports = [index \in 1 .. Len(script) |-> << >>] /\ next = 1 /\ pending = {}
      /\ scriptCursor = 0
      /\ scriptPc = (IF script = << >> THEN "done" ELSE "bind")
      /\ verdict = (IF script = << >> THEN "passed" ELSE "none")
  BY <1>1 DEF ScriptInit
<1>4. Reported(reports) /\ ReportedTruly(reports, next, scriptPc)
  BY <1>3 DEF Reported, ReportedTruly
<1>5. OursOnce /\ BoundariesAlone
  BY <1>2 DEF OursOnce, BoundariesAlone
<1>6. Ongoing(pending, reports, next)
  BY <1>2, <1>3 DEF Ongoing, PendingOurs, OpenIsPending, ReportedOnce, IsPending
<1>7. verdict \in {"passed", "failed"} => AllReported(reports)
  BY <1>3 DEF AllReported
<1>8. next \in 1 .. Len(script) + 1 /\ scriptCursor \in 0 .. store.position
  BY <1>1, <1>3
<1>9. AllCompleted(reports)
  BY <1>3 DEF AllCompleted
<1> QED
  BY <1>3, <1>4, <1>5, <1>6, <1>7, <1>8, <1>9 DEF ScriptInv

\* A set of at most one member.
LEMMA AtMostOne ==
    ASSUME NEW S, \A x, y \in S : x = y
    PROVE  Cardinality(S) <= 1
<1>1. CASE S = {}
  BY <1>1, FS_EmptySet
<1>2. CASE S # {}
  <2>1. PICK x \in S : TRUE
    BY <1>2
  <2>2. S = {x}
    BY <2>1
  <2>3. Cardinality({x}) = 1
    BY FS_Singleton
  <2> QED
    BY <2>2, <2>3
<1> QED
  BY <1>1, <1>2

LEMMA TruthOfScript ==
    ASSUME RemoteInv, ScriptInv
    PROVE  ScriptIsTruthful
<1>1. /\ script \in Seq(Commands) /\ DOMAIN script = 1 .. Len(script)
      /\ accepted \in Seq(Acceptances) /\ DOMAIN accepted = 1 .. Len(accepted)
  BY SettingIs DEF RemoteInv, RemoteTypes
<1>2. OursOnce /\ BoundariesAlone /\ Reported(reports) /\ ReportedTruly(reports, next, scriptPc)
      /\ (verdict \in {"passed", "failed"} => AllReported(reports))
      /\ (verdict = "passed" => AllCompleted(reports))
  BY DEF ScriptInv
<1>3. ASSUME NEW index \in DOMAIN script
      PROVE  /\ Cardinality(IdsOf("script", index)) <= 1
             /\ \A i \in DOMAIN reports[index] : IsTrue(index, reports[index][i])
             /\ verdict \in {"passed", "failed"} => Len(reports[index]) = 1
             /\ verdict = "passed" =>
                   \E id \in IdsOf("script", index) : outcome[id] = "completed"
  <2>1. \A id, other \in IdsOf("script", index) : id = other
    BY <1>2, IdsOfIs DEF OursOnce
  <2>2. reports[index] \in Seq(Tolds)
    BY <1>1, <1>2 DEF Reported
  <2>3. DOMAIN reports[index] = 1 .. Len(reports[index])
    BY <2>2
  <2>4. ASSUME verdict = "passed"
        PROVE  \E id \in IdsOf("script", index) : outcome[id] = "completed"
    <3>1. index \in 1 .. Len(script) /\ DOMAIN reports = 1 .. Len(script)
      BY <1>1, <1>2 DEF Reported
    <3>2. Len(reports[index]) = 1
      BY <1>2, <2>4, <3>1 DEF AllReported
    <3>3. 1 \in 1 .. Len(reports[index]) /\ 1 \in DOMAIN reports[index]
      BY <2>3, <3>2
    <3>4. reports[index][1].reason = "completed"
      BY <1>2, <2>4, <3>1, <3>3 DEF AllCompleted
    <3>5. IsTrue(index, reports[index][1])
      BY <1>2, <3>1, <3>3 DEF ReportedTruly
    <3> QED
      BY <3>4, <3>5 DEF IsTrue
  <2> QED
    BY <1>1, <1>2, <2>1, <2>3, <2>4, AtMostOne DEF ReportedTruly, AllReported
<1>4. ASSUME NEW id \in DOMAIN accepted, accepted[id].client = "script",
             accepted[id].kind \in Boundaries, NEW other \in accepted[id].behind
      PROVE  accepted[other].client # "script"
  <2>1. id \in Ours /\ other \in 1 .. Len(accepted)
    <3>1. accepted[id].behind \subseteq 1 .. id - 1
      BY <1>1 DEF RemoteInv
    <3> QED
      BY <1>1, <1>4, <3>1 DEF Ours
  <2> QED
    BY <1>2, <1>4, <2>1 DEF BoundariesAlone, Ours
<1> QED
  BY <1>3, <1>4 DEF ScriptIsTruthful

-----------------------------------------------------------------------------
(* The REPL: its queue *)

\* What waits is in the queue or in hand.
LEMMA RangeIs ==
    ASSUME NEW T, NEW seq \in Seq(T)
    PROVE  \A x : x \in Range(seq) <=> \E i \in 1 .. Len(seq) : seq[i] = x
BY DEF Range

\* Nothing happens to an input, or a word is said of it as it leaves the queue.
Unchanged(index) ==
    /\ said'[index] = said[index]
    /\ index <= entered' /\ ~Waits(index)' <=> index <= entered /\ ~Waits(index)

Newly(index, word) ==
    said[index] = << >> /\ said'[index] = <<word>> /\ index <= entered' /\ ~Waits(index)'

LEMMA RunsStay ==
    ASSUME RemoteInv, RemoteInv', Grows, Foreign({"repl"})
    PROVE  /\ OurRuns' = OurRuns /\ OurRuns \subseteq 1 .. Len(accepted)
           /\ \A id \in OurRuns : accepted'[id] = accepted[id]
<1>1. Len(accepted) \in Nat
  BY DEF RemoteInv, RemoteTypes
<1>2. OurRuns' = OurRuns
  BY <1>1 DEF OurRuns, Grows, Foreign
<1>3. \A id \in OurRuns : id \in 1 .. Len(accepted) /\ accepted'[id] = accepted[id]
  BY DEF OurRuns, Grows
<1> QED
  BY <1>2, <1>3

LEMMA OnceSaid ==
    ASSUME ReplInv, typed' = typed, typed \in Seq(Commands \cup {"pending"}), QueueTypes',
           \A index \in 1 .. Len(typed) : Unchanged(index) \/ \E word \in Words : Newly(index, word)
    PROVE  SaidOnce'
<1>1. SUFFICES ASSUME NEW index \in 1 .. Len(typed)
               PROVE  Len(said'[index]) = IF index <= entered' /\ ~Waits(index)' THEN 1 ELSE 0
  BY DEF SaidOnce
<1>2. Len(said[index]) = IF index <= entered /\ ~Waits(index) THEN 1 ELSE 0
  BY DEF ReplInv, SaidOnce
<1>3. CASE Unchanged(index)
  BY <1>2, <1>3 DEF Unchanged
<1>4. ASSUME NEW word \in Words, Newly(index, word)
      PROVE  Len(said'[index]) = 1 /\ index <= entered' /\ ~Waits(index)'
  BY <1>4 DEF Newly
<1> QED
  BY <1>3, <1>4

LEMMA OneIsSome == ASSUME NEW seq, Len(seq) = 1 PROVE seq # << >>
OBVIOUS

\* What ran before has been spoken of, and nothing is added to that.
LEMMA RanBefore ==
    ASSUME ReplInv, typed \in Seq(Commands \cup {"pending"}), NEW id \in OurRuns,
           NEW at, at = accepted[id].index,
           \A index \in 1 .. Len(typed) : Unchanged(index) \/ \E word \in Words : Newly(index, word)
    PROVE  /\ at \in 1 .. Len(typed) /\ at <= entered' /\ ~Waits(at)'
           /\ ~Waits(at) /\ said'[at] = said[at] /\ accepted[id].kind = typed[at]
           /\ said[at][1] \in {"pending", "unknown"} /\ at \in 1 .. entered
<1>1. /\ at \in 1 .. entered /\ ~Waits(at) /\ said[at][1] \in {"pending", "unknown"}
      /\ accepted[id].kind = typed[at]
  BY DEF ReplInv, SaidTruly
<1>2. at \in 1 .. Len(typed) /\ at <= entered
  BY <1>1 DEF ReplInv, QueueTypes
<1>3. Len(said[at]) = 1
  BY <1>1, <1>2 DEF ReplInv, SaidOnce
<1>4. said[at] # << >>
  BY <1>3, OneIsSome
<1>5. Unchanged(at)
  BY <1>2, <1>4 DEF Newly
<1> QED
  BY <1>1, <1>2, <1>5 DEF Unchanged

\* No run is new.
LEMMA QueueKeeps ==
    ASSUME RemoteInv, RemoteInv', Grows, Foreign({"repl"}), ReplInv, QueueTypes',
           \A index \in 1 .. Len(typed) :
              Unchanged(index) \/ \E word \in Words \ {"pending"} : Newly(index, word)
    PROVE  SaidOnce' /\ SaidTruly'
<1>1. /\ typed \in Seq(Commands \cup {"pending"}) /\ typed' = typed
      /\ entered' \in 0 .. Len(typed)
  BY SettingIs DEF RemoteInv, RemoteTypes, Grows, typed, QueueTypes
<1>2. \A index \in 1 .. Len(typed) : Unchanged(index) \/ \E word \in Words : Newly(index, word)
  OBVIOUS
<1>3. SaidOnce'
  BY <1>1, <1>2, OnceSaid
<1>4. OurRuns' = OurRuns /\ \A id \in OurRuns : accepted'[id] = accepted[id]
  BY RunsStay
<1>5. ASSUME NEW id \in OurRuns'
      PROVE  /\ accepted'[id].index \in 1 .. entered' /\ ~Waits(accepted[id].index)'
             /\ said'[accepted'[id].index][1] \in {"pending", "unknown"}
             /\ accepted'[id].kind = typed'[accepted'[id].index]
  <2>1. /\ id \in OurRuns /\ accepted'[id] = accepted[id]
    BY <1>4
  <2>0. PICK index : index = accepted[id].index
    OBVIOUS
  <2>2. /\ index \in 1 .. Len(typed) /\ index <= entered' /\ ~Waits(index)'
        /\ ~Waits(index) /\ said'[index] = said[index] /\ accepted[id].kind = typed[index]
        /\ said[index][1] \in {"pending", "unknown"}
    BY <1>1, <1>2, <2>0, <2>1, RanBefore
  <2>3. index \in 1 .. entered'
    BY <1>1, <2>2
  <2>4. accepted'[id].index = index /\ accepted'[id].kind = typed'[index]
    BY <1>1, <2>0, <2>1, <2>2
  <2> QED
    BY <2>2, <2>3, <2>4 DEF Waits
<1>6. ASSUME NEW id \in OurRuns', NEW other \in OurRuns', accepted'[id].index = accepted'[other].index
      PROVE  id = other
  BY <1>4, <1>6 DEF ReplInv, SaidTruly
<1>7. ASSUME NEW index \in 1 .. Len(typed), NEW i \in 1 .. Len(said'[index]),
             said'[index][i] = "pending"
      PROVE  \E id \in OurRuns' : accepted'[id].index = index
  <2>1. ASSUME NEW word \in Words \ {"pending"}, Newly(index, word) PROVE FALSE
    <3>1. said'[index] = <<word>>
      BY <2>1 DEF Newly
    <3>2. Len(said'[index]) = 1
      BY <3>1
    <3>3. i = 1
      BY <3>2
    <3> QED
      BY <1>7, <3>1, <3>3
  <2>2. said'[index] = said[index]
    BY <2>1 DEF Unchanged
  <2>3. \E id \in OurRuns : accepted[id].index = index
    BY <1>7, <2>2 DEF ReplInv, SaidTruly
  <2> QED
    BY <1>4, <2>3
<1> QED
  BY <1>1, <1>3, <1>5, <1>6, <1>7 DEF SaidTruly

\* The input in hand runs.
LEMMA RunKeeps ==
    ASSUME RemoteInv, RemoteInv', Grows, ReplInv, QueueTypes',
           NEW taken \in 1 .. entered, taken = hand, AcceptedNow("repl", taken, typed[taken]),
           NEW spoken \in {"pending", "unknown"}, Newly(taken, spoken),
           \A index \in 1 .. Len(typed) : index # taken =>
              Unchanged(index) \/ \E word \in Words \ {"pending"} : Newly(index, word)
    PROVE  SaidOnce' /\ SaidTruly' /\ OurRuns' = OurRuns \cup {Len(accepted) + 1}
<1>. DEFINE new == Len(accepted) + 1
<1>1. /\ typed \in Seq(Commands \cup {"pending"}) /\ typed' = typed
      /\ entered' \in 0 .. Len(typed) /\ entered \in 0 .. Len(typed)
  BY SettingIs DEF RemoteInv, RemoteTypes, Grows, typed, QueueTypes, ReplInv
<1>2. \A index \in 1 .. Len(typed) : Unchanged(index) \/ \E word \in Words : Newly(index, word)
  BY DEF Words
<1>3. SaidOnce'
  BY <1>1, <1>2, OnceSaid
<1>4. /\ Len(accepted) \in Nat /\ Len(accepted') = new /\ new \in Nat
      /\ accepted'[new] = [client |-> "repl", index |-> taken, kind |-> typed[taken],
                           behind |-> open]
      /\ \A id \in 1 .. Len(accepted) : accepted'[id] = accepted[id]
  BY DEF AcceptedNow, RemoteInv, RemoteTypes, Grows
<1>5. new \notin 1 .. Len(accepted) /\ 1 .. Len(accepted') = (1 .. Len(accepted)) \cup {new}
  BY <1>4
<1>. HIDE DEF new
<1>6. /\ OurRuns' = OurRuns \cup {new} /\ new \notin OurRuns
      /\ \A id \in OurRuns : accepted'[id] = accepted[id]
  BY <1>4, <1>5 DEF OurRuns
<1>7. ASSUME NEW id \in OurRuns, NEW index, index = accepted[id].index
      PROVE  /\ index \in 1 .. entered' /\ ~Waits(index)' /\ index # taken
             /\ said'[index][1] \in {"pending", "unknown"}
             /\ accepted'[id].kind = typed'[index] /\ accepted'[id].index = index
  <2>1. /\ index \in 1 .. Len(typed) /\ index <= entered' /\ ~Waits(index)'
        /\ ~Waits(index) /\ said'[index] = said[index] /\ accepted[id].kind = typed[index]
        /\ said[index][1] \in {"pending", "unknown"}
    BY <1>1, <1>2, <1>7, RanBefore
  <2>2. index \in 1 .. entered' /\ index # taken
    BY <1>1, <2>1 DEF Waits
  <2> QED
    BY <1>1, <1>6, <1>7, <2>1, <2>2
<1>8. /\ taken \in 1 .. entered' /\ ~Waits(taken)' /\ said'[taken] = <<spoken>>
      /\ accepted'[new].kind = typed'[taken] /\ accepted'[new].index = taken
  <2>1. taken \in 1 .. entered'
    BY <1>1 DEF Newly
  <2> QED
    BY <1>1, <1>4, <2>1 DEF Newly
<1>9. ASSUME NEW id \in OurRuns'
      PROVE  /\ accepted'[id].index \in 1 .. entered' /\ ~Waits(accepted[id].index)'
             /\ said'[accepted'[id].index][1] \in {"pending", "unknown"}
             /\ accepted'[id].kind = typed'[accepted'[id].index]
  <2>1. CASE id \in OurRuns
    <3>1. PICK index : index = accepted[id].index
      OBVIOUS
    <3>2. /\ index \in 1 .. entered' /\ ~Waits(index)'
          /\ said'[index][1] \in {"pending", "unknown"}
          /\ accepted'[id].kind = typed'[index] /\ accepted'[id].index = index
      BY <1>7, <2>1, <3>1
    <3> QED
      BY <3>2 DEF Waits
  <2>2. CASE id = new
    BY <1>8, <2>2 DEF Waits
  <2> QED
    BY <1>6, <2>1, <2>2
<1>10. ASSUME NEW id \in OurRuns', NEW other \in OurRuns',
              accepted'[id].index = accepted'[other].index
       PROVE  id = other
  <2>1. \A i \in OurRuns : accepted'[i].index # taken /\ accepted'[i].index = accepted[i].index
    BY <1>7
  <2>2. id \in OurRuns /\ other \in OurRuns => id = other
    BY <1>6, <1>10 DEF ReplInv, SaidTruly
  <2> QED
    BY <1>6, <1>8, <1>10, <2>1, <2>2
<1>11. ASSUME NEW index \in 1 .. Len(typed), NEW i \in 1 .. Len(said'[index]),
              said'[index][i] = "pending"
       PROVE  \E id \in OurRuns' : accepted'[id].index = index
  <2>1. CASE index = taken
    BY <1>6, <1>8, <2>1
  <2>2. CASE index # taken
    <3>1. ASSUME NEW word \in Words \ {"pending"}, Newly(index, word) PROVE FALSE
      <4>1. said'[index] = <<word>>
        BY <3>1 DEF Newly
      <4>2. Len(said'[index]) = 1
        BY <4>1
      <4>3. i = 1
        BY <4>2
      <4> QED
        BY <1>11, <4>1, <4>3
    <3>2. said'[index] = said[index]
      BY <2>2, <3>1 DEF Unchanged
    <3>3. \E id \in OurRuns : accepted[id].index = index
      BY <1>11, <3>2 DEF ReplInv, SaidTruly
    <3> QED
      BY <1>6, <3>3
  <2> QED
    BY <2>1, <2>2
<1> QED
  BY <1>1, <1>3, <1>6, <1>9, <1>10, <1>11 DEF SaidTruly, new

-----------------------------------------------------------------------------
(* The REPL: what it shows *)

LEMMA ShowsMore ==
    ASSUME NEW shown \in Seq(Showns), NEW more \in Seq(Showns), InOrder(shown), InOrder(more),
           shown # << >>, NEW last, last = shown[Len(shown)].position,
           more # << >> => IF more[1].isGap THEN more[1].position > last
                           ELSE more[1].position = last + 1
    PROVE  /\ InOrder(shown \o more) /\ shown \o more \in Seq(Showns) /\ shown \o more # << >>
           /\ (shown \o more)[Len(shown \o more)].position =
                 IF more = << >> THEN last ELSE more[Len(more)].position
<1>. DEFINE all == shown \o more
<1>1. /\ all \in Seq(Showns) /\ Len(all) = Len(shown) + Len(more)
      /\ Len(shown) \in Nat /\ Len(more) \in Nat
      /\ \A i \in 1 .. Len(shown) + Len(more) :
            all[i] = IF i <= Len(shown) THEN shown[i] ELSE more[i - Len(shown)]
  BY ConcatProperties
<1>2. Len(shown) >= 1
  BY <1>1, EmptySeq
<1>. HIDE DEF all
<1>3. ASSUME NEW i \in 2 .. Len(all)
      PROVE  IF all[i].isGap THEN all[i].position > all[i - 1].position
             ELSE all[i].position = all[i - 1].position + 1
  <2>1. CASE i <= Len(shown)
    <3>1. /\ i \in 2 .. Len(shown) /\ i \in 1 .. Len(shown) + Len(more)
          /\ i - 1 \in 1 .. Len(shown) + Len(more) /\ i - 1 <= Len(shown)
      BY <1>1, <2>1
    <3>2. all[i] = shown[i] /\ all[i - 1] = shown[i - 1]
      BY <1>1, <2>1, <3>1
    <3> QED
      BY <3>1, <3>2 DEF InOrder
  <2>2. CASE i = Len(shown) + 1
    <3>1. all[i] = more[1] /\ all[i - 1] = shown[Len(shown)] /\ Len(more) # 0
      BY <1>1, <1>2, <2>2
    <3>2. more # << >>
      BY <3>1
    <3> QED
      BY <3>1, <3>2
  <2>3. CASE i > Len(shown) + 1
    <3>. DEFINE j == i - Len(shown)
    <3>1. /\ j \in 2 .. Len(more) /\ all[i] = more[j] /\ (i - 1) - Len(shown) = j - 1
          /\ i - 1 \in 1 .. Len(shown) + Len(more) /\ ~(i - 1 <= Len(shown))
      BY <1>1, <1>2, <2>3
    <3>2. all[i - 1] = more[j - 1]
      BY <1>1, <3>1
    <3>. HIDE DEF j
    <3> QED
      BY <3>1, <3>2 DEF InOrder
  <2> QED
    BY <1>1, <2>1, <2>2, <2>3
<1>4. CASE more = << >>
  <2>1. Len(all) = Len(shown) /\ all[Len(all)] = shown[Len(shown)]
    BY <1>1, <1>2, <1>4
  <2> QED
    BY <1>1, <1>2, <1>3, <1>4, <2>1 DEF InOrder, all
<1>5. CASE more # << >>
  <2>1. Len(more) >= 1
    BY <1>1, <1>5, EmptySeq
  <2>2. all[Len(all)] = more[Len(more)] /\ Len(all) # 0
    BY SMTT(30), <1>1, <1>2, <2>1
  <2>3. all # << >>
    BY <2>2
  <2> QED
    BY <1>1, <1>3, <1>5, <2>2, <2>3 DEF InOrder, all
<1> QED
  BY <1>4, <1>5

-----------------------------------------------------------------------------
(* The REPL: its steps *)

\* The session is left alone.
LEMMA QuietStep ==
    ASSUME RemoteInv, UNCHANGED remoteVars
    PROVE  /\ RemoteInv' /\ Grows /\ Foreign({"repl"})
           /\ typed' = typed /\ store' = store /\ life' = life
<1>1. RemoteInv' /\ Grows /\ accepted' = accepted
  BY RestKeeps
<1> QED
  BY <1>1 DEF remoteVars, typed, Foreign

\* Nothing new runs: what is left to be shown of the other parts.
LEMMA ReplMoves ==
    ASSUME RemoteInv, RemoteInv', Grows, Foreign({"repl"}), ReplInv, QueueTypes', PrintedUpTo',
           \A index \in 1 .. Len(typed) :
              Unchanged(index) \/ \E word \in Words \ {"pending"} : Newly(index, word),
           replPc' \in {"connect", "backoff", "turn", "submit", "poll", "gap", "ended"},
           replPc' = "submit" <=> hand' # 0,
           replPc' \in {"turn", "submit", "poll", "gap"} => replCursor' # << >>,
           ownShutdown' = ownShutdown, left' \in BOOLEAN, left => left',
           result' \in {"none", "ok", "error"},
           result' = "ok" => result = "ok" \/ left' \/ (life' = "Ended" /\ ownShutdown)
    PROVE  ReplInv'
<1>1. SaidOnce' /\ SaidTruly'
  BY QueueKeeps
<1>2. RanShutdown => RanShutdown'
  BY RunsStay DEF RanShutdown
<1>3. life = "Ended" => life' = "Ended"
  BY DEF Grows
<1> QED
  BY <1>1, <1>2, <1>3 DEF ReplInv

\* The queue is left alone.
LEMMA QueueRests ==
    ASSUME RemoteInv, ReplInv, Grows, UNCHANGED <<entered, input, hand, said>>
    PROVE  /\ QueueTypes'
           /\ \A index \in 1 .. Len(typed) :
                 Unchanged(index) \/ \E word \in Words \ {"pending"} : Newly(index, word)
<1>1. typed' = typed
  BY DEF Grows, typed
<1> QED
  BY <1>1 DEF ReplInv, QueueTypes, Unchanged, Waits

\* What was shown, and the cursor, are left alone.
LEMMA ShownRests ==
    ASSUME ReplInv, Grows, UNCHANGED <<printed, replCursor>>
    PROVE  PrintedUpTo'
<1>1. /\ store.position \in Nat /\ store'.position \in Nat
      /\ store.position <= store'.position
  BY DEF Grows
<1>2. replCursor[1] \in 0 .. store.position => replCursor[1] \in 0 .. store'.position
  BY <1>1
<1> QED
  BY <1>2 DEF ReplInv, PrintedUpTo

LEMMA FirstWord == \A word : Append(<< >>, word) = <<word>>
OBVIOUS

\* The queue is emptied, nothing is in hand.
LEMMA DrainedIs ==
    ASSUME RemoteInv, ReplInv, Grows, Drained, hand = 0, hand' = 0, entered' = entered
    PROVE  /\ QueueTypes'
           /\ \A index \in 1 .. Len(typed) :
                 Unchanged(index) \/ \E word \in Words \ {"pending"} : Newly(index, word)
<1>1. /\ typed' = typed /\ typed \in Seq(Commands \cup {"pending"})
      /\ Inputs = 1 .. Len(typed)
  <2>1. typed \in Seq(Commands \cup {"pending"})
    BY SettingIs DEF RemoteInv, RemoteTypes
  <2> QED
    BY <2>1 DEF Grows, typed, Inputs
<1>2. /\ input' = << >>
      /\ said' = [index \in 1 .. Len(typed) |->
                     IF index \in Range(input) THEN Append(said[index], "notSent")
                     ELSE said[index]]
  BY <1>1 DEF Drained
<1>3. /\ entered \in 0 .. Len(typed) /\ input \in Seq(1 .. entered)
      /\ said \in [1 .. Len(typed) -> Seq(Words)]
      /\ \A index \in 1 .. Len(typed) :
            Len(said[index]) = IF index <= entered /\ ~Waits(index) THEN 1 ELSE 0
  BY DEF ReplInv, QueueTypes, SaidOnce
<1>4. \A index \in 1 .. Len(typed) : ~Waits(index)'
  BY <1>2, <1>3 DEF Waits, Range
<1>5. ASSUME NEW index \in 1 .. Len(typed)
      PROVE  /\ said'[index] \in Seq(Words)
             /\ Unchanged(index) \/ \E word \in Words \ {"pending"} : Newly(index, word)
  <2>1. CASE index \in Range(input)
    <3>0. PICK i \in 1 .. Len(input) : input[i] = index
      BY <1>3, <2>1, RangeIs
    <3>1. index \in 1 .. entered /\ Waits(index)
      <4>1. input[i] \in 1 .. entered
        BY <1>3
      <4> QED
        BY <2>1, <3>0, <4>1 DEF Waits
    <3>2. said[index] = << >>
      <4>1. said[index] \in Seq(Words)
        BY <1>3
      <4>2. Len(said[index]) = IF index <= entered /\ ~Waits(index) THEN 1 ELSE 0
        BY <1>3
      <4>3. Len(said[index]) = 0
        BY <3>1, <4>2
      <4> QED
        BY <4>1, <4>3, EmptySeq
    <3>3. said'[index] = <<"notSent">>
      <4>1. said'[index] = Append(said[index], "notSent")
        BY <1>2, <2>1
      <4> QED
        BY <3>2, <4>1, FirstWord
    <3>4. Newly(index, "notSent")
      BY <1>3, <1>4, <3>1, <3>2, <3>3 DEF Newly
    <3> QED
      BY <3>3, <3>4 DEF Words
  <2>2. CASE index \notin Range(input)
    <3>1. ~Waits(index)
      BY <1>3, <2>2 DEF Waits
    <3> QED
      BY <1>2, <1>3, <1>4, <2>2, <3>1 DEF Unchanged
  <2> QED
    BY <2>1, <2>2
<1>6. said' \in [1 .. Len(typed) -> Seq(Words)]
  BY <1>2, <1>5
<1> QED
  BY <1>1, <1>2, <1>3, <1>5, <1>6 DEF QueueTypes

\* The steps of the others.
LEMMA ReplRests ==
    ASSUME RemoteInv, RemoteInv', Grows, Foreign({"repl"}), ReplInv, UNCHANGED replVars
    PROVE  ReplInv'
<1>1. UNCHANGED <<entered, input, hand, said>> /\ UNCHANGED <<printed, replCursor>>
      /\ UNCHANGED <<replPc, ownShutdown, left, result>>
  BY DEF replVars
<1> QED
  BY <1>1, QueueRests, ShownRests, ReplMoves DEF ReplInv

\* Steps that touch neither the queue nor what was shown.
LEMMA IdleStepsKeep ==
    ASSUME RemoteInv, ReplInv, Quit \/ Stops \/ TurnedAway \/ NoInput \/ AfterGap
    PROVE  ReplInv'
<1>1. /\ UNCHANGED remoteVars /\ UNCHANGED <<entered, input, said>> /\ UNCHANGED <<printed, replCursor>>
      /\ ownShutdown' = ownShutdown
  BY DEF Quit, Stops, TurnedAway, NoInput, AfterGap, TerminalOnly, Ends
<1>2. /\ RemoteInv' /\ Grows /\ Foreign({"repl"})
  BY <1>1, QuietStep
<1>3. /\ replPc # "submit" => hand = 0
      /\ left \in BOOLEAN /\ result \in {"none", "ok", "error"}
  BY DEF ReplInv
<1>4. hand' = hand /\ (replPc' = "submit" <=> hand' # 0)
  BY <1>3 DEF Quit, Stops, TurnedAway, NoInput, AfterGap, TerminalOnly, Ends, ReplInv
<1>5. /\ replPc' \in {"connect", "backoff", "turn", "submit", "poll", "gap", "ended"}
      /\ replPc' \in {"turn", "submit", "poll", "gap"} => replCursor' # << >>
  BY <1>1 DEF Quit, Stops, TurnedAway, NoInput, AfterGap, Ends, ReplInv
<1>6. /\ left' \in BOOLEAN /\ (left => left') /\ result' \in {"none", "ok", "error"}
      /\ result' = "ok" => result = "ok" \/ left'
  BY <1>3 DEF Quit, Stops, TurnedAway, NoInput, AfterGap, TerminalOnly, Ends
<1>7. QueueTypes' /\ \A index \in 1 .. Len(typed) :
         Unchanged(index) \/ \E word \in Words \ {"pending"} : Newly(index, word)
  BY <1>1, <1>2, <1>4, QueueRests
<1>8. PrintedUpTo'
  BY <1>1, <1>2, ShownRests
<1> QED
  BY <1>1, <1>2, <1>4, <1>5, <1>6, <1>7, <1>8, ReplMoves

\* The connection breaks, and what waits is not sent.
LEMMA BreaksKeep ==
    ASSUME RemoteInv, ReplInv, ConnectFails \/ Backoff \/ SnapshotFails \/ ReplPollFails
    PROVE  ReplInv'
<1>1. /\ UNCHANGED remoteVars /\ UNCHANGED <<printed, replCursor>>
      /\ UNCHANGED <<hand, entered, ownShutdown, left, result>>
      /\ replPc \in {"connect", "backoff", "turn", "poll"}
      /\ replPc' \in {"connect", "backoff"}
      /\ Drained \/ UNCHANGED <<input, said>>
  BY DEF ConnectFails, Backoff, SnapshotFails, ReplPollFails, TerminalOnly
<1>2. /\ RemoteInv' /\ Grows /\ Foreign({"repl"})
  BY <1>1, QuietStep
<1>3. hand = 0 /\ left \in BOOLEAN /\ result \in {"none", "ok", "error"}
  BY <1>1 DEF ReplInv
<1>4. QueueTypes' /\ \A index \in 1 .. Len(typed) :
         Unchanged(index) \/ \E word \in Words \ {"pending"} : Newly(index, word)
  BY <1>1, <1>2, <1>3, DrainedIs, QueueRests
<1>5. PrintedUpTo'
  BY <1>1, <1>2, ShownRests
<1> QED
  BY <1>1, <1>2, <1>3, <1>4, <1>5, ReplMoves

\* Nothing is said of what waits or is not entered.
LEMMA NothingSaid ==
    ASSUME ReplInv, NEW index \in 1 .. Len(typed), ~(index <= entered) \/ Waits(index)
    PROVE  said[index] = << >>
<1>1. said[index] \in Seq(Words)
  BY DEF ReplInv, QueueTypes
<1>2. Len(said[index]) = IF index <= entered /\ ~Waits(index) THEN 1 ELSE 0
  BY DEF ReplInv, SaidOnce
<1>3. Len(said[index]) = 0
  BY <1>2
<1> QED
  BY <1>1, <1>3, EmptySeq

\* Until a word is.
LEMMA SaysIs ==
    ASSUME ReplInv, NEW index \in 1 .. Len(typed), said[index] = << >>, NEW word \in Words,
           Says(index, word)
    PROVE  /\ said' \in [1 .. Len(typed) -> Seq(Words)] /\ said'[index] = <<word>>
           /\ \A other \in 1 .. Len(typed) : other # index => said'[other] = said[other]
<1>1. said \in [1 .. Len(typed) -> Seq(Words)]
  BY DEF ReplInv, QueueTypes
<1>2. Append(said[index], word) = <<word>> /\ <<word>> \in Seq(Words)
  BY FirstWord
<1>3. said' = [said EXCEPT ![index] = <<word>>]
  BY <1>2 DEF Says
<1> QED
  BY <1>1, <1>2, <1>3

LEMMA EnterKeeps ==
    ASSUME RemoteInv, ReplInv, EnterInput
    PROVE  ReplInv'
<1>0. PICK new : new = entered + 1
  OBVIOUS
<1>1. /\ entered < Len(typed) /\ entered' = new /\ UNCHANGED remoteVars
      /\ UNCHANGED <<printed, replCursor>>
      /\ UNCHANGED <<replPc, hand, ownShutdown, left, result>>
  BY <1>0 DEF EnterInput
<1>2. /\ RemoteInv' /\ Grows /\ Foreign({"repl"}) /\ typed' = typed
  BY <1>1, QuietStep
<1>3. /\ typed \in Seq(Commands \cup {"pending"}) /\ Len(typed) \in Nat
      /\ entered \in 0 .. Len(typed) /\ input \in Seq(1 .. entered) /\ hand \in 0 .. entered
      /\ \A i \in 1 .. Len(input) : input[i] # hand
      /\ \A i, j \in 1 .. Len(input) : input[i] = input[j] => i = j
      /\ said \in [1 .. Len(typed) -> Seq(Words)]
  BY SettingIs DEF ReplInv, QueueTypes, RemoteInv, RemoteTypes
<1>4. /\ new \in 1 .. Len(typed) /\ ~(new <= entered) /\ new # hand /\ new \notin 1 .. entered
      /\ new \in 1 .. new /\ \A index \in 1 .. Len(typed) : index <= new <=> index <= entered \/ index = new
  BY <1>0, <1>1, <1>3
<1>5. input \in Seq(1 .. new) /\ hand' \in 0 .. new
  <2>1. hand' \in 0 .. new
    BY <1>0, <1>1, <1>3
  <2>2. 1 .. entered \subseteq 1 .. new
    BY <1>0, <1>3
  <2> QED
    BY <1>3, <2>1, <2>2, SeqMonotonic
<1>6. said[new] = << >>
  BY <1>4, NothingSaid
<1>7. new \notin Range(input)
  <2>1. \A i \in 1 .. Len(input) : input[i] \in 1 .. entered
    BY <1>3
  <2> QED
    BY <1>3, <1>4, <2>1, RangeIs
<1>8. CASE input' = Append(input, new) /\ said' = said
  <2>1. /\ input' \in Seq(1 .. new) /\ Len(input') = Len(input) + 1
        /\ \A i \in 1 .. Len(input) : input'[i] = input[i]
        /\ input'[Len(input) + 1] = new
    <3>1. new \in 1 .. new
      BY <1>4
    <3> QED
      BY <1>5, <1>8, <3>1, AppendIs
  <2>2. /\ Len(input) \in Nat /\ 1 .. Len(input') = (1 .. Len(input)) \cup {Len(input) + 1}
    BY <1>3, <2>1
  <2>3. \A x : x \in Range(input') <=> x \in Range(input) \/ x = new
    BY <1>5, <2>1, <2>2, RangeIs
  <2>4. \A i \in 1 .. Len(input') : input'[i] # hand'
    BY <1>1, <1>3, <1>4, <2>1, <2>2
  <2>5. \A i, j \in 1 .. Len(input') : input'[i] = input'[j] => i = j
    <3>1. \A i \in 1 .. Len(input) : input[i] # new
      BY <1>3, <1>7, RangeIs
    <3> QED
      BY <1>3, <2>1, <2>2, <3>1
  <2>6. QueueTypes'
    BY <1>1, <1>2, <1>3, <1>4, <1>5, <1>8, <2>1, <2>4, <2>5 DEF QueueTypes
  <2>7. \A index \in 1 .. Len(typed) : Unchanged(index)
    BY <1>1, <1>4, <1>8, <2>3 DEF Unchanged, Waits
  <2> QED
    BY <1>1, <1>2, <2>6, <2>7, ReplMoves, ShownRests DEF ReplInv
<1>9. CASE input' = input /\ Says(new, "queueFull")
  <2>1. /\ said' \in [1 .. Len(typed) -> Seq(Words)] /\ said'[new] = <<"queueFull">>
        /\ \A other \in 1 .. Len(typed) : other # new => said'[other] = said[other]
    BY <1>4, <1>6, <1>9, SaysIs DEF Words
  <2>2. QueueTypes'
    BY <1>1, <1>2, <1>3, <1>4, <1>5, <1>9, <2>1 DEF QueueTypes
  <2>3. Newly(new, "queueFull")
    BY <1>1, <1>4, <1>6, <1>7, <1>9, <2>1 DEF Newly, Waits
  <2>4. \A index \in 1 .. Len(typed) : index # new => Unchanged(index)
    BY <1>1, <1>4, <1>9, <2>1 DEF Unchanged, Waits
  <2>5. \A index \in 1 .. Len(typed) :
           Unchanged(index) \/ \E word \in Words \ {"pending"} : Newly(index, word)
    BY <2>3, <2>4 DEF Words
  <2> QED
    BY <1>1, <1>2, <2>2, <2>5, ReplMoves, ShownRests DEF ReplInv
<1> QED
  BY <1>0, <1>8, <1>9 DEF EnterInput, Says

\* The first of the queue leaves it.
LEMMA TailWaits ==
    ASSUME NEW T, NEW seq \in Seq(T), seq # << >>,
           \A i, j \in 1 .. Len(seq) : seq[i] = seq[j] => i = j
    PROVE  /\ Tail(seq) \in Seq(T) /\ Head(seq) \in T /\ Head(seq) \in Range(seq)
           /\ \A i, j \in 1 .. Len(Tail(seq)) : Tail(seq)[i] = Tail(seq)[j] => i = j
           /\ \A i \in 1 .. Len(Tail(seq)) : Tail(seq)[i] # Head(seq)
           /\ \A x : x \in Range(Tail(seq)) <=> x \in Range(seq) /\ x # Head(seq)
<1>1. /\ Len(seq) \in Nat /\ Len(seq) >= 1 /\ Head(seq) = seq[1] /\ Tail(seq) \in Seq(T)
      /\ Len(Tail(seq)) = Len(seq) - 1
      /\ \A i \in 1 .. Len(seq) - 1 : Tail(seq)[i] = seq[i + 1]
  <2>1. Len(seq) \in Nat /\ Len(seq) # 0
    BY EmptySeq
  <2> QED
    BY <2>1, HeadTailProperties
<1>2. Head(seq) \in T /\ 1 \in 1 .. Len(seq)
  BY <1>1
<1>3. \A i \in 1 .. Len(seq) - 1 : i + 1 \in 1 .. Len(seq) /\ i + 1 # 1
  BY <1>1
<1>4. \A i \in 1 .. Len(Tail(seq)) : Tail(seq)[i] # Head(seq)
  BY <1>1, <1>2, <1>3
<1>5. \A i, j \in 1 .. Len(Tail(seq)) : Tail(seq)[i] = Tail(seq)[j] => i = j
  <2>1. SUFFICES ASSUME NEW i \in 1 .. Len(seq) - 1, NEW j \in 1 .. Len(seq) - 1,
                        seq[i + 1] = seq[j + 1]
                 PROVE  i = j
    BY <1>1
  <2>2. i + 1 = j + 1
    BY <1>3, <2>1
  <2> QED
    BY <1>1, <2>2
<1>6. ASSUME NEW x
      PROVE  x \in Range(Tail(seq)) <=> x \in Range(seq) /\ x # Head(seq)
  <2>1. ASSUME NEW i \in 1 .. Len(Tail(seq)), Tail(seq)[i] = x
        PROVE  x \in Range(seq) /\ x # Head(seq)
    <3>1. i + 1 \in 1 .. Len(seq) /\ seq[i + 1] = x
      BY <1>1, <1>3, <2>1
    <3> QED
      BY <1>4, <2>1, <3>1, RangeIs
  <2>2. ASSUME NEW i \in 1 .. Len(seq), seq[i] = x, x # Head(seq)
        PROVE  x \in Range(Tail(seq))
    <3>1. i # 1
      BY <1>1, <2>2
    <3>2. i - 1 \in 1 .. Len(Tail(seq)) /\ (i - 1) + 1 = i
      BY <1>1, <3>1
    <3>3. Tail(seq)[i - 1] = x
      BY <1>1, <2>2, <3>2
    <3>4. \E j \in 1 .. Len(Tail(seq)) : Tail(seq)[j] = x
      BY <3>2, <3>3
    <3>5. Tail(seq) \in Seq(T)
      BY <1>1
    <3> QED
      BY <3>4, <3>5, RangeIs
  <2>3. x \in Range(Tail(seq)) => x \in Range(seq) /\ x # Head(seq)
    <3>1. Tail(seq) \in Seq(T)
      BY <1>1
    <3>2. x \in Range(Tail(seq)) => \E i \in 1 .. Len(Tail(seq)) : Tail(seq)[i] = x
      BY <3>1, RangeIs
    <3> QED
      BY <2>1, <3>2
  <2>4. x \in Range(seq) /\ x # Head(seq) => x \in Range(Tail(seq))
    BY <2>2, RangeIs
  <2> QED
    BY <2>3, <2>4
<1>7. Head(seq) \in Range(seq)
  BY <1>1, <1>2, RangeIs
<1> QED
  BY <1>1, <1>2, <1>4, <1>5, <1>6, <1>7

LEMMA TakeKeeps ==
    ASSUME RemoteInv, ReplInv, TakeInput
    PROVE  ReplInv'
<1>0. PICK first : first = Head(input)
  OBVIOUS
<1>1. /\ replPc = "turn" /\ input # << >> /\ input' = Tail(input)
      /\ UNCHANGED remoteVars /\ UNCHANGED <<printed, replCursor>>
      /\ UNCHANGED <<entered, ownShutdown, left, result>>
      /\ \/ \E word \in {"listed", "replayInProgress"} :
               replPc' = "poll" /\ Says(first, word) /\ hand' = hand
         \/ replPc' = "submit" /\ hand' = first /\ said' = said
  BY <1>0 DEF TakeInput, TerminalOnly
<1>2. /\ RemoteInv' /\ Grows /\ Foreign({"repl"}) /\ typed' = typed
  BY <1>1, QuietStep
<1>3. /\ typed \in Seq(Commands \cup {"pending"}) /\ Len(typed) \in Nat
      /\ entered \in 0 .. Len(typed) /\ input \in Seq(1 .. entered) /\ hand = 0
      /\ \A i, j \in 1 .. Len(input) : input[i] = input[j] => i = j
      /\ said \in [1 .. Len(typed) -> Seq(Words)]
      /\ left \in BOOLEAN /\ result \in {"none", "ok", "error"}
      /\ ownShutdown' = ownShutdown /\ replCursor # << >>
  BY <1>1, SettingIs DEF ReplInv, QueueTypes, RemoteInv, RemoteTypes
<1>4. /\ input' \in Seq(1 .. entered) /\ first \in 1 .. entered /\ first \in Range(input)
      /\ \A i, j \in 1 .. Len(input') : input'[i] = input'[j] => i = j
      /\ \A i \in 1 .. Len(input') : input'[i] # first
      /\ \A x : x \in Range(input') <=> x \in Range(input) /\ x # first
  BY SMTT(30), <1>0, <1>1, <1>3, TailWaits
<1>5. /\ first \in 1 .. Len(typed) /\ first <= entered /\ first # 0
      /\ \A i \in 1 .. Len(input') : input'[i] # 0
  <2>1. input' \in Seq(1 .. entered)
    BY <1>4
  <2>2. \A i \in 1 .. Len(input') : input'[i] \in 1 .. entered
    BY <2>1, ElementOfSeq
  <2>3. \A x \in 1 .. entered : x # 0 /\ x <= entered /\ x \in 1 .. Len(typed)
    BY <1>3
  <2> QED
    BY <1>4, <2>2, <2>3
<1>6. said[first] = << >>
  BY <1>4, <1>5, NothingSaid DEF Waits
<1>7. PrintedUpTo'
  BY <1>1, <1>2, ShownRests
<1>8. ASSUME NEW word \in {"listed", "replayInProgress"}, replPc' = "poll", Says(first, word),
             hand' = hand
      PROVE  ReplInv'
  <2>0. word \in Words \ {"pending"}
    BY DEF Words
  <2>1. /\ said' \in [1 .. Len(typed) -> Seq(Words)] /\ said'[first] = <<word>>
        /\ \A other \in 1 .. Len(typed) : other # first => said'[other] = said[other]
    BY <1>5, <1>6, <1>8, <2>0, SaysIs
  <2>2. QueueTypes'
    BY <1>1, <1>2, <1>3, <1>4, <1>5, <1>8, <2>1 DEF QueueTypes
  <2>3. Newly(first, word)
    BY <1>1, <1>3, <1>4, <1>5, <1>6, <1>8, <2>1 DEF Newly, Waits
  <2>4. \A index \in 1 .. Len(typed) : index # first => Unchanged(index)
    BY <1>1, <1>3, <1>4, <1>8, <2>1 DEF Unchanged, Waits
  <2>5. \A index \in 1 .. Len(typed) :
           Unchanged(index) \/ \E w \in Words \ {"pending"} : Newly(index, w)
    BY <2>0, <2>3, <2>4
  <2> QED
    BY <1>1, <1>2, <1>3, <1>7, <1>8, <2>2, <2>5, ReplMoves
<1>9. CASE replPc' = "submit" /\ hand' = first /\ said' = said
  <2>1. QueueTypes'
    BY <1>1, <1>2, <1>3, <1>4, <1>9 DEF QueueTypes
  <2>2. \A index \in 1 .. Len(typed) : Unchanged(index)
    BY <1>1, <1>3, <1>4, <1>5, <1>9 DEF Unchanged, Waits
  <2> QED
    BY <1>1, <1>2, <1>3, <1>5, <1>7, <1>9, <2>1, <2>2, ReplMoves
<1> QED
  BY <1>1, <1>8, <1>9

LEMMA DenyKeeps ==
    ASSUME RemoteInv, ReplInv, ReplRefused
    PROVE  ReplInv'
<1>0. PICK index : index = hand
  OBVIOUS
<1>1. /\ replPc = "submit" /\ replPc' = "poll" /\ hand' = 0 /\ Says(index, "refused")
      /\ UNCHANGED remoteVars /\ UNCHANGED <<printed, replCursor>>
      /\ UNCHANGED <<input, entered, ownShutdown, left, result>>
  BY <1>0 DEF ReplRefused, TerminalOnly
<1>2. /\ RemoteInv' /\ Grows /\ Foreign({"repl"}) /\ typed' = typed
  BY <1>1, QuietStep
<1>3. /\ typed \in Seq(Commands \cup {"pending"}) /\ Len(typed) \in Nat
      /\ entered \in 0 .. Len(typed) /\ input \in Seq(1 .. entered)
      /\ index \in 1 .. entered
      /\ \A i \in 1 .. Len(input) : input[i] # index
      /\ \A i, j \in 1 .. Len(input) : input[i] = input[j] => i = j
      /\ said \in [1 .. Len(typed) -> Seq(Words)]
      /\ left \in BOOLEAN /\ result \in {"none", "ok", "error"}
      /\ ownShutdown' = ownShutdown /\ replCursor # << >>
  BY <1>0, <1>1, SettingIs DEF ReplInv, QueueTypes, RemoteInv, RemoteTypes
<1>4. /\ index \in 1 .. Len(typed) /\ index <= entered /\ index # 0 /\ index \notin Range(input)
      /\ \A i \in 1 .. Len(input) : input[i] # 0
      /\ 0 \notin Range(input)
  <2>1. \A i \in 1 .. Len(input) : input[i] \in 1 .. entered
    BY <1>3, ElementOfSeq
  <2>2. \A x \in 1 .. entered : x # 0 /\ x <= entered /\ x \in 1 .. Len(typed)
    BY <1>3
  <2>3. \A i \in 1 .. Len(input) : input[i] # 0 /\ input[i] # index
    BY <1>3, <2>1, <2>2
  <2>4. \A x : x \in Range(input) <=> \E i \in 1 .. Len(input) : input[i] = x
    BY <1>3, RangeIs
  <2> QED
    BY <1>3, <2>2, <2>3, <2>4
<1>5. said[index] = << >>
  BY <1>0, <1>4, NothingSaid DEF Waits
<1>6. /\ said' \in [1 .. Len(typed) -> Seq(Words)] /\ said'[index] = <<"refused">>
      /\ \A other \in 1 .. Len(typed) : other # index => said'[other] = said[other]
  BY <1>1, <1>4, <1>5, SaysIs DEF Words
<1>7. QueueTypes'
  BY <1>1, <1>2, <1>3, <1>4, <1>6 DEF QueueTypes
<1>8. Newly(index, "refused")
  BY <1>1, <1>4, <1>5, <1>6 DEF Newly, Waits
<1>9. \A other \in 1 .. Len(typed) : other # index => Unchanged(other)
  BY <1>0, <1>1, <1>6 DEF Unchanged, Waits
<1>10. \A i \in 1 .. Len(typed) :
          Unchanged(i) \/ \E w \in Words \ {"pending"} : Newly(i, w)
  BY <1>8, <1>9 DEF Words
<1>11. PrintedUpTo'
  BY <1>1, <1>2, ShownRests
<1> QED
  BY <1>1, <1>2, <1>3, <1>7, <1>10, <1>11, ReplMoves

\* What is in hand, and what waits behind it.
LEMMA InHand ==
    ASSUME RemoteInv, ReplInv, replPc = "submit"
    PROVE  /\ typed \in Seq(Commands \cup {"pending"}) /\ Len(typed) \in Nat
           /\ entered \in 0 .. Len(typed) /\ input \in Seq(1 .. entered)
           /\ hand \in 1 .. entered /\ hand \in 1 .. Len(typed) /\ hand \in Nat /\ hand <= entered
           /\ typed[hand] \in Commands \cup {"pending"} /\ said[hand] = << >>
           /\ hand \notin Range(input) /\ 0 \notin Range(input)
           /\ \A i \in 1 .. Len(input) : input[i] # 0
           /\ \A i, j \in 1 .. Len(input) : input[i] = input[j] => i = j
           /\ said \in [1 .. Len(typed) -> Seq(Words)] /\ replCursor # << >>
<1>1. /\ typed \in Seq(Commands \cup {"pending"}) /\ Len(typed) \in Nat
      /\ entered \in 0 .. Len(typed) /\ input \in Seq(1 .. entered)
      /\ hand \in 1 .. entered
      /\ \A i \in 1 .. Len(input) : input[i] # hand
      /\ \A i, j \in 1 .. Len(input) : input[i] = input[j] => i = j
      /\ said \in [1 .. Len(typed) -> Seq(Words)] /\ replCursor # << >>
  BY SettingIs DEF ReplInv, QueueTypes, RemoteInv, RemoteTypes
<1>2. hand \in 1 .. Len(typed) /\ hand \in Nat /\ hand <= entered /\ hand # 0
  BY <1>1
<1>3. \A i \in 1 .. Len(input) : input[i] \in 1 .. entered
  BY <1>1, ElementOfSeq
<1>4. \A i \in 1 .. Len(input) : input[i] # 0
  BY <1>1, <1>3
<1>5. \A x : x \in Range(input) <=> \E i \in 1 .. Len(input) : input[i] = x
  BY <1>1, RangeIs
<1>6. hand \notin Range(input) /\ 0 \notin Range(input)
  BY <1>1, <1>4, <1>5
<1>7. typed[hand] \in Commands \cup {"pending"}
  BY <1>1, <1>2
<1>8. said[hand] = << >>
  BY <1>2, NothingSaid DEF Waits
<1> QED
  BY <1>1, <1>2, <1>4, <1>6, <1>7, <1>8

\* The input in hand runs: what is left to be shown of the other parts.
LEMMA RunMoves ==
    ASSUME RemoteInv, RemoteInv', Grows, ReplInv, replPc = "submit", QueueTypes',
           UNCHANGED <<printed, replCursor>>,
           NEW taken, taken = hand, AcceptedNow("repl", taken, typed[taken]),
           NEW spoken \in {"pending", "unknown"}, Newly(taken, spoken),
           \A index \in 1 .. Len(typed) : index # taken =>
              Unchanged(index) \/ \E word \in Words \ {"pending"} : Newly(index, word),
           replPc' \in {"poll", "connect"}, hand' = 0, UNCHANGED <<left, result>>,
           ownShutdown' \in BOOLEAN, ownShutdown' => ownShutdown \/ typed[taken] = "shutdown"
    PROVE  ReplInv'
<1>1. taken \in 1 .. entered /\ replCursor # << >>
  BY InHand
<1>2. SaidOnce' /\ SaidTruly' /\ OurRuns' = OurRuns \cup {Len(accepted) + 1}
  BY <1>1, RunKeeps
<1>3. \A id \in OurRuns : accepted'[id] = accepted[id]
  BY DEF OurRuns, Grows
<1>4. RanShutdown => RanShutdown'
  BY <1>2, <1>3 DEF RanShutdown
<1>5. accepted'[Len(accepted) + 1].kind = typed[taken]
  BY DEF AcceptedNow
<1>6. ownShutdown' => RanShutdown'
  <2>1. CASE ownShutdown
    BY <1>4, <2>1 DEF ReplInv
  <2>2. CASE typed[taken] = "shutdown"
    BY <1>2, <1>5, <2>2 DEF RanShutdown
  <2> QED
    BY <2>1, <2>2
<1>7. PrintedUpTo'
  BY ShownRests
<1>8. life = "Ended" => life' = "Ended"
  BY DEF Grows
<1>9. /\ replPc' # "submit" /\ replCursor' # << >> /\ left' \in BOOLEAN
      /\ result' \in {"none", "ok", "error"}
      /\ result' = "ok" => left' \/ (life' = "Ended" /\ RanShutdown')
  BY <1>1, <1>4, <1>8 DEF ReplInv
<1> QED
  BY <1>2, <1>6, <1>7, <1>9 DEF ReplInv

LEMMA ReplAccepts ==
    ASSUME RemoteInv, ReplInv, ReplAccepted
    PROVE  ReplInv'
<1>0. PICK index : index = hand
  OBVIOUS
<1>1. /\ replPc = "submit" /\ replPc' = "poll" /\ hand' = 0 /\ Says(index, "pending")
      /\ Accept("repl", index, typed[index])
      /\ UNCHANGED <<printed, replCursor>>
      /\ UNCHANGED <<input, entered>> /\ UNCHANGED <<left, result>>
      /\ ownShutdown' = (ownShutdown \/ typed[index] = "shutdown")
  BY <1>0 DEF ReplAccepted, TerminalOnly, Submitted
<1>2. /\ typed \in Seq(Commands \cup {"pending"}) /\ Len(typed) \in Nat
      /\ entered \in 0 .. Len(typed) /\ input \in Seq(1 .. entered)
      /\ index \in 1 .. entered /\ index \in 1 .. Len(typed) /\ index \in Nat /\ index <= entered
      /\ typed[index] \in Commands \cup {"pending"} /\ said[index] = << >>
      /\ index \notin Range(input) /\ 0 \notin Range(input)
      /\ \A i \in 1 .. Len(input) : input[i] # 0
      /\ \A i, j \in 1 .. Len(input) : input[i] = input[j] => i = j
      /\ index # 0
  BY <1>0, <1>1, InHand
<1>3. RemoteInv' /\ Grows /\ AcceptedNow("repl", index, typed[index])
  BY <1>0, <1>1, <1>2, AcceptKeeps
<1>4. typed' = typed
  BY <1>3 DEF Grows, typed
<1>5. /\ said' \in [1 .. Len(typed) -> Seq(Words)] /\ said'[index] = <<"pending">>
      /\ \A other \in 1 .. Len(typed) : other # index => said'[other] = said[other]
  BY <1>1, <1>2, SaysIs DEF Words
<1>6. QueueTypes'
  BY <1>1, <1>2, <1>4, <1>5 DEF QueueTypes
<1>7. Newly(index, "pending")
  BY <1>0, <1>1, <1>2, <1>5 DEF Newly, Waits
<1>8. \A other \in 1 .. Len(typed) : other # index => Unchanged(other)
  BY <1>0, <1>1, <1>2, <1>5 DEF Unchanged, Waits
<1>9. ownShutdown' \in BOOLEAN /\ (ownShutdown' => ownShutdown \/ typed[index] = "shutdown")
  BY <1>1
<1> QED
  BY <1>0, <1>1, <1>3, <1>6, <1>7, <1>8, <1>9, RunMoves

\* What is said when a submission breaks.
LEMMA WordsOf ==
    ASSUME NEW T, NEW seq \in Seq(T), NEW word
    PROVE  /\ (seq \o << >>) \o << >> = seq
           /\ (<< >> \o <<word>>) \o << >> = <<word>>
           /\ (<< >> \o << >>) \o <<word>> = <<word>>
OBVIOUS

LEMMA LossIs ==
    ASSUME RemoteInv, ReplInv, Grows, replPc = "submit", ReplLost,
           NEW taken, taken = hand
    PROVE  /\ QueueTypes' /\ Newly(taken, "unknown")
           /\ \A index \in 1 .. Len(typed) : index # taken =>
                 Unchanged(index) \/ \E word \in Words \ {"pending"} : Newly(index, word)
<1>1. /\ typed \in Seq(Commands \cup {"pending"}) /\ Len(typed) \in Nat
      /\ entered \in 0 .. Len(typed) /\ input \in Seq(1 .. entered)
      /\ taken \in 1 .. Len(typed) /\ taken <= entered /\ said[taken] = << >>
      /\ taken \notin Range(input)
      /\ said \in [1 .. Len(typed) -> Seq(Words)]
  BY InHand
<1>2. typed' = typed /\ Inputs = 1 .. Len(typed)
  BY <1>1 DEF Grows, typed, Inputs
<1>3. /\ input' = << >> /\ hand' = 0 /\ entered' = entered
      /\ said' = [index \in 1 .. Len(typed) |->
                    said[index] \o (IF index = taken THEN <<"unknown">> ELSE << >>)
                                \o (IF index \in Range(input) THEN <<"notSent">> ELSE << >>)]
  BY <1>2 DEF ReplLost, Kept, TerminalOnly
<1>4. \A index \in 1 .. Len(typed) : ~Waits(index)'
  BY <1>3 DEF Waits, Range
<1>5. said'[taken] = <<"unknown">>
  <2>1. said'[taken] = (<< >> \o <<"unknown">>) \o << >>
    BY <1>1, <1>3
  <2> QED
    BY <1>1, <2>1, WordsOf
<1>6. ASSUME NEW index \in 1 .. Len(typed), index # taken
      PROVE  /\ said'[index] \in Seq(Words)
             /\ Unchanged(index) \/ Newly(index, "notSent")
  <2>0. said[index] \in Seq(Words)
    BY <1>1
  <2>1. CASE index \in Range(input)
    <3>1. PICK i \in 1 .. Len(input) : input[i] = index
      BY <1>1, <2>1, RangeIs
    <3>2. index <= entered /\ Waits(index)
      <4>1. input[i] \in 1 .. entered
        BY <1>1, ElementOfSeq
      <4> QED
        BY <1>1, <2>1, <3>1, <4>1 DEF Waits
    <3>3. said[index] = << >>
      BY <3>2, NothingSaid
    <3>4. said'[index] = (<< >> \o << >>) \o <<"notSent">>
      BY <1>3, <1>6, <2>1, <3>3
    <3>5. said'[index] = <<"notSent">>
      BY <2>0, <3>4, WordsOf
    <3> QED
      <4>1. Newly(index, "notSent")
        BY <1>3, <1>4, <3>2, <3>3, <3>5 DEF Newly
      <4>2. <<"notSent">> \in Seq(Words)
        BY DEF Words
      <4> QED
        BY <3>5, <4>1, <4>2
  <2>2. CASE index \notin Range(input)
    <3>1. said'[index] = (said[index] \o << >>) \o << >>
      BY <1>3, <1>6, <2>2
    <3>2. said'[index] = said[index]
      BY <2>0, <3>1, WordsOf
    <3> QED
      BY <1>3, <1>4, <1>6, <2>0, <2>2, <3>2 DEF Unchanged, Waits
  <2> QED
    BY <2>1, <2>2
<1>7. <<"unknown">> \in Seq(Words)
  BY DEF Words
<1>8. said' \in [1 .. Len(typed) -> Seq(Words)]
  <2>1. \A index \in 1 .. Len(typed) : said'[index] \in Seq(Words)
    BY <1>5, <1>6, <1>7
  <2> QED
    BY <1>3, <2>1
<1>9. QueueTypes'
  BY <1>1, <1>2, <1>3, <1>8 DEF QueueTypes
<1>10. Newly(taken, "unknown")
  BY <1>1, <1>3, <1>4, <1>5 DEF Newly
<1> QED
  BY <1>6, <1>9, <1>10 DEF Words

LEMMA ReplLoses ==
    ASSUME RemoteInv, ReplInv, ReplLost
    PROVE  ReplInv'
<1>0. PICK taken : taken = hand
  OBVIOUS
<1>1. /\ replPc = "submit" /\ replPc' = "connect" /\ hand' = 0
      /\ Accept("repl", taken, typed[taken]) \/ UNCHANGED remoteVars
      /\ UNCHANGED <<printed, replCursor>> /\ UNCHANGED <<left, result>>
      /\ ownShutdown' = ownShutdown
  BY <1>0 DEF ReplLost, LostSubmission, TerminalOnly
<1>2. /\ taken \in Nat /\ typed[taken] \in Commands \cup {"pending"}
      /\ taken \in 1 .. Len(typed)
  BY <1>0, <1>1, InHand
<1>3. left \in BOOLEAN /\ result \in {"none", "ok", "error"} /\ ownShutdown \in BOOLEAN
  BY DEF ReplInv
<1>4. CASE Accept("repl", taken, typed[taken])
  <2>1. RemoteInv' /\ Grows /\ AcceptedNow("repl", taken, typed[taken])
    BY <1>2, <1>4, AcceptKeeps
  <2>2. /\ QueueTypes' /\ Newly(taken, "unknown")
        /\ \A index \in 1 .. Len(typed) : index # taken =>
              Unchanged(index) \/ \E word \in Words \ {"pending"} : Newly(index, word)
    BY <1>1, <2>1, <1>0, LossIs
  <2>3. ownShutdown' \in BOOLEAN /\ (ownShutdown' => ownShutdown \/ typed[taken] = "shutdown")
    BY <1>1, <1>3
  <2> QED
    BY <1>1, <2>1, <2>2, <2>3, <1>0, RunMoves
<1>5. CASE UNCHANGED remoteVars
  <2>1. /\ RemoteInv' /\ Grows /\ Foreign({"repl"})
    BY <1>5, QuietStep
  <2>2. /\ QueueTypes' /\ Newly(taken, "unknown")
        /\ \A index \in 1 .. Len(typed) : index # taken =>
              Unchanged(index) \/ \E word \in Words \ {"pending"} : Newly(index, word)
    BY <1>1, <2>1, <1>0, LossIs
  <2>3. \A index \in 1 .. Len(typed) :
           Unchanged(index) \/ \E word \in Words \ {"pending"} : Newly(index, word)
    BY <2>2 DEF Words
  <2>4. PrintedUpTo'
    BY <1>1, <2>1, ShownRests
  <2> QED
    BY <1>1, <1>3, <2>1, <2>2, <2>3, <2>4, ReplMoves
<1> QED
  BY <1>1, <1>4, <1>5

LEMMA ConnectKeeps ==
    ASSUME RemoteInv, ReplInv, Connect
    PROVE  ReplInv'
<1>1. /\ replPc = "connect" /\ UNCHANGED remoteVars /\ replCursor' = <<Resumed>>
      /\ printed' = IF replCursor = << >> THEN <<Shown(Resumed, TRUE)>> ELSE printed
      /\ UNCHANGED <<input, said, entered, left, ownShutdown>>
      /\ \/ replPc' = "ended" /\ result' = "error" /\ hand' = 0
         \/ replPc' = "turn" /\ result' = result /\ hand' = hand
  BY DEF Connect, Ends, TerminalOnly
<1>2. /\ RemoteInv' /\ Grows /\ Foreign({"repl"}) /\ store' = store
  BY <1>1, QuietStep
<1>3. /\ hand = 0 /\ left \in BOOLEAN /\ result \in {"none", "ok", "error"}
      /\ store.position \in Nat
  BY <1>1, <1>2 DEF ReplInv, Grows
<1>4. hand' = hand /\ ownShutdown' = ownShutdown /\ (left => left') /\ left' \in BOOLEAN
  BY <1>1, <1>3
<1>5. QueueTypes' /\ \A index \in 1 .. Len(typed) :
         Unchanged(index) \/ \E word \in Words \ {"pending"} : Newly(index, word)
  BY <1>1, <1>2, <1>4, QueueRests
<1>6. PrintedUpTo'
  <2>1. CASE replCursor = << >>
    <3>1. PICK p : p = store.position
      OBVIOUS
    <3>2. PICK first : first = Shown(p, TRUE)
      OBVIOUS
    <3>3. first \in Showns /\ first.position = p
      BY <1>3, <3>1, <3>2 DEF Shown, Showns
    <3>4. replCursor' = <<p>> /\ printed' = <<first>>
      BY <1>1, <2>1, <3>1, <3>2 DEF Resumed
    <3>5. /\ <<first>> \in Seq(Showns) /\ Len(<<first>>) = 1 /\ <<first>> # << >>
          /\ <<first>>[1] = first /\ <<p>> # << >> /\ <<p>>[1] = p
      BY <3>3
    <3>6. InOrder(<<first>>)
      BY <3>5 DEF InOrder
    <3>7. p \in 0 .. store'.position
      BY <1>2, <1>3, <3>1
    <3>8. replCursor'[1] = p /\ printed'[Len(printed')].position = p
      BY <3>3, <3>4, <3>5
    <3>9. InOrder(printed)'
      BY <3>4, <3>6 DEF InOrder
    <3> QED
      BY <3>4, <3>5, <3>7, <3>8, <3>9 DEF PrintedUpTo
  <2>2. CASE replCursor # << >>
    <3>1. replCursor = <<replCursor[1]>>
      BY <2>2 DEF ReplInv, PrintedUpTo
    <3>2. replCursor' = <<replCursor[1]>> /\ printed' = printed
      BY <1>1, <2>2 DEF Resumed
    <3>3. UNCHANGED <<printed, replCursor>>
      BY <3>1, <3>2
    <3> QED
      BY <1>2, <3>3, ShownRests
  <2> QED
    BY <2>1, <2>2
<1>7. replCursor' # << >>
  BY <1>1
<1> QED
  BY <1>1, <1>2, <1>3, <1>4, <1>5, <1>6, <1>7, ReplMoves

\* What the cursor stands on.
LEMMA CursorIs ==
    ASSUME RemoteInv, ReplInv, replCursor # << >>
    PROVE  /\ replCursor[1] \in Nat /\ replCursor[1] <= store.position
           /\ store.position \in Nat /\ store.floor \in Nat /\ store.floor <= store.position
           /\ printed \in Seq(Showns) /\ InOrder(printed) /\ printed # << >>
           /\ printed[Len(printed)].position = replCursor[1]
<1>1. /\ store.position \in Nat /\ store.floor \in Nat /\ store.floor <= store.position
  BY DEF RemoteInv, RemoteTypes, IsLog, LogOf
<1> QED
  BY <1>1 DEF ReplInv, PrintedUpTo

\* What is shown behind the rest, up to a position.
LEMMA ShowsUpTo ==
    ASSUME RemoteInv, ReplInv, store' = store, replCursor # << >>, NEW more \in Seq(Showns),
           InOrder(more),
           more # << >> => IF more[1].isGap THEN more[1].position > replCursor[1]
                           ELSE more[1].position = replCursor[1] + 1,
           NEW p, p \in 0 .. store.position,
           p = IF more = << >> THEN replCursor[1] ELSE more[Len(more)].position,
           replCursor' = <<p>>, printed' = printed \o more
    PROVE  PrintedUpTo'
<1>1. PICK last : last = replCursor[1]
  OBVIOUS
<1>2. /\ printed \in Seq(Showns) /\ InOrder(printed) /\ printed # << >>
      /\ last = printed[Len(printed)].position
  BY <1>1, CursorIs
<1>3. PICK shown : shown = printed \o more
  OBVIOUS
<1>4. /\ InOrder(shown) /\ shown \in Seq(Showns) /\ shown # << >>
      /\ shown[Len(shown)].position = IF more = << >> THEN last ELSE more[Len(more)].position
  BY <1>1, <1>2, <1>3, ShowsMore
<1>5. printed' = shown
  BY <1>3
<1>6. InOrder(printed)'
  BY <1>4, <1>5 DEF InOrder
<1>7. shown[Len(shown)].position = p
  BY <1>1, <1>4
<1>8. replCursor'[1] = p /\ replCursor' # << >> /\ replCursor' = <<replCursor'[1]>>
  OBVIOUS
<1>9. replCursor'[1] \in 0 .. store'.position
  BY <1>8
<1> QED
  BY <1>4, <1>5, <1>6, <1>7, <1>8, <1>9 DEF PrintedUpTo

LEMMA GapKeeps ==
    ASSUME RemoteInv, ReplInv, ReplGap
    PROVE  ReplInv'
<1>0. PICK p : p = store.floor
  OBVIOUS
<1>1. /\ replPc = "poll" /\ replPc' = "gap" /\ replCursor[1] < p
      /\ printed' = Append(printed, Shown(p, TRUE)) /\ replCursor' = <<p>>
      /\ UNCHANGED remoteVars /\ UNCHANGED <<input, entered, said, hand>>
      /\ UNCHANGED <<ownShutdown, left, result>>
  BY <1>0 DEF ReplGap, IsGap, TerminalOnly
<1>2. /\ RemoteInv' /\ Grows /\ Foreign({"repl"}) /\ store' = store
  BY <1>1, QuietStep
<1>3. /\ hand = 0 /\ replCursor # << >> /\ left \in BOOLEAN
      /\ result \in {"none", "ok", "error"}
  BY <1>1 DEF ReplInv
<1>4. QueueTypes' /\ \A index \in 1 .. Len(typed) :
         Unchanged(index) \/ \E word \in Words \ {"pending"} : Newly(index, word)
  BY <1>1, <1>2, QueueRests
<1>5. PrintedUpTo'
  <2>1. PICK gap : gap = Shown(p, TRUE)
    OBVIOUS
  <2>2. /\ replCursor[1] \in Nat /\ store.position \in Nat /\ p \in Nat /\ p <= store.position
        /\ printed \in Seq(Showns)
    BY <1>0, <1>3, CursorIs
  <2>3. gap \in Showns /\ gap.position = p /\ gap.isGap
    BY <2>1, <2>2 DEF Shown, Showns
  <2>4. printed' = printed \o <<gap>>
    BY <1>1, <2>1, <2>2, <2>3, AppendIsConcat
  <2>5. /\ <<gap>> \in Seq(Showns) /\ Len(<<gap>>) = 1 /\ <<gap>> # << >> /\ <<gap>>[1] = gap
    BY <2>3
  <2>6. InOrder(<<gap>>)
    BY <2>5 DEF InOrder
  <2>7. p \in 0 .. store.position
    BY <2>2
  <2>8. IF <<gap>>[1].isGap THEN <<gap>>[1].position > replCursor[1]
        ELSE <<gap>>[1].position = replCursor[1] + 1
    BY <1>1, <2>2, <2>3, <2>5
  <2>9. p = IF <<gap>> = << >> THEN replCursor[1] ELSE <<gap>>[Len(<<gap>>)].position
    BY <2>3, <2>5
  <2>10. PICK more : more = <<gap>>
    OBVIOUS
  <2> QED
    BY <1>1, <1>2, <1>3, <2>4, <2>5, <2>6, <2>7, <2>8, <2>9, <2>10, ShowsUpTo
<1>6. replCursor' # << >>
  BY <1>1
<1> QED
  BY <1>1, <1>2, <1>3, <1>4, <1>5, <1>6, ReplMoves

LEMMA FollowKeeps ==
    ASSUME RemoteInv, ReplInv, ReplNews
    PROVE  ReplInv'
<1>0. PICK news : news = News(store, replCursor[1])
  OBVIOUS
<1>1. PICK p : p = store.position
  OBVIOUS
<1>2. /\ replPc = "poll" /\ ~IsGap(store, replCursor[1]) /\ replCursor' = <<p>>
      /\ printed' = printed \o [i \in DOMAIN news |-> Shown(news[i].position, FALSE)]
      /\ UNCHANGED remoteVars /\ UNCHANGED <<input, entered, said>>
      /\ ownShutdown' = ownShutdown /\ left' = left
      /\ \/ replPc' = "turn" /\ result' = result /\ hand' = hand
         \/ /\ replPc' = "ended" /\ hand' = 0
            /\ result' = IF EndIn(news) = {"Ended"} /\ ownShutdown THEN "ok" ELSE "error"
  BY <1>0, <1>1 DEF ReplNews, TerminalOnly, Ends
<1>3. /\ RemoteInv' /\ Grows /\ Foreign({"repl"}) /\ store' = store /\ life' = life
  BY <1>2, QuietStep
<1>4. /\ hand = 0 /\ replCursor # << >> /\ left \in BOOLEAN
      /\ result \in {"none", "ok", "error"}
  BY <1>2 DEF ReplInv
<1>5. hand' = hand
  BY <1>2, <1>4
<1>6. QueueTypes' /\ \A index \in 1 .. Len(typed) :
         Unchanged(index) \/ \E word \in Words \ {"pending"} : Newly(index, word)
  BY <1>2, <1>3, <1>5, QueueRests
<1>7. PICK last : last = replCursor[1]
  OBVIOUS
<1>8. /\ last \in Nat /\ last <= p /\ p \in Nat
  BY <1>1, <1>4, <1>7, CursorIs
<1>9. /\ news \in Seq(Stored) /\ Len(news) = p - last
      /\ \A i \in 1 .. Len(news) : news[i].position = last + i /\ Truthful(news[i].what)
  BY <1>0, <1>1, <1>2, <1>7, <1>8, NewsAreTrue
<1>10. DOMAIN news = 1 .. Len(news) /\ Len(news) \in Nat
  BY <1>9
<1>11. PICK more : more = [i \in 1 .. Len(news) |-> Shown(news[i].position, FALSE)]
  OBVIOUS
<1>12. /\ \A i \in 1 .. Len(news) : more[i] = Shown(last + i, FALSE)
       /\ DOMAIN more = 1 .. Len(news)
  BY <1>9, <1>11
<1>13. \A i \in 1 .. Len(news) : /\ more[i] \in Showns /\ more[i].position = last + i
                                 /\ ~more[i].isGap
  <2>. TAKE i \in 1 .. Len(news)
  <2>1. last + i \in Nat
    BY <1>8, <1>10
  <2>2. more[i] = [position |-> last + i, isGap |-> FALSE]
    BY <1>12 DEF Shown
  <2> QED
    BY <2>1, <2>2 DEF Showns
<1>14. more \in Seq(Showns) /\ Len(more) = Len(news)
  <2>1. more = [i \in 1 .. Len(news) |-> more[i]]
    BY <1>11, <1>12
  <2>2. more \in [1 .. Len(news) -> Showns]
    BY <1>13, <2>1
  <2> QED
    BY <1>10, <2>2
<1>15. InOrder(more)
  <2>1. SUFFICES ASSUME NEW i \in 2 .. Len(news)
                 PROVE  ~more[i].isGap /\ more[i].position = more[i - 1].position + 1
    BY <1>14 DEF InOrder
  <2>2. i \in 1 .. Len(news) /\ i - 1 \in 1 .. Len(news) /\ last + i = (last + (i - 1)) + 1
    BY <1>8, <1>10
  <2> QED
    BY <1>13, <2>2
<1>16. more # << >> => ~more[1].isGap /\ more[1].position = last + 1
  <2>1. more # << >> => 1 \in 1 .. Len(news)
    BY <1>10, <1>14, EmptySeq
  <2> QED
    BY <1>13, <2>1
<1>17. p = IF more = << >> THEN last ELSE more[Len(more)].position
  <2>1. CASE more = << >>
    <3>1. Len(news) = 0
      BY <1>14, <2>1
    <3> QED
      BY <1>8, <1>9, <2>1, <3>1
  <2>2. CASE more # << >>
    <3>1. Len(news) # 0
      BY <1>14, <2>2, EmptySeq
    <3>2. Len(news) \in 1 .. Len(news)
      BY <1>10, <3>1
    <3>3. more[Len(more)].position = last + Len(news)
      BY <1>13, <1>14, <3>2
    <3> QED
      BY <1>8, <1>9, <2>2, <3>3
  <2> QED
    BY <2>1, <2>2
<1>18. PrintedUpTo'
  <2>1. printed' = printed \o more /\ p \in 0 .. store.position
    BY <1>1, <1>2, <1>8, <1>10, <1>11
  <2> QED
    BY <1>2, <1>3, <1>4, <1>7, <1>14, <1>15, <1>16, <1>17, <2>1, ShowsUpTo
<1>19. EndIn(news) = {"Ended"} => life = "Ended"
  <2>1. SUFFICES ASSUME EndIn(news) = {"Ended"} PROVE life = "Ended"
    OBVIOUS
  <2>2. "Ended" \in {news[i].what.kind : i \in DOMAIN news}
    BY <2>1 DEF EndIn
  <2>3. PICK i \in 1 .. Len(news) : news[i].what.kind = "Ended"
    BY <1>10, <2>2
  <2> QED
    BY <1>9, <2>3 DEF Truthful
<1>20. /\ left' \in BOOLEAN /\ result' \in {"none", "ok", "error"} /\ (left => left')
       /\ result' = "ok" => result = "ok" \/ (life' = "Ended" /\ ownShutdown)
  <2>1. CASE result' = result
    BY <1>2, <1>4, <2>1
  <2>2. CASE result' = IF EndIn(news) = {"Ended"} /\ ownShutdown THEN "ok" ELSE "error"
    <3>1. CASE EndIn(news) = {"Ended"} /\ ownShutdown
      BY <1>2, <1>3, <1>4, <1>19, <2>2, <3>1
    <3>2. CASE ~(EndIn(news) = {"Ended"} /\ ownShutdown)
      BY <1>2, <1>4, <2>2, <3>2
    <3> QED
      BY <3>1, <3>2
  <2> QED
    BY <1>2, <2>1, <2>2
<1>21. replCursor' # << >> /\ replPc' \in {"turn", "ended"} /\ hand' = 0
  BY <1>2, <1>4, <1>5
<1> QED
  BY <1>2, <1>3, <1>6, <1>18, <1>20, <1>21, ReplMoves

\* What the REPL does to the session.
LEMMA ReplMovesRemote ==
    ASSUME RemoteInv, ReplInv, ReplStep
    PROVE  Moves({"repl"})
<1>1. CASE ReplAccepted
  <2>1. Accept("repl", hand, typed[hand]) /\ hand \in Nat /\ typed[hand] \in Commands \cup {"pending"}
    BY <1>1, InHand DEF ReplAccepted, Submitted
  <2>2. Submits("repl")
    BY <2>1 DEF Submits
  <2> QED
    BY <2>2 DEF Moves
<1>2. CASE ReplLost
  <2>1. /\ Accept("repl", hand, typed[hand]) \/ UNCHANGED remoteVars
        /\ hand \in Nat /\ typed[hand] \in Commands \cup {"pending"}
    BY <1>2, InHand DEF ReplLost, LostSubmission
  <2>2. Submits("repl") \/ UNCHANGED remoteVars
    BY <2>1 DEF Submits
  <2> QED
    BY <2>2 DEF Moves
<1>3. CASE EnterInput \/ Quit \/ Stops \/ Connect \/ ConnectFails \/ TurnedAway \/ Backoff
           \/ NoInput \/ TakeInput \/ SnapshotFails \/ ReplRefused \/ ReplNews \/ ReplGap \/ AfterGap
           \/ ReplPollFails
  <2>1. UNCHANGED remoteVars
    BY <1>3 DEF EnterInput, Quit, Stops, Connect, ConnectFails, TurnedAway, Backoff, NoInput,
                TakeInput, SnapshotFails, ReplRefused, ReplNews, ReplGap, AfterGap, ReplPollFails
  <2> QED
    BY <2>1 DEF Moves
<1> QED
  BY <1>1, <1>2, <1>3 DEF ReplStep

LEMMA ReplKeeps ==
    ASSUME RemoteInv, ReplInv, ReplStep
    PROVE  ReplInv'
BY EnterKeeps, IdleStepsKeep, BreaksKeep, ConnectKeeps, TakeKeeps, ReplAccepts, DenyKeeps,
   ReplLoses, FollowKeeps, GapKeeps DEF ReplStep

LEMMA ReplStarts ==
    ASSUME RemoteInv, accepted = << >>, ReplInit
    PROVE  ReplInv
<1>1. typed \in Seq(Commands \cup {"pending"}) /\ Len(typed) \in Nat /\ Inputs = 1 .. Len(typed)
  BY SettingIs DEF RemoteInv, RemoteTypes, Inputs
<1>2. /\ entered = 0 /\ input = << >> /\ hand = 0 /\ replPc \in {"ended", "connect"}
      /\ replCursor = << >> /\ ownShutdown = FALSE /\ left = FALSE
      /\ said = [index \in 1 .. Len(typed) |-> << >>]
      /\ printed = << >> /\ result = "none"
  BY <1>1 DEF ReplInit
<1>3. Len(accepted) = 0 /\ OurRuns = {}
  BY DEF OurRuns
<1>4. QueueTypes
  <2>1. << >> \in Seq(Words) /\ << >> \in Seq(1 .. 0) /\ Len(<< >>) = 0
    OBVIOUS
  <2> QED
    BY <1>1, <1>2, <2>1 DEF QueueTypes
<1>5. SaidOnce
  <2>1. \A index \in 1 .. Len(typed) : Len(said[index]) = 0 /\ ~(index <= entered)
    BY <1>1, <1>2
  <2> QED
    BY <2>1 DEF SaidOnce
<1>6. SaidTruly
  <2>1. \A index \in 1 .. Len(typed) : Len(said[index]) = 0
    BY <1>2
  <2> QED
    BY <1>3, <2>1 DEF SaidTruly
<1>7. PrintedUpTo
  BY <1>2 DEF PrintedUpTo, InOrder
<1> QED
  BY <1>2, <1>4, <1>5, <1>6, <1>7 DEF ReplInv

\* The invariant says what the REPL promises.
LEMMA WordOfRepl ==
    ASSUME RemoteInv, ReplInv
    PROVE  ReplKeepsItsWord
<1>1. /\ typed \in Seq(Commands \cup {"pending"}) /\ Len(typed) \in Nat
      /\ Inputs = 1 .. Len(typed) /\ DOMAIN accepted = 1 .. Len(accepted)
      /\ said \in [1 .. Len(typed) -> Seq(Words)] /\ Len(accepted) \in Nat
      /\ entered \in 0 .. Len(typed)
  BY SettingIs DEF RemoteInv, RemoteTypes, Inputs, ReplInv, QueueTypes
<1>2. ASSUME NEW index \in Inputs
      PROVE  /\ Cardinality(Runs(index)) <= 1
             /\ Range(said[index]) \cap Denials # {} => Runs(index) = {}
             /\ Range(said[index]) \cap {"pending"} # {} => Runs(index) # {}
             /\ Len(said[index]) = (IF index <= entered /\ ~Waits(index) THEN 1 ELSE 0)
  <2>1. Runs(index) = {id \in OurRuns : accepted[id].index = index}
    BY <1>1 DEF Runs, OurRuns
  <2>2. Runs(index) \subseteq Nat /\ \A id, other \in Runs(index) : id = other
    BY <2>1 DEF ReplInv, SaidTruly, OurRuns
  <2>3. Cardinality(Runs(index)) <= 1
    BY <1>1, <2>2, AtMostOne
  <2>4. said[index] \in Seq(Words)
    BY <1>1
  <2>5. Len(said[index]) = (IF index <= entered /\ ~Waits(index) THEN 1 ELSE 0)
    BY <1>1 DEF ReplInv, SaidOnce
  <2>6. ASSUME NEW word \in Range(said[index])
        PROVE  \E i \in 1 .. Len(said[index]) : said[index][i] = word /\ i = 1
    <3>1. PICK i \in 1 .. Len(said[index]) : said[index][i] = word
      BY <2>4, RangeIs
    <3>2. i = 1
      BY <2>5
    <3> QED
      BY <3>1, <3>2
  <2>7. ASSUME NEW word \in Denials, word \in Range(said[index])
        PROVE  Runs(index) = {}
    <3>1. said[index][1] = word
      BY <2>6, <2>7
    <3>2. word \notin {"pending", "unknown"}
      BY DEF Denials
    <3>3. \A id \in OurRuns : accepted[id].index = index => said[index][1] \in {"pending", "unknown"}
      BY DEF ReplInv, SaidTruly
    <3> QED
      BY <2>1, <3>1, <3>2, <3>3
  <2>8. ASSUME "pending" \in Range(said[index])
        PROVE  Runs(index) # {}
    <3>1. PICK i \in 1 .. Len(said[index]) : said[index][i] = "pending"
      BY <2>6, <2>8
    <3>2. \E id \in OurRuns : accepted[id].index = index
      BY <1>1, <3>1 DEF ReplInv, SaidTruly
    <3> QED
      BY <2>1, <3>2
  <2> QED
    BY <2>3, <2>5, <2>7, <2>8
<1>3. result = "ok" => left \/ (life = "Ended" /\ \E index \in Inputs :
                                  typed[index] = "shutdown" /\ Runs(index) # {})
  <2>1. SUFFICES ASSUME RanShutdown
                 PROVE  \E index \in Inputs : typed[index] = "shutdown" /\ Runs(index) # {}
    BY DEF ReplInv
  <2>2. PICK id \in OurRuns : accepted[id].kind = "shutdown"
    BY <2>1 DEF RanShutdown
  <2>3. PICK index : index = accepted[id].index
    OBVIOUS
  <2>4. index \in 1 .. entered /\ accepted[id].kind = typed[index]
    BY <2>3 DEF ReplInv, SaidTruly
  <2>5. index \in Inputs
    BY <1>1, <2>4
  <2>6. id \in Runs(index)
    BY <1>1, <2>3 DEF Runs, OurRuns
  <2> QED
    BY <2>2, <2>4, <2>5, <2>6
<1>4. \A i \in DOMAIN printed : i > 1 =>
         \/ printed[i].isGap /\ printed[i].position > printed[i - 1].position
         \/ ~printed[i].isGap /\ printed[i].position = printed[i - 1].position + 1
  <2>1. printed \in Seq(Showns) /\ InOrder(printed)
    BY DEF ReplInv, PrintedUpTo
  <2>2. DOMAIN printed = 1 .. Len(printed) /\ Len(printed) \in Nat
    BY <2>1
  <2>. TAKE i \in DOMAIN printed
  <2>. HAVE i > 1
  <2>3. i \in 2 .. Len(printed)
    BY <2>2
  <2> QED
    BY <2>1, <2>3 DEF InOrder
<1> QED
  BY <1>2, <1>3, <1>4 DEF ReplKeepsItsWord

-----------------------------------------------------------------------------
(* The workers *)

LEMMA WorkersAre ==
    ASSUME setting \in Settings
    PROVE  /\ Workers = 1 .. Len(setting.jobs)
           /\ \A w \in Workers : setting.jobs[w] \in Seq(Signatures)
BY SettingIs

\* The job a worker is at.
LEMMA JobIs ==
    ASSUME setting \in Settings, ReportInv, NEW w \in Workers, ~At(w, "idle")
    PROVE  /\ job[w] \in 1 .. Len(setting.jobs[w]) /\ job[w] \in Nat
           /\ Signature(w) \in Signatures /\ Len(published[w]) = job[w] - 1
<1>1. Placed(w) /\ setting.jobs[w] \in Seq(Signatures)
  BY WorkersAre DEF ReportInv
<1>2. job[w] \in 1 .. Len(setting.jobs[w]) /\ Len(published[w]) = job[w] - 1
  BY <1>1 DEF Placed
<1>3. setting.jobs[w][job[w]] \in Signatures
  BY <1>1, <1>2, ElementOfSeq
<1> QED
  BY <1>2, <1>3 DEF Signature

\* Only this worker's places change; reports and issues stay, and so do the files of another
\* program, and what is cancelled.
Alone(w) ==
    /\ setting' = setting
    /\ \A v \in Workers : v # w =>
          /\ workPc'[v] = workPc[v] /\ job'[v] = job[v] /\ temporary'[v] = temporary[v]
          /\ created'[v] = created[v] /\ published'[v] = published[v]
    /\ \A s \in Signatures : files[s] = "whole" => files'[s] = "whole"
    /\ \A s \in theirs' : files'[s] = "foreign"
    /\ \A s \in Signatures : issues[s] > 0 => issues'[s] > 0
    /\ \A v \in Workers : (reportCancel[v] => reportCancel'[v]) /\ (incomplete[v] => incomplete'[v])

LEMMA SameJob ==
    ASSUME NEW v, setting' = setting, job'[v] = job[v]
    PROVE  Signature(v)' = Signature(v)
BY DEF Signature

LEMMA PlacesStay ==
    ASSUME setting \in Settings, ReportInv, NEW w, Alone(w), NEW v \in Workers, v # w
    PROVE  Placed(v)'
<1>1. /\ setting' = setting /\ workPc'[v] = workPc[v] /\ job'[v] = job[v]
      /\ temporary'[v] = temporary[v] /\ created'[v] = created[v]
      /\ published'[v] = published[v]
  BY DEF Alone
<1>2. Placed(v)
  BY DEF ReportInv
<1>3. workPc[v] = "remove" => files'[setting.jobs[v][job[v]]] = "whole"
  <2>1. SUFFICES ASSUME workPc[v] = "remove"
                 PROVE  files'[Signature(v)] = "whole"
    BY DEF Signature
  <2>2. Signature(v) \in Signatures
    BY <2>1, JobIs DEF At
  <2>3. files[Signature(v)] = "whole"
    BY <1>2, <2>1 DEF Placed, At
  <2> QED
    BY <2>2, <2>3 DEF Alone
<1> QED
  BY <1>1, <1>2, <1>3 DEF Placed, At, May, Signature

LEMMA TruthStays ==
    ASSUME NEW w, Alone(w), NEW v \in Workers,
           NEW r \in [signature : Signatures, status : Statuses], ResultIsTrue(v, r)
    PROVE  ResultIsTrue(v, r)'
<1>1. r.signature \in Signatures
  OBVIOUS
<1>2. files[r.signature] = "whole" => files'[r.signature] = "whole"
  BY <1>1 DEF Alone
<1>3. issues[r.signature] > 0 => issues'[r.signature] > 0
  BY <1>1 DEF Alone
<1>4. reportCancel[v] /\ incomplete[v] => reportCancel'[v] /\ incomplete'[v]
  BY DEF Alone
<1> QED
  BY <1>2, <1>3, <1>4 DEF ResultIsTrue

\* A worker leaves every file alone that there is.
LEMMA FilesStay ==
    ASSUME ReportInv, theirs' = theirs,
           \A s \in Signatures : files[s] # "none" => files'[s] = files[s]
    PROVE  /\ \A s \in Signatures : files[s] = "whole" => files'[s] = "whole"
           /\ \A s \in theirs' : files'[s] = "foreign"
BY DEF ReportInv, ReportTypes

\* A worker creates what was not there; what is created is whole.
LEMMA CreatedAreWhole ==
    ASSUME setting \in Settings, ReportInv, NEW v \in Workers
    PROVE  /\ Creates(v) => files[Signature(v)] = "whole"
           /\ \A i \in 1 .. Len(published[v]) :
                 IsCreated(v, i) => files[published[v][i].signature] = "whole"
BY DEF ReportInv, Placed, Creates, IsCreated, ResultIsTrue

\* What was published is a result, and is true.
LEMMA ResultIs ==
    ASSUME ReportInv, NEW v \in Workers, NEW i \in 1 .. Len(published[v])
    PROVE  /\ published[v][i] \in [signature : Signatures, status : Statuses]
           /\ ResultIsTrue(v, published[v][i])
<1>1. published[v] \in Seq([signature : Signatures, status : Statuses])
  BY DEF ReportInv, ReportTypes
<1>2. published[v][i] \in [signature : Signatures, status : Statuses]
  BY <1>1, ElementOfSeq
<1> QED
  BY <1>2 DEF ReportInv

\* A worker goes on without a result.
LEMMA GoesOnKeeps ==
    ASSUME setting \in Settings, ReportInv, NEW w \in Workers, Alone(w), ReportTypes',
           published' = published, Placed(w)',
           Creates(w)' => job'[w] = job[w] /\ (Creates(w) \/ files[Signature(w)] = "none")
    PROVE  ReportInv'
<1>1. setting' = setting /\ Workers' = Workers
  BY DEF Alone, Workers
<1>2. \A v \in Workers : Placed(v)'
  BY PlacesStay
<1>3. (\A v \in Workers : \A i \in 1 .. Len(published[v]) : ResultIsTrue(v, published[v][i]))'
  <2>1. SUFFICES ASSUME NEW v \in Workers, NEW i \in 1 .. Len(published[v])
                 PROVE  (ResultIsTrue(v, published[v][i]))'
    BY <1>1
  <2>2. PICK r : r = published[v][i]
    OBVIOUS
  <2>3. r \in [signature : Signatures, status : Statuses] /\ ResultIsTrue(v, r)
    BY <2>2, ResultIs
  <2>4. ResultIsTrue(v, r)'
    BY <2>3, TruthStays
  <2>5. r = published'[v][i]
    BY <2>2
  <2> QED
    BY <2>4, <2>5 DEF ResultIsTrue
<1>4. ASSUME NEW v \in Workers, Creates(v)'
      PROVE  /\ Signature(v)' = Signature(v)
             /\ Creates(v) \/ (v = w /\ files[Signature(v)] = "none")
  <2>1. CASE v = w
    BY <1>1, <1>4, <2>1, SameJob
  <2>2. CASE v # w
    <3>1. workPc'[v] = workPc[v] /\ job'[v] = job[v] /\ created'[v] = created[v]
      BY <2>2 DEF Alone
    <3> QED
      BY <1>1, <1>4, <3>1, SameJob DEF Creates, At
  <2> QED
    BY <2>1, <2>2
<1>5. CreatedOnce'
  <2>1. ASSUME NEW u \in Workers, NEW v \in Workers, Creates(u)', Creates(v)',
               Signature(u)' = Signature(v)'
        PROVE  u = v
    <3>1. /\ Creates(u) => files[Signature(u)] = "whole"
          /\ Creates(v) => files[Signature(v)] = "whole"
      BY CreatedAreWhole
    <3>2. Signature(u) = Signature(v)
      BY <1>4, <2>1
    <3>3. Creates(u) /\ Creates(v) => u = v
      BY <3>2 DEF ReportInv, CreatedOnce
    <3> QED
      BY <1>4, <2>1, <3>1, <3>2, <3>3
  <2>2. ASSUME NEW u \in Workers, NEW v \in Workers, NEW i \in 1 .. Len(published[v]),
               Creates(u)', IsCreated(v, i)
        PROVE  published[v][i].signature # Signature(u)'
    <3>1. files[published[v][i].signature] = "whole"
      BY <2>2, CreatedAreWhole
    <3>2. Creates(u) => published[v][i].signature # Signature(u)
      BY <2>2 DEF ReportInv, CreatedOnce
    <3> QED
      BY <1>4, <2>2, <3>1, <3>2
  <2>3. \A v \in Workers : \A i \in 1 .. Len(published[v]) :
           IsCreated(v, i)' <=> IsCreated(v, i)
    BY DEF IsCreated
  <2>4. \A u, v \in Workers :
           \A i \in 1 .. Len(published[u]), j \in 1 .. Len(published[v]) :
              /\ IsCreated(u, i) /\ IsCreated(v, j)
              /\ published[u][i].signature = published[v][j].signature
              => u = v /\ i = j
    BY DEF ReportInv, CreatedOnce
  <2> QED
    BY <1>1, <2>1, <2>2, <2>3, <2>4 DEF CreatedOnce
<1>6. (\A s \in theirs : files[s] = "foreign")'
  BY DEF Alone
<1> QED
  BY <1>1, <1>2, <1>3, <1>5, <1>6 DEF ReportInv

\* A worker goes on to the next job, with a result that is so.
LEMMA PublishKeeps ==
    ASSUME setting \in Settings, ReportInv, NEW w \in Workers, ~At(w, "idle"),
           NEW status \in Statuses, Publish(w, status),
           UNCHANGED <<job, created, files, reportCancel>>,
           temporary' \in [Workers -> {"none", "partial", "whole"}],
           \A v \in Workers : v # w => temporary'[v] = temporary[v],
           ~May("io") => temporary'[w] = "none",
           issues' \in [Signatures -> Nat],
           \A s \in Signatures : issues[s] > 0 => issues'[s] > 0,
           status \in {"created", "existing", "fallback"} => files[Signature(w)] = "whole",
           status \in {"createdIssue", "existingIssue"} => issues'[Signature(w)] > 0,
           status = "interrupted" => reportCancel[w],
           status = "created" => Creates(w)
    PROVE  ReportInv'
<1>0. PICK r : r = [signature |-> Signature(w), status |-> status]
  OBVIOUS
<1>1. /\ published' = [published EXCEPT ![w] = Append(published[w], r)]
      /\ incomplete' = [incomplete EXCEPT ![w] = incomplete[w] \/ status = "interrupted"]
      /\ declined' = [declined EXCEPT ![w] = FALSE]
      /\ workPc' = [workPc EXCEPT ![w] = "idle"]
      /\ setting' = setting /\ theirs' = theirs
  BY <1>0 DEF Publish, Goes
<1>2. Workers' = Workers
  BY <1>1 DEF Workers
<1>3. ReportTypes
  BY DEF ReportInv
<1>4. /\ job[w] \in 1 .. Len(setting.jobs[w]) /\ job[w] \in Nat
      /\ Signature(w) \in Signatures /\ Len(published[w]) = job[w] - 1
  BY JobIs
<1>5. r \in [signature : Signatures, status : Statuses]
  BY <1>0, <1>4
<1>6. /\ published' \in [Workers -> Seq([signature : Signatures, status : Statuses])]
      /\ Len(published[w]) \in Nat
      /\ Len(published'[w]) = Len(published[w]) + 1
      /\ \A i \in 1 .. Len(published[w]) : published'[w][i] = published[w][i]
      /\ published'[w][Len(published[w]) + 1] = r
      /\ \A v \in Workers : v # w => published'[v] = published[v]
  <2>1. published[w] \in Seq([signature : Signatures, status : Statuses])
    BY <1>3 DEF ReportTypes
  <2>2. PICK more : more = Append(published[w], r)
    OBVIOUS
  <2>3. /\ more \in Seq([signature : Signatures, status : Statuses])
        /\ Len(more) = Len(published[w]) + 1
        /\ \A i \in 1 .. Len(published[w]) : more[i] = published[w][i]
        /\ more[Len(published[w]) + 1] = r
    BY <1>5, <2>1, <2>2, AppendIs
  <2>4. published' = [published EXCEPT ![w] = more]
    BY <1>1, <2>2
  <2>5. published \in [Workers -> Seq([signature : Signatures, status : Statuses])]
    BY <1>3 DEF ReportTypes
  <2>6. /\ published' \in [Workers -> Seq([signature : Signatures, status : Statuses])]
        /\ published'[w] = more
        /\ \A v \in Workers : v # w => published'[v] = published[v]
    BY <2>3, <2>4, <2>5
  <2>7. Len(published[w]) \in Nat
    BY <2>1
  <2> QED
    BY <2>3, <2>6, <2>7
<1>7. ReportTypes'
  <2>1. /\ workPc' \in [Workers -> Pcs] /\ declined' \in [Workers -> BOOLEAN]
    <3>1. workPc \in [Workers -> Pcs] /\ declined \in [Workers -> BOOLEAN]
      BY <1>3 DEF ReportTypes
    <3>2. "idle" \in Pcs
      BY DEF Pcs
    <3> QED
      BY <1>1, <3>1, <3>2
  <2>2. incomplete' \in [Workers -> BOOLEAN]
    BY <1>1, <1>3 DEF ReportTypes
  <2> QED
    BY <1>1, <1>2, <1>3, <1>6, <2>1, <2>2 DEF ReportTypes
<1>8. workPc'[w] = "idle" /\ \A v \in Workers : v # w => workPc'[v] = workPc[v]
  BY <1>1, <1>3 DEF ReportTypes
<1>9. \A v \in Workers : incomplete[v] => incomplete'[v]
  BY <1>1, <1>3 DEF ReportTypes
<1>10. Alone(w)
  BY <1>1, <1>6, <1>8, <1>9, FilesStay DEF Alone
<1>11. Placed(w)'
  <2>1. job'[w] \in 0 .. Len(setting'.jobs[w]) /\ Len(published'[w]) = job'[w] - 0
    BY <1>1, <1>4, <1>6
  <2>2. ~May("io")' => temporary'[w] = "none"
    BY <1>1 DEF May
  <2> QED
    BY <1>8, <2>1, <2>2 DEF Placed, At
<1>12. \A v \in Workers : Placed(v)'
  BY <1>10, <1>11, PlacesStay
<1>13. ResultIsTrue(w, r)'
  <2>1. r.signature = Signature(w) /\ r.status = status
    BY <1>0
  <2>2. status = "interrupted" => incomplete'[w]
    BY <1>1, <1>3 DEF ReportTypes
  <2>3. PICK s : s = Signature(w)
    OBVIOUS
  <2>4. /\ status \in {"created", "existing", "fallback"} => files'[s] = "whole"
        /\ status \in {"createdIssue", "existingIssue"} => issues'[s] > 0
        /\ r.signature = s
    BY <2>1, <2>3
  <2> QED
    BY <2>1, <2>2, <2>4 DEF ResultIsTrue
<1>14. ASSUME NEW v \in Workers, NEW i \in 1 .. Len(published'[v])
       PROVE  \/ i \in 1 .. Len(published[v]) /\ published'[v][i] = published[v][i]
              \/ v = w /\ i = Len(published[w]) + 1 /\ published'[v][i] = r
  BY <1>6
<1>15. (\A v \in Workers : \A i \in 1 .. Len(published[v]) : ResultIsTrue(v, published[v][i]))'
  <2>1. SUFFICES ASSUME NEW v \in Workers, NEW i \in 1 .. Len(published'[v])
                 PROVE  (ResultIsTrue(v, published[v][i]))'
    BY <1>2
  <2>2. PICK q : q = published'[v][i]
    OBVIOUS
  <2>3. ResultIsTrue(v, q)'
    <3>1. CASE i \in 1 .. Len(published[v]) /\ published'[v][i] = published[v][i]
      <4>1. q = published[v][i]
        BY <2>2, <3>1
      <4>2. q \in [signature : Signatures, status : Statuses] /\ ResultIsTrue(v, q)
        BY <3>1, <4>1, ResultIs
      <4> QED
        BY <1>10, <4>2, TruthStays
    <3>2. CASE v = w /\ i = Len(published[w]) + 1 /\ published'[v][i] = r
      BY <1>13, <2>2, <3>2
    <3> QED
      BY <1>14, <3>1, <3>2
  <2> QED
    BY <2>2, <2>3 DEF ResultIsTrue
<1>16. ASSUME NEW v \in Workers, Creates(v)'
       PROVE  v # w /\ Creates(v) /\ Signature(v)' = Signature(v)
  <2>1. v # w
    BY <1>8, <1>16 DEF Creates, At
  <2> QED
    BY <1>1, <1>8, <1>16, <2>1, SameJob DEF Creates, At
<1>17. r.status = "created" => Creates(w) /\ r.signature = Signature(w)
  BY <1>0
<1>18. CreatedOnce
  BY DEF ReportInv
<1>19. \A u \in Workers, v \in Workers :
          Creates(u)' /\ Creates(v)' /\ Signature(u)' = Signature(v)' => u = v
  BY <1>16, <1>18 DEF CreatedOnce
<1>20. ASSUME NEW u \in Workers, NEW v \in Workers, NEW i \in 1 .. Len(published'[v]),
              Creates(u)', published'[v][i].status = "created"
       PROVE  published'[v][i].signature # Signature(u)'
  <2>1. u # w /\ Creates(u) /\ Signature(u)' = Signature(u)
    BY <1>16, <1>20
  <2>2. CASE i \in 1 .. Len(published[v]) /\ published'[v][i] = published[v][i]
    BY <1>18, <1>20, <2>1, <2>2 DEF CreatedOnce, IsCreated
  <2>3. CASE v = w /\ i = Len(published[w]) + 1 /\ published'[v][i] = r
    BY <1>17, <1>18, <1>20, <2>1, <2>3 DEF CreatedOnce
  <2> QED
    BY <1>14, <2>2, <2>3
<1>21. ASSUME NEW u \in Workers, NEW v \in Workers, NEW i \in 1 .. Len(published'[u]),
              NEW j \in 1 .. Len(published'[v]),
              published'[u][i].status = "created", published'[v][j].status = "created",
              published'[u][i].signature = published'[v][j].signature
       PROVE  u = v /\ i = j
  <2>1. CASE /\ i \in 1 .. Len(published[u]) /\ published'[u][i] = published[u][i]
             /\ j \in 1 .. Len(published[v]) /\ published'[v][j] = published[v][j]
    BY <1>18, <1>21, <2>1 DEF CreatedOnce, IsCreated
  <2>2. CASE /\ i \in 1 .. Len(published[u]) /\ published'[u][i] = published[u][i]
             /\ v = w /\ published'[v][j] = r
    <3>1. Creates(w) /\ published[u][i].signature = Signature(w)
      BY <1>17, <1>21, <2>2
    <3> QED
      BY <1>18, <1>21, <2>2, <3>1 DEF CreatedOnce, IsCreated
  <2>3. CASE /\ j \in 1 .. Len(published[v]) /\ published'[v][j] = published[v][j]
             /\ u = w /\ published'[u][i] = r
    <3>1. Creates(w) /\ published[v][j].signature = Signature(w)
      BY <1>17, <1>21, <2>3
    <3> QED
      BY <1>18, <1>21, <2>3, <3>1 DEF CreatedOnce, IsCreated
  <2> QED
    BY <1>14, <2>1, <2>2, <2>3
<1>22. CreatedOnce'
  BY <1>2, <1>19, <1>20, <1>21 DEF CreatedOnce, IsCreated
<1>23. (\A s \in theirs : files[s] = "foreign")'
  BY <1>10 DEF Alone
<1> QED
  BY <1>2, <1>7, <1>12, <1>15, <1>22, <1>23 DEF ReportInv

\* A worker goes on with its job.
LEMMA MovesOnKeeps ==
    ASSUME setting \in Settings, ReportInv, NEW w \in Workers, ~At(w, "idle"),
           NEW pc \in Pcs \ {"idle"}, Goes(w, pc),
           UNCHANGED <<setting, theirs, job, published, incomplete, reportCancel>>,
           declined' \in [Workers -> BOOLEAN],
           temporary' \in [Workers -> {"none", "partial", "whole"}],
           \A v \in Workers : v # w => temporary'[v] = temporary[v],
           created' \in [Workers -> BOOLEAN],
           \A v \in Workers : v # w => created'[v] = created[v],
           files' \in [Signatures -> {"none", "foreign", "partial", "whole"}],
           \A s \in Signatures : files[s] # "none" => files'[s] = files[s],
           issues' \in [Signatures -> Nat],
           \A s \in Signatures : issues[s] > 0 => issues'[s] > 0,
           pc = "link" => temporary'[w] = "whole",
           pc = "recheck" => ~created'[w],
           pc = "remove" => files'[Signature(w)] = "whole",
           pc = "remove" /\ created'[w] => files[Signature(w)] = "none",
           pc \in {"begin", "search", "publish", "look"} /\ ~May("io") => temporary'[w] = "none"
    PROVE  ReportInv'
<1>1. ReportTypes /\ Workers' = Workers
  BY DEF ReportInv, Workers
<1>2. /\ workPc' \in [Workers -> Pcs] /\ workPc'[w] = pc
      /\ \A v \in Workers : v # w => workPc'[v] = workPc[v]
  <2>1. workPc \in [Workers -> Pcs] /\ workPc' = [workPc EXCEPT ![w] = pc] /\ pc \in Pcs
    BY <1>1 DEF Goes, ReportTypes
  <2> QED
    BY <2>1
<1>3. ReportTypes'
  BY <1>1, <1>2 DEF ReportTypes
<1>4. Alone(w)
  BY <1>2, FilesStay DEF Alone
<1>5. /\ job[w] \in 1 .. Len(setting.jobs[w]) /\ Len(published[w]) = job[w] - 1
  BY JobIs
<1>6. files'[Signature(w)] = "whole" => files'[setting.jobs[w][job[w]]] = "whole"
  BY DEF Signature
<1>7. pc # "idle"
  OBVIOUS
<1>8. Placed(w)'
  BY <1>2, <1>5, <1>6, <1>7 DEF Placed, At, May, Signature
<1>9. Creates(w)' => job'[w] = job[w] /\ (Creates(w) \/ files[Signature(w)] = "none")
  BY <1>2 DEF Creates, At
<1> QED
  BY <1>3, <1>4, <1>8, <1>9, GoesOnKeeps

LEMMA TakeJobKeeps ==
    ASSUME setting \in Settings, ReportInv, NEW w \in Workers, TakeJob(w)
    PROVE  ReportInv'
<1>1. /\ At(w, "idle") /\ job[w] < Len(setting.jobs[w]) /\ job' = [job EXCEPT ![w] = job[w] + 1]
      /\ workPc' = [workPc EXCEPT ![w] = "begin"] /\ setting' = setting
      /\ UNCHANGED <<published, incomplete, declined, temporary, created, files, theirs, issues,
                     reportCancel>>
  BY DEF TakeJob, Continues, Goes, remoteVars
<1>2. ReportTypes /\ Workers' = Workers /\ Placed(w) /\ setting.jobs[w] \in Seq(Signatures)
  BY <1>1, WorkersAre DEF ReportInv, Workers
<1>3. /\ workPc' \in [Workers -> Pcs] /\ workPc'[w] = "begin"
      /\ \A v \in Workers : v # w => workPc'[v] = workPc[v]
  <2>1. workPc \in [Workers -> Pcs] /\ "begin" \in Pcs
    BY <1>2 DEF ReportTypes, Pcs
  <2> QED
    BY <1>1, <2>1
<1>4. /\ job' \in [Workers -> Nat] /\ job'[w] = job[w] + 1 /\ job[w] \in Nat
      /\ \A v \in Workers : v # w => job'[v] = job[v]
  <2>1. job \in [Workers -> Nat]
    BY <1>2 DEF ReportTypes
  <2> QED
    BY <1>1, <2>1
<1>5. ReportTypes'
  BY <1>1, <1>2, <1>3, <1>4 DEF ReportTypes
<1>6. Alone(w)
  BY <1>1, <1>3, <1>4, FilesStay DEF Alone
<1>7. /\ Len(published[w]) = job[w] - 0 /\ (~May("io") => temporary[w] = "none")
  BY <1>1, <1>2 DEF Placed, At
<1>8. Len(setting.jobs[w]) \in Nat
  BY <1>2
<1>9. job'[w] \in 1 .. Len(setting.jobs[w]) /\ Len(published[w]) = job'[w] - 1
  BY <1>1, <1>4, <1>7, <1>8
<1>10. Placed(w)'
  BY <1>1, <1>3, <1>7, <1>9 DEF Placed, At, May
<1>11. ~Creates(w)'
  BY <1>3 DEF Creates, At
<1> QED
  BY <1>1, <1>5, <1>6, <1>10, <1>11, GoesOnKeeps

LEMMA CancelKeeps ==
    ASSUME setting \in Settings, ReportInv, NEW w \in Workers, CancelReports(w)
    PROVE  ReportInv'
<1>1. /\ reportCancel' = [reportCancel EXCEPT ![w] = TRUE] /\ setting' = setting
      /\ UNCHANGED <<workPc, job, declined, temporary, created, files, theirs, issues,
                     incomplete, published>>
  BY DEF CancelReports, remoteVars
<1>2. ReportTypes /\ Workers' = Workers /\ Placed(w)
  BY <1>1 DEF ReportInv, Workers
<1>3. reportCancel' \in [Workers -> BOOLEAN]
      /\ \A v \in Workers : reportCancel[v] => reportCancel'[v]
  BY <1>1, <1>2 DEF ReportTypes
<1>4. ReportTypes'
  BY <1>1, <1>2, <1>3 DEF ReportTypes
<1>5. Alone(w)
  BY <1>1, <1>3, FilesStay DEF Alone
<1>6. Placed(w)'
  BY <1>1, <1>2 DEF Placed, At, May, Signature
<1>7. Creates(w)' => Creates(w)
  BY <1>1 DEF Creates, At
<1> QED
  BY <1>1, <1>4, <1>5, <1>6, <1>7, GoesOnKeeps

\* Another program takes and leaves names that hold no report.
LEMMA IntrudesKeeps ==
    ASSUME setting \in Settings, ReportInv, NEW t \in setting.occupied, Intrudes(t)
    PROVE  ReportInv'
<1>1. /\ setting' = setting
      /\ UNCHANGED <<workPc, job, declined, temporary, created, issues, reportCancel,
                     incomplete, published>>
  BY DEF Intrudes, remoteVars
<1>2. ReportTypes /\ Workers' = Workers /\ t \in Signatures
  BY <1>1, SettingIs DEF ReportInv, Workers
<1>3. /\ files' \in [Signatures -> {"none", "foreign", "partial", "whole"}]
      /\ theirs' \subseteq Signatures
      /\ \A s \in Signatures : files[s] = "whole" => files'[s] = "whole"
      /\ \A s \in theirs' : files'[s] = "foreign"
  <2>1. /\ files \in [Signatures -> {"none", "foreign", "partial", "whole"}]
        /\ theirs \subseteq Signatures /\ \A s \in theirs : files[s] = "foreign"
    BY <1>2 DEF ReportInv, ReportTypes
  <2>2. CASE /\ files[t] = "none" /\ files' = [files EXCEPT ![t] = "foreign"]
             /\ theirs' = theirs \cup {t}
    BY <1>2, <2>1, <2>2
  <2>3. CASE /\ files[t] = "foreign" /\ files' = [files EXCEPT ![t] = "none"]
             /\ theirs' = theirs \ {t}
    BY <1>2, <2>1, <2>3
  <2> QED
    BY <2>2, <2>3 DEF Intrudes
<1>4. ReportTypes'
  BY <1>1, <1>2, <1>3 DEF ReportTypes
<1>5. ASSUME NEW w \in Workers PROVE ReportInv'
  <2>1. Alone(w)
    BY <1>1, <1>2, <1>3 DEF Alone
  <2>2. Placed(w)'
    <3>1. Placed(w)
      BY DEF ReportInv
    <3>2. ASSUME At(w, "remove") PROVE Signature(w) \in Signatures
      BY <3>2, JobIs DEF At
    <3>3. At(w, "remove") => files'[Signature(w)] = "whole"
      BY <1>3, <3>1, <3>2 DEF Placed
    <3>4. Signature(w)' = Signature(w)
      BY <1>1 DEF Signature
    <3>5. At(w, "remove") => files'[setting.jobs[w][job[w]]] = "whole"
      BY <3>3 DEF Signature
    <3> QED
      BY <1>1, <3>1, <3>5 DEF Placed, At, May, Signature
  <2>3. Creates(w)' => Creates(w)
    BY <1>1 DEF Creates, At
  <2> QED
    BY <1>1, <1>4, <2>1, <2>2, <2>3, GoesOnKeeps
<1>6. CASE Workers = {}
  BY <1>2, <1>3, <1>4, <1>6 DEF ReportInv, CreatedOnce
<1> QED
  BY <1>5, <1>6

\* Its temporary file is removed if it can be.
LEMMA DroppedIs ==
    ASSUME ReportTypes, NEW w \in Workers, Dropped(w)
    PROVE  /\ temporary' \in [Workers -> {"none", "partial", "whole"}]
           /\ \A v \in Workers : v # w => temporary'[v] = temporary[v]
           /\ ~May("io") => temporary'[w] = "none"
<1>1. temporary \in [Workers -> {"none", "partial", "whole"}]
  BY DEF ReportTypes
<1>2. temporary' = [temporary EXCEPT ![w] = "none"] \/ (May("io") /\ temporary' = temporary)
  BY DEF Dropped
<1> QED
  BY <1>1, <1>2

LEMMA FailsKeeps ==
    ASSUME setting \in Settings, ReportInv, NEW w \in Workers, ~At(w, "idle"), Fails(w),
           UNCHANGED <<job, created, files, issues, reportCancel>>,
           Dropped(w) \/ (temporary' = temporary /\ (~May("io") => temporary[w] = "none"))
    PROVE  ReportInv'
<1>1. ReportTypes
  BY DEF ReportInv
<1>2. PICK status \in {"interrupted", "fallbackFailed", "failed"} :
         Publish(w, status) /\ (status = "interrupted" => reportCancel[w])
  BY DEF Fails
<1>3. status \in Statuses
  BY DEF Statuses
<1>4. /\ temporary' \in [Workers -> {"none", "partial", "whole"}]
      /\ \A v \in Workers : v # w => temporary'[v] = temporary[v]
      /\ ~May("io") => temporary'[w] = "none"
  <2>1. temporary \in [Workers -> {"none", "partial", "whole"}]
    BY <1>1 DEF ReportTypes
  <2> QED
    BY <1>1, <2>1, DroppedIs
<1>5. issues' \in [Signatures -> Nat] /\ \A s \in Signatures : issues[s] > 0 => issues'[s] > 0
  BY <1>1 DEF ReportTypes
<1> QED
  BY <1>2, <1>3, <1>4, <1>5, PublishKeeps

\* The provider did not do it.
LEMMA DeclinesKeeps ==
    ASSUME setting \in Settings, ReportInv, NEW w \in Workers,
           At(w, "search") \/ At(w, "publish"), Declines(w),
           UNCHANGED <<job, temporary, created, files, reportCancel>>,
           issues' \in [Signatures -> Nat],
           \A s \in Signatures : issues[s] > 0 => issues'[s] > 0
    PROVE  ReportInv'
<1>1. ReportTypes /\ ~At(w, "idle") /\ (~May("io") => temporary[w] = "none")
  <2>1. Placed(w)
    BY DEF ReportInv
  <2> QED
    BY <2>1 DEF ReportInv, Placed, At
<1>2. temporary' \in [Workers -> {"none", "partial", "whole"}]
  BY <1>1 DEF ReportTypes
<1>3. CASE Publish(w, "interrupted") /\ reportCancel[w]
  <2>1. "interrupted" \in Statuses
    BY DEF Statuses
  <2> QED
    BY <1>1, <1>2, <1>3, <2>1, PublishKeeps
<1>4. CASE /\ Goes(w, "look") /\ declined' = [declined EXCEPT ![w] = TRUE]
           /\ UNCHANGED <<theirs, published, incomplete, remoteVars>>
  <2>1. "look" \in Pcs \ {"idle"}
    BY DEF Pcs
  <2>2. /\ declined' \in [Workers -> BOOLEAN] /\ created' \in [Workers -> BOOLEAN]
        /\ files' \in [Signatures -> {"none", "foreign", "partial", "whole"}]
    BY <1>1, <1>4 DEF ReportTypes
  <2>3. setting' = setting
    BY <1>4 DEF remoteVars
  <2> QED
    BY <1>1, <1>2, <1>4, <2>1, <2>2, <2>3, MovesOnKeeps
<1> QED
  BY <1>3, <1>4 DEF Declines

\* A worker that is at a job, and goes on: of what is not about its file, little changes.
LEMMA ContinuesKeeps ==
    ASSUME setting \in Settings, ReportInv, NEW w \in Workers, ~At(w, "idle"),
           NEW pc \in Pcs \ {"idle"}, Continues(w, pc),
           UNCHANGED <<job, issues, reportCancel>>,
           temporary' \in [Workers -> {"none", "partial", "whole"}],
           \A v \in Workers : v # w => temporary'[v] = temporary[v],
           created' \in [Workers -> BOOLEAN],
           \A v \in Workers : v # w => created'[v] = created[v],
           files' \in [Signatures -> {"none", "foreign", "partial", "whole"}],
           \A s \in Signatures : files[s] # "none" => files'[s] = files[s],
           pc = "link" => temporary'[w] = "whole",
           pc = "recheck" => ~created'[w],
           pc = "remove" => files'[Signature(w)] = "whole",
           pc = "remove" /\ created'[w] => files[Signature(w)] = "none",
           pc \in {"begin", "search", "publish", "look"} /\ ~May("io") => temporary'[w] = "none"
    PROVE  ReportInv'
<1>1. ReportTypes
  BY DEF ReportInv
<1>2. /\ Goes(w, pc) /\ UNCHANGED <<setting, theirs, published, incomplete>>
      /\ declined' = declined
  BY DEF Continues, remoteVars
<1>3. /\ declined' \in [Workers -> BOOLEAN] /\ issues' \in [Signatures -> Nat]
      /\ \A s \in Signatures : issues[s] > 0 => issues'[s] > 0
  BY <1>1, <1>2 DEF ReportTypes
<1> QED
  BY <1>2, <1>3, MovesOnKeeps

\* A worker that is at a job, and has its result.
LEMMA ResultKeeps ==
    ASSUME setting \in Settings, ReportInv, NEW w \in Workers, ~At(w, "idle"),
           NEW status \in Statuses, Publish(w, status),
           UNCHANGED <<job, created, files, issues, reportCancel>>,
           \/ Dropped(w)
           \/ temporary' = temporary /\ (~May("io") => temporary[w] = "none")
           \/ temporary' = [temporary EXCEPT ![w] = "none"],
           status \in {"created", "existing", "fallback"} => files[Signature(w)] = "whole",
           status \in {"createdIssue", "existingIssue"} => issues[Signature(w)] > 0,
           status = "interrupted" => reportCancel[w],
           status = "created" => Creates(w)
    PROVE  ReportInv'
<1>1. ReportTypes
  BY DEF ReportInv
<1>2. /\ temporary' \in [Workers -> {"none", "partial", "whole"}]
      /\ \A v \in Workers : v # w => temporary'[v] = temporary[v]
      /\ ~May("io") => temporary'[w] = "none"
  <2>1. temporary \in [Workers -> {"none", "partial", "whole"}]
    BY <1>1 DEF ReportTypes
  <2> QED
    BY <1>1, <2>1, DroppedIs
<1>3. /\ issues' \in [Signatures -> Nat] /\ issues' = issues
      /\ \A s \in Signatures : issues[s] > 0 => issues'[s] > 0
  BY <1>1 DEF ReportTypes
<1>4. status \in {"createdIssue", "existingIssue"} => issues'[Signature(w)] > 0
  BY <1>3
<1> QED
  BY <1>2, <1>3, <1>4, PublishKeeps

\* What is known of a worker at its place.
LEMMA PlaceIs ==
    ASSUME setting \in Settings, ReportInv, NEW w \in Workers, NEW pc \in Pcs \ {"idle"}, At(w, pc)
    PROVE  /\ ~At(w, "idle") /\ ReportTypes
           /\ temporary \in [Workers -> {"none", "partial", "whole"}]
           /\ created \in [Workers -> BOOLEAN]
           /\ files \in [Signatures -> {"none", "foreign", "partial", "whole"}]
           /\ issues \in [Signatures -> Nat]
           /\ Signature(w) \in Signatures
           /\ pc = "link" => temporary[w] = "whole"
           /\ pc = "recheck" => ~created[w]
           /\ pc = "remove" => files[Signature(w)] = "whole"
           /\ pc \in {"begin", "search", "publish", "look"} /\ ~May("io") => temporary[w] = "none"
<1>1. ReportTypes /\ Placed(w) /\ ~At(w, "idle")
  BY DEF ReportInv, At
<1>2. Signature(w) \in Signatures
  BY <1>1, JobIs
<1> QED
  BY <1>1, <1>2 DEF Placed, ReportTypes, At

LEMMA BeginKeeps ==
    ASSUME setting \in Settings, ReportInv, NEW w \in Workers, Begin(w)
    PROVE  ReportInv'
<1>1. At(w, "begin") /\ "begin" \in Pcs \ {"idle"}
  BY DEF Begin, Pcs
<1>2. /\ ~At(w, "idle") /\ ReportTypes
      /\ temporary \in [Workers -> {"none", "partial", "whole"}]
      /\ created \in [Workers -> BOOLEAN]
      /\ files \in [Signatures -> {"none", "foreign", "partial", "whole"}]
      /\ ~May("io") => temporary[w] = "none"
  BY <1>1, PlaceIs
<1>3. UNCHANGED <<job, temporary, created, files, issues, reportCancel>>
  BY DEF Begin
<1>4. CASE reportCancel[w] /\ Publish(w, "interrupted")
  <2>1. "interrupted" \in Statuses
    BY DEF Statuses
  <2> QED
    BY <1>2, <1>3, <1>4, <2>1, ResultKeeps
<1>5. ASSUME NEW pc \in {"search", "look"}, Continues(w, pc) PROVE ReportInv'
  <2>1. pc \in Pcs \ {"idle"}
    BY DEF Pcs
  <2> QED
    BY <1>2, <1>3, <1>5, <2>1, ContinuesKeeps
<1> QED
  BY <1>4, <1>5 DEF Begin

LEMMA SearchKeeps ==
    ASSUME setting \in Settings, ReportInv, NEW w \in Workers, Search(w)
    PROVE  ReportInv'
<1>1. At(w, "search") /\ "search" \in Pcs \ {"idle"}
  BY DEF Search, Pcs
<1>2. /\ ~At(w, "idle") /\ ReportTypes
      /\ temporary \in [Workers -> {"none", "partial", "whole"}]
      /\ created \in [Workers -> BOOLEAN] /\ issues \in [Signatures -> Nat]
      /\ files \in [Signatures -> {"none", "foreign", "partial", "whole"}]
      /\ ~May("io") => temporary[w] = "none"
  BY <1>1, PlaceIs
<1>3. UNCHANGED <<job, temporary, created, files, issues, reportCancel>>
  BY DEF Search
<1>4. CASE issues[Signature(w)] > 0 /\ Publish(w, "existingIssue")
  <2>1. "existingIssue" \in Statuses
    BY DEF Statuses
  <2> QED
    BY <1>2, <1>3, <1>4, <2>1, ResultKeeps
<1>5. CASE Continues(w, "publish")
  <2>1. "publish" \in Pcs \ {"idle"}
    BY DEF Pcs
  <2> QED
    BY <1>2, <1>3, <1>5, <2>1, ContinuesKeeps
<1>6. CASE Declines(w)
  <2>1. issues' \in [Signatures -> Nat] /\ \A s \in Signatures : issues[s] > 0 => issues'[s] > 0
    BY <1>2, <1>3
  <2> QED
    BY <1>1, <1>3, <1>6, <2>1, DeclinesKeeps
<1> QED
  BY <1>4, <1>5, <1>6 DEF Search

LEMMA PublishIssueKeeps ==
    ASSUME setting \in Settings, ReportInv, NEW w \in Workers, PublishIssue(w)
    PROVE  ReportInv'
<1>0. PICK s : s = Signature(w)
  OBVIOUS
<1>1. At(w, "publish") /\ "publish" \in Pcs \ {"idle"}
  BY DEF PublishIssue, Pcs
<1>2. /\ ~At(w, "idle") /\ ReportTypes
      /\ temporary \in [Workers -> {"none", "partial", "whole"}]
      /\ issues \in [Signatures -> Nat] /\ s \in Signatures
      /\ ~May("io") => temporary[w] = "none"
  BY <1>0, <1>1, PlaceIs
<1>3. UNCHANGED <<job, temporary, created, files, reportCancel>>
  BY DEF PublishIssue
<1>4. /\ issues' \in {issues, [issues EXCEPT ![s] = issues[s] + 1]}
      /\ \/ issues' = [issues EXCEPT ![s] = issues[s] + 1] /\ Publish(w, "createdIssue")
         \/ Declines(w)
  BY <1>0 DEF PublishIssue
<1>5. /\ issues' \in [Signatures -> Nat]
      /\ \A t \in Signatures : issues[t] > 0 => issues'[t] > 0
      /\ issues' = [issues EXCEPT ![s] = issues[s] + 1] => issues'[s] > 0
  BY <1>2, <1>4
<1>6. CASE issues' = [issues EXCEPT ![s] = issues[s] + 1] /\ Publish(w, "createdIssue")
  <2>1. "createdIssue" \in Statuses
    BY DEF Statuses
  <2>2. issues'[Signature(w)] > 0
    BY <1>0, <1>5, <1>6
  <2> QED
    BY <1>2, <1>3, <1>5, <1>6, <2>1, <2>2, PublishKeeps
<1>7. CASE Declines(w)
  BY <1>1, <1>3, <1>5, <1>7, DeclinesKeeps
<1> QED
  BY <1>4, <1>6, <1>7

LEMMA LookKeeps ==
    ASSUME setting \in Settings, ReportInv, NEW w \in Workers, Look(w)
    PROVE  ReportInv'
<1>1. At(w, "look") /\ "look" \in Pcs \ {"idle"}
  BY DEF Look, Pcs
<1>2. /\ ~At(w, "idle") /\ ReportTypes
      /\ temporary \in [Workers -> {"none", "partial", "whole"}]
      /\ created \in [Workers -> BOOLEAN]
      /\ files \in [Signatures -> {"none", "foreign", "partial", "whole"}]
      /\ ~May("io") => temporary[w] = "none"
  BY <1>1, PlaceIs
<1>3. UNCHANGED <<job, created, files, issues, reportCancel>>
  BY DEF Look
<1>4. CASE temporary' = [temporary EXCEPT ![w] = "partial"] /\ Continues(w, "write")
  <2>1. "write" \in Pcs \ {"idle"}
    BY DEF Pcs
  <2>2. /\ temporary' \in [Workers -> {"none", "partial", "whole"}]
        /\ \A v \in Workers : v # w => temporary'[v] = temporary[v]
    BY <1>2, <1>4
  <2> QED
    BY <1>2, <1>3, <1>4, <2>1, <2>2, ContinuesKeeps
<1>5. CASE /\ files[Signature(w)] = "whole" /\ Publish(w, FileStatus(w, "existing"))
           /\ UNCHANGED temporary
  <2>1. PICK status \in {"fallback", "existing"} : status = FileStatus(w, "existing")
    BY DEF FileStatus
  <2>2. status \in Statuses
    BY DEF Statuses
  <2> QED
    BY <1>2, <1>3, <1>5, <2>1, <2>2, ResultKeeps
<1>6. CASE Fails(w) /\ UNCHANGED temporary
  BY <1>2, <1>3, <1>6, FailsKeeps
<1> QED
  BY <1>4, <1>5, <1>6 DEF Look

LEMMA WriteKeeps ==
    ASSUME setting \in Settings, ReportInv, NEW w \in Workers, Write(w)
    PROVE  ReportInv'
<1>1. At(w, "write") /\ "write" \in Pcs \ {"idle"}
  BY DEF Write, Pcs
<1>2. /\ ~At(w, "idle") /\ ReportTypes
      /\ temporary \in [Workers -> {"none", "partial", "whole"}]
      /\ created \in [Workers -> BOOLEAN]
      /\ files \in [Signatures -> {"none", "foreign", "partial", "whole"}]
  BY <1>1, PlaceIs
<1>3. UNCHANGED <<job, created, files, issues, reportCancel>>
  BY DEF Write
<1>4. CASE temporary' = [temporary EXCEPT ![w] = "whole"] /\ Continues(w, "link")
  <2>1. "link" \in Pcs \ {"idle"}
    BY DEF Pcs
  <2>2. /\ temporary' \in [Workers -> {"none", "partial", "whole"}] /\ temporary'[w] = "whole"
        /\ \A v \in Workers : v # w => temporary'[v] = temporary[v]
    BY <1>2, <1>4
  <2> QED
    BY <1>2, <1>3, <1>4, <2>1, <2>2, ContinuesKeeps
<1>5. CASE Fails(w) /\ Dropped(w)
  BY <1>2, <1>3, <1>5, FailsKeeps
<1> QED
  BY <1>4, <1>5 DEF Write

LEMMA LinkKeeps ==
    ASSUME setting \in Settings, ReportInv, NEW w \in Workers, Link(w)
    PROVE  ReportInv'
<1>0. PICK s : s = Signature(w)
  OBVIOUS
<1>1. At(w, "link") /\ "link" \in Pcs \ {"idle"}
  BY DEF Link, Pcs
<1>2. /\ ~At(w, "idle") /\ ReportTypes
      /\ temporary \in [Workers -> {"none", "partial", "whole"}]
      /\ created \in [Workers -> BOOLEAN] /\ s \in Signatures
      /\ files \in [Signatures -> {"none", "foreign", "partial", "whole"}]
      /\ temporary[w] = "whole"
  BY <1>0, <1>1, PlaceIs
<1>3. UNCHANGED <<job, issues, reportCancel>>
  BY DEF Link
<1>4. CASE /\ files[s] = "none" /\ created' = [created EXCEPT ![w] = TRUE]
           /\ files' = [files EXCEPT ![s] = temporary[w]] /\ Continues(w, "remove")
           /\ UNCHANGED temporary
  <2>1. "remove" \in Pcs \ {"idle"}
    BY DEF Pcs
  <2>2. /\ files' \in [Signatures -> {"none", "foreign", "partial", "whole"}]
        /\ files'[s] = "whole"
        /\ \A t \in Signatures : files[t] # "none" => files'[t] = files[t]
    BY <1>2, <1>4
  <2>3. /\ created' \in [Workers -> BOOLEAN]
        /\ \A v \in Workers : v # w => created'[v] = created[v]
    BY <1>2, <1>4
  <2>4. files'[Signature(w)] = "whole" /\ files[Signature(w)] = "none"
    BY <1>0, <1>4, <2>2
  <2> QED
    BY <1>2, <1>3, <1>4, <2>1, <2>2, <2>3, <2>4, ContinuesKeeps
<1>5. CASE /\ created' = [created EXCEPT ![w] = FALSE]
           /\ UNCHANGED files /\ Continues(w, "recheck") /\ UNCHANGED temporary
  <2>1. "recheck" \in Pcs \ {"idle"}
    BY DEF Pcs
  <2>2. /\ created' \in [Workers -> BOOLEAN] /\ ~created'[w]
        /\ \A v \in Workers : v # w => created'[v] = created[v]
    BY <1>2, <1>5
  <2> QED
    BY <1>2, <1>3, <1>5, <2>1, <2>2, ContinuesKeeps
<1>6. CASE Fails(w) /\ Dropped(w) /\ UNCHANGED <<created, files>>
  BY <1>2, <1>3, <1>6, FailsKeeps
<1>7. CASE files[s] = "none"
  BY <1>0, <1>4, <1>6, <1>7 DEF Link, MayLink
<1>8. CASE files[s] # "none"
  BY <1>0, <1>5, <1>6, <1>8 DEF Link, MayLink
<1> QED
  BY <1>7, <1>8

LEMMA RecheckKeeps ==
    ASSUME setting \in Settings, ReportInv, NEW w \in Workers, Recheck(w)
    PROVE  ReportInv'
<1>1. At(w, "recheck") /\ "recheck" \in Pcs \ {"idle"}
  BY DEF Recheck, Pcs
<1>2. /\ ~At(w, "idle") /\ ReportTypes
      /\ temporary \in [Workers -> {"none", "partial", "whole"}]
      /\ created \in [Workers -> BOOLEAN] /\ ~created[w]
      /\ files \in [Signatures -> {"none", "foreign", "partial", "whole"}]
  BY <1>1, PlaceIs
<1>3. UNCHANGED <<job, created, files, issues, reportCancel>>
  BY DEF Recheck
<1>4. CASE files[Signature(w)] = "whole" /\ Continues(w, "remove") /\ UNCHANGED temporary
  <2>1. "remove" \in Pcs \ {"idle"}
    BY DEF Pcs
  <2> QED
    BY <1>2, <1>3, <1>4, <2>1, ContinuesKeeps
<1>5. CASE Fails(w) /\ Dropped(w)
  BY <1>2, <1>3, <1>5, FailsKeeps
<1> QED
  BY <1>4, <1>5 DEF Recheck

LEMMA RemoveKeeps ==
    ASSUME setting \in Settings, ReportInv, NEW w \in Workers, RemoveTemporary(w)
    PROVE  ReportInv'
<1>1. At(w, "remove") /\ "remove" \in Pcs \ {"idle"}
  BY DEF RemoveTemporary, Pcs
<1>2. /\ ~At(w, "idle") /\ ReportTypes
      /\ temporary \in [Workers -> {"none", "partial", "whole"}]
      /\ files[Signature(w)] = "whole"
  BY <1>1, PlaceIs
<1>3. UNCHANGED <<job, created, files, issues, reportCancel>>
  BY DEF RemoveTemporary
<1>4. CASE /\ temporary' = [temporary EXCEPT ![w] = "none"]
           /\ Publish(w, FileStatus(w, IF created[w] THEN "created" ELSE "existing"))
  <2>1. PICK status \in {"fallback", "existing", "created"} :
           /\ status = FileStatus(w, IF created[w] THEN "created" ELSE "existing")
           /\ status = "created" => created[w]
    BY DEF FileStatus
  <2>2. status \in Statuses
    BY DEF Statuses
  <2>3. status = "created" => Creates(w)
    BY <1>1, <2>1 DEF Creates
  <2> QED
    BY <1>2, <1>3, <1>4, <2>1, <2>2, <2>3, ResultKeeps
<1>5. CASE Fails(w) /\ Dropped(w)
  BY <1>2, <1>3, <1>5, FailsKeeps
<1> QED
  BY <1>4, <1>5 DEF RemoveTemporary

LEMMA ReportsKeep ==
    ASSUME setting \in Settings, ReportInv, ReportStep
    PROVE  ReportInv'
BY TakeJobKeeps, BeginKeeps, SearchKeeps, PublishIssueKeeps, LookKeeps, WriteKeeps, LinkKeeps,
   RecheckKeeps, RemoveKeeps, CancelKeeps, IntrudesKeeps DEF ReportStep

LEMMA ReportsRest ==
    ASSUME ReportInv, UNCHANGED reportVars, setting' = setting
    PROVE  ReportInv'
<1>1. /\ UNCHANGED <<workPc, job, declined, temporary, created>>
      /\ UNCHANGED <<files, theirs, issues, reportCancel, incomplete, published>>
      /\ Workers' = Workers
  BY DEF reportVars, Workers
<1>2. ReportTypes'
  BY <1>1 DEF ReportInv, ReportTypes
<1>3. \A w \in Workers : Placed(w)'
  BY <1>1 DEF ReportInv, Placed, At, May, Signature
<1>4. (\A w \in Workers : \A i \in 1 .. Len(published[w]) : ResultIsTrue(w, published[w][i]))'
  BY <1>1 DEF ReportInv, ResultIsTrue
<1>5. CreatedOnce'
  BY <1>1 DEF ReportInv, CreatedOnce, Creates, IsCreated, At, Signature
<1>6. (\A s \in theirs : files[s] = "foreign")'
  BY <1>1 DEF ReportInv
<1> QED
  BY <1>1, <1>2, <1>3, <1>4, <1>5, <1>6 DEF ReportInv

LEMMA ReportsStart ==
    ASSUME setting \in Settings, ReportsInit
    PROVE  ReportInv
<1>2. /\ workPc = [w \in Workers |-> "idle"] /\ job = [w \in Workers |-> 0]
      /\ temporary = [w \in Workers |-> "none"] /\ published = [w \in Workers |-> << >>]
      /\ theirs = {}
  BY DEF ReportsInit
<1>3. ReportTypes
  <2>1. "idle" \in Pcs /\ << >> \in Seq([signature : Signatures, status : Statuses])
    BY DEF Pcs
  <2> QED
    BY <2>1 DEF ReportsInit, ReportTypes
<1>4. \A w \in Workers : Placed(w)
  <2>. TAKE w \in Workers
  <2>1. /\ workPc[w] = "idle" /\ job[w] = 0 /\ temporary[w] = "none" /\ published[w] = << >>
        /\ setting.jobs[w] \in Seq(Signatures)
    BY <1>2, WorkersAre
  <2>2. Len(published[w]) = 0 /\ Len(setting.jobs[w]) \in Nat
    BY <2>1
  <2> QED
    BY <2>1, <2>2 DEF Placed, At
<1>5. \A w \in Workers : Len(published[w]) = 0
  BY <1>2
<1>6. CreatedOnce
  BY <1>2, <1>5 DEF CreatedOnce, Creates, At
<1>7. \A s \in theirs : files[s] = "foreign"
  BY <1>2
<1> QED
  BY <1>3, <1>4, <1>5, <1>6, <1>7 DEF ReportInv

\* The invariant says what the workers promise.
LEMMA TruthOfReports ==
    ASSUME setting \in Settings, ReportInv
    PROVE  ReportsAreTruthful
<1>1. ReportTypes /\ CreatedOnce
  BY DEF ReportInv
<1>2. ASSUME NEW w \in Workers
      PROVE  DOMAIN published[w] = 1 .. Len(published[w])
  <2>1. published[w] \in Seq([signature : Signatures, status : Statuses])
    BY <1>1 DEF ReportTypes
  <2> QED
    BY <2>1
<1>3. ASSUME NEW status, NEW r \in Results(status)
      PROVE  /\ r.worker \in Workers /\ r.i \in 1 .. Len(published[r.worker])
             /\ published[r.worker][r.i].status = status
             /\ published[r.worker][r.i].signature = r.signature
             /\ r = [worker |-> r.worker, i |-> r.i, signature |-> r.signature]
             /\ ResultIsTrue(r.worker, published[r.worker][r.i])
  <2>0. PICK w \in Workers : \E i \in DOMAIN published[w] :
           /\ published[w][i].status = status
           /\ r = [worker |-> w, i |-> i, signature |-> published[w][i].signature]
    BY DEF Results
  <2>1. PICK i \in DOMAIN published[w] :
           /\ published[w][i].status = status
           /\ r = [worker |-> w, i |-> i, signature |-> published[w][i].signature]
    BY <2>0
  <2>2. r.worker = w /\ r.i = i /\ r.signature = published[w][i].signature
    BY <2>1
  <2>3. i \in 1 .. Len(published[w]) /\ ResultIsTrue(w, published[w][i])
    BY <1>2, ResultIs
  <2> QED
    BY <2>1, <2>2, <2>3
<1>4. \A r \in FileResults : files[r.signature] = "whole"
  <2>1. ASSUME NEW status \in {"created", "existing", "fallback"}, NEW r \in Results(status)
        PROVE  files[r.signature] = "whole"
    BY <1>3 DEF ResultIsTrue
  <2> QED
    BY <2>1 DEF FileResults
<1>5. ASSUME NEW r \in Results("created"), NEW other \in Results("created"),
             r.signature = other.signature
      PROVE  r = other
  <2>1. /\ r.worker \in Workers /\ r.i \in 1 .. Len(published[r.worker])
        /\ IsCreated(r.worker, r.i)
        /\ published[r.worker][r.i].signature = r.signature
        /\ r = [worker |-> r.worker, i |-> r.i, signature |-> r.signature]
    BY <1>3 DEF IsCreated
  <2>2. /\ other.worker \in Workers /\ other.i \in 1 .. Len(published[other.worker])
        /\ IsCreated(other.worker, other.i)
        /\ published[other.worker][other.i].signature = other.signature
        /\ other = [worker |-> other.worker, i |-> other.i, signature |-> other.signature]
    BY <1>3 DEF IsCreated
  <2>3. r.worker = other.worker /\ r.i = other.i
    BY <1>1, <1>5, <2>1, <2>2 DEF CreatedOnce
  <2> QED
    BY <1>5, <2>1, <2>2, <2>3
<1>6. \A r \in Results("createdIssue") \cup Results("existingIssue") : issues[r.signature] > 0
  <2>1. ASSUME NEW status \in {"createdIssue", "existingIssue"}, NEW r \in Results(status)
        PROVE  issues[r.signature] > 0
    BY <1>3 DEF ResultIsTrue
  <2> QED
    BY <2>1
<1>7. \A r \in Results("interrupted") : reportCancel[r.worker] /\ incomplete[r.worker]
  BY <1>3 DEF ResultIsTrue
<1>8. \A w \in Workers :
         /\ Len(published[w]) = job[w] - (IF At(w, "idle") THEN 0 ELSE 1)
         /\ At(w, "idle") /\ ~May("io") => temporary[w] = "none"
  BY DEF ReportInv, Placed, At
<1>9. \A s \in theirs : files[s] = "foreign"
  BY DEF ReportInv
<1> QED
  BY <1>4, <1>5, <1>6, <1>7, <1>8, <1>9 DEF ReportsAreTruthful

-----------------------------------------------------------------------------
(* All of them *)

OutsideInv == RemoteInv /\ ScriptInv /\ ReplInv /\ ReportInv

\* What the script and the workers do to the session.
LEMMA ScriptMovesRemote ==
    ASSUME RemoteInv, ScriptInv, ScriptStep
    PROVE  Moves({"script"})
<1>1. CASE SubmitAccepted \/ SubmitLost
  <2>1. /\ Accept("script", next, script[next]) \/ UNCHANGED remoteVars
        /\ next <= Len(script)
    BY <1>1 DEF SubmitAccepted, SubmitLost, Submitted, LostSubmission, Sends, IsSent, ScriptInv
  <2>2. next \in 1 .. Len(script) + 1 /\ script \in Seq(Commands) /\ setting \in Settings
    BY SettingIs DEF ScriptInv, RemoteInv, RemoteTypes
  <2>3. next \in Nat /\ next \in 1 .. Len(script)
    BY <2>1, <2>2
  <2>4. script[next] \in Commands \cup {"pending"}
    BY <2>2, <2>3
  <2>5. Submits("script") \/ UNCHANGED remoteVars
    BY <2>1, <2>3, <2>4 DEF Submits
  <2> QED
    BY <2>5 DEF Moves
<1>2. CASE Bind \/ Cancelled \/ SubmitRefused \/ PollNews \/ PollFails \/ Completes \/ Press
           \/ CloseSocket
  <2>1. UNCHANGED remoteVars
    BY <1>2 DEF Bind, Cancelled, SubmitRefused, Refused, PollNews, PollFails, Completes, Press,
                CloseSocket
  <2> QED
    BY <2>1 DEF Moves
<1> QED
  BY <1>1, <1>2 DEF ScriptStep

LEMMA ReportsMoveRemote ==
    ASSUME ReportStep
    PROVE  Moves({})
<1>1. ASSUME NEW w \in Workers,
             \/ TakeJob(w) \/ Begin(w) \/ Search(w) \/ PublishIssue(w) \/ Look(w) \/ Write(w)
             \/ Link(w) \/ Recheck(w) \/ RemoveTemporary(w) \/ CancelReports(w)
      PROVE  AddsReport \/ UNCHANGED remoteVars
  <2>1. \A status : Publish(w, status) => AddsReport
    BY DEF Publish, AddsReport
  <2>2. \A pc : Continues(w, pc) => UNCHANGED remoteVars
    BY DEF Continues
  <2>3. (Fails(w) => AddsReport) /\ (Declines(w) => AddsReport \/ UNCHANGED remoteVars)
    BY <2>1 DEF Fails, Declines
  <2> QED
    BY <1>1, <2>1, <2>2, <2>3
       DEF TakeJob, Begin, Search, PublishIssue, Look, Write, Link, Recheck, RemoveTemporary,
           CancelReports
<1>2. ASSUME NEW s \in setting.occupied, Intrudes(s) PROVE UNCHANGED remoteVars
  BY <1>2 DEF Intrudes
<1> QED
  BY <1>1, <1>2 DEF ReportStep, Moves

LEMMA OutsideStarts == ASSUME Init PROVE OutsideInv
<1>1. RemoteInv /\ setting \in Settings /\ accepted = << >>
  BY RemoteStarts DEF Init, RemoteInit
<1> QED
  BY <1>1, ScriptStarts, ReplStarts, ReportsStart DEF Init, OutsideInv

LEMMA OutsideKeeps == ASSUME OutsideInv, [Next]_vars PROVE OutsideInv'
<1>1. /\ RemoteInv /\ ScriptInv /\ ReplInv /\ ReportInv /\ setting \in Settings
  BY DEF OutsideInv, RemoteInv, RemoteTypes
<1>2. CASE SessionStep /\ UNCHANGED <<scriptVars, replVars, reportVars>>
  <2>1. Moves({})
    BY <1>2 DEF Moves
  <2>2. RemoteInv' /\ Grows /\ Foreign({"script"}) /\ Foreign({"repl"})
    BY <1>1, <2>1, RemoteKeeps DEF Foreign
  <2>3. setting' = setting
    BY <2>2 DEF Grows
  <2> QED
    BY <1>1, <1>2, <2>2, <2>3, ScriptRests, ReplRests, ReportsRest DEF OutsideInv
<1>3. CASE ScriptStep /\ UNCHANGED <<replVars, reportVars>>
  <2>1. Moves({"script"})
    BY <1>1, <1>3, ScriptMovesRemote
  <2>2. RemoteInv' /\ Grows /\ Foreign({"repl"})
    BY <1>1, <2>1, RemoteKeeps DEF Foreign
  <2>3. setting' = setting
    BY <2>2 DEF Grows
  <2> QED
    BY <1>1, <1>3, <2>2, <2>3, ScriptKeeps, ReplRests, ReportsRest DEF OutsideInv
<1>4. CASE ReplStep /\ UNCHANGED <<scriptVars, reportVars>>
  <2>1. Moves({"repl"})
    BY <1>1, <1>4, ReplMovesRemote
  <2>2. RemoteInv' /\ Grows /\ Foreign({"script"})
    BY <1>1, <2>1, RemoteKeeps DEF Foreign
  <2>3. setting' = setting
    BY <2>2 DEF Grows
  <2> QED
    BY <1>1, <1>4, <2>2, <2>3, ScriptRests, ReplKeeps, ReportsRest DEF OutsideInv
<1>5. CASE ReportStep /\ UNCHANGED <<scriptVars, replVars>>
  <2>1. Moves({})
    BY <1>5, ReportsMoveRemote
  <2>2. RemoteInv' /\ Grows /\ Foreign({"script"}) /\ Foreign({"repl"})
    BY <1>1, <2>1, RemoteKeeps DEF Foreign
  <2> QED
    BY <1>1, <1>5, <2>2, ScriptRests, ReplRests, ReportsKeep DEF OutsideInv
<1>6. CASE UNCHANGED vars
  <2>1. UNCHANGED remoteVars /\ UNCHANGED <<scriptVars, replVars, reportVars>>
    BY <1>6 DEF vars
  <2>2. Moves({})
    BY <2>1 DEF Moves
  <2>3. RemoteInv' /\ Grows /\ Foreign({"script"}) /\ Foreign({"repl"})
    BY <1>1, <2>2, RemoteKeeps DEF Foreign
  <2>4. setting' = setting
    BY <2>3 DEF Grows
  <2> QED
    BY <1>1, <2>1, <2>3, <2>4, ScriptRests, ReplRests, ReportsRest DEF OutsideInv
<1> QED
  BY <1>2, <1>3, <1>4, <1>5, <1>6 DEF Next, Rest

LEMMA OutsideHolds == Spec => []OutsideInv
<1>1. Init => OutsideInv
  BY OutsideStarts
<1>2. OutsideInv /\ [Next]_vars => OutsideInv'
  BY OutsideKeeps
<1> QED
  BY <1>1, <1>2, PTL DEF Spec

(***************************************************************************)
(* Whatever breaks, and whenever the user presses Ctrl-C: what a script    *)
(* reports of a command is what the session did with it, each command was  *)
(* submitted at most once and each has one report when the script is over, *)
(* and no boundary was sent while something of the script was open         *)
(* (client/script.rs).                                                     *)
(***************************************************************************)
THEOREM ScriptsTellTheTruth == Spec => []ScriptIsTruthful
<1>1. OutsideInv => ScriptIsTruthful
  BY TruthOfScript DEF OutsideInv
<1> QED
  BY <1>1, OutsideHolds, PTL

(***************************************************************************)
(* Over any number of connections: of each input one thing is said, what   *)
(* was denied never ran and what was announced ran once, what is shown is  *)
(* in order with a gap where something is missing, and it ends well only   *)
(* when it was left or after its own shutdown (cli/repl/network.rs).       *)
(***************************************************************************)
THEOREM ReplsKeepTheirWord == Spec => []ReplKeepsItsWord
<1>1. OutsideInv => ReplKeepsItsWord
  BY WordOfRepl DEF OutsideInv
<1> QED
  BY <1>1, OutsideHolds, PTL

(***************************************************************************)
(* For any number of workers on one directory and one repository: a file   *)
(* that is named is whole and was created by one job at most, nothing of   *)
(* anybody else is replaced, and each job has one result                   *)
(* (report/provider/local.rs, report/provider/github.rs).                  *)
(***************************************************************************)
THEOREM ReportsTellTheTruth == Spec => []ReportsAreTruthful
<1>1. OutsideInv => ReportsAreTruthful
  BY TruthOfReports DEF OutsideInv, RemoteInv, RemoteTypes
<1> QED
  BY <1>1, OutsideHolds, PTL
=============================================================================
