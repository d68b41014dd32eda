---------------------------- MODULE ServerProofs ----------------------------
(***************************************************************************)
(* The server, for every number of sessions, callers and commands: the     *)
(* admission of a session closes with its stop, its last state tells what  *)
(* happened to it, so does the result of the whole server, and a cursor    *)
(* of its activity leads to what is pending.                               *)
(***************************************************************************)
EXTENDS Server, ActivityProofs

-----------------------------------------------------------------------------
(* Types *)

Lives   == {"absent", "Starting", "Ready", "Stopping", "Ended", "Failed"}
AllIds  == 1 .. LastId
Ids     == 1 .. LastId - 1

(***************************************************************************)
(* An entry is a record of these fields.  What the store holds is for the  *)
(* readers of the activity; nothing depends on it but the last section.    *)
(***************************************************************************)
IsEntry(e) ==
    /\ e = [life |-> e.life, pending |-> e.pending, store |-> e.store, cancel |-> e.cancel,
            forced |-> e.forced, reportCancel |-> e.reportCancel,
            incomplete |-> e.incomplete, done |-> e.done]
    /\ e.life \in Lives
    /\ {e.cancel, e.forced, e.reportCancel, e.incomplete, e.done} \subseteq BOOLEAN

Starts == {"absent", "prepare", "launch"}
Turns  == {"ready", "cancel", "take", "receive", "act", "close", "failed", "ended", "drop"}
Over   == {"join", "done"}

Owners == [pc : Starts \cup Turns \cup Over, budget : Nat, tokens : Seq(AllIds), at : Nat \ {0},
           replayStop : Nat, replayStopped : BOOLEAN, stopSent : BOOLEAN, recordingStop : Nat,
           shutdownSent : BOOLEAN, shutdownCompleted : BOOLEAN,
           eventEnd : BOOLEAN, failed : BOOLEAN]

Commands == [id : AllIds, kind : ServedKinds]
Results  == [id : AllIds, outcome : {"ok", "rejected", "failed"}]

SessionStates ==
    [life : {"none", "live", "closing", "ended", "gone"}, next : AllIds,
     open : SUBSET Commands, results : SUBSET Results, events : Nat,
     reported : BOOLEAN, confirmed : BOOLEAN, recording : BOOLEAN]

Directories == [stopping : BOOLEAN, forced : BOOLEAN, result : {"none", "ok", "incomplete"}]

TypeOK ==
    /\ entry = [s \in Sessions |-> entry[s]] /\ \A s \in Sessions : IsEntry(entry[s])
    /\ owner \in [Sessions -> Owners]
    /\ session \in [Sessions -> SessionStates]
    /\ reports \in [Sessions -> Nat]
    /\ directory \in Directories
    /\ trouble \in [Sessions -> BOOLEAN]
    /\ admitted \in [Sessions -> Nat]

-----------------------------------------------------------------------------
(* The life of one session *)

\* Where the owner is tells what there is of the session, and of its entry.
Placed(s) ==
    LET e == entry[s] o == owner[s] IN
    /\ e.life = "absent" <=> o.pc = "absent"
    /\ IsTerminal(e.life) <=> o.pc \in Over \cup {"drop"}
    /\ o.pc \in Starts => session[s].life = "none"
    /\ o.pc \in Turns => session[s].life \in {"live", "closing", "ended"}
    /\ o.pc \in Over => session[s].life \in {"none", "gone"}
    /\ e.done <=> o.pc = "done"
    /\ e.done => reports[s] = 0
    /\ e.forced => directory.forced

Sent(o) == o.shutdownSent \/ LastId \in Range(o.tokens)

(***************************************************************************)
(* The admission: until the stop begins the owner accepts for callers      *)
(* only, and it begins the stop after it closed the admission.             *)
(***************************************************************************)
Admission(s) ==
    LET o == owner[s] IN
    /\ o.replayStop = 0 /\ ~Sent(o) /\ o.pc \notin Over => session[s].next = admitted[s] + 1
    /\ o.replayStop # 0 =>
          /\ o.replayStop = admitted[s] + 1
          /\ entry[s].life \notin {"absent", "Starting", "Ready"}
    /\ Sent(o) => entry[s].life \notin {"absent", "Starting", "Ready"}
    /\ o.stopSent => o.replayStop # 0
    /\ o.recordingStop # 0 => o.replayStop # 0
    /\ o.pc = "act" /\ ~o.shutdownSent => LastId \notin Range(o.tokens)
    /\ o.pc = "close" => o.stopSent /\ o.tokens = << >> /\ ~o.shutdownSent
    /\ o.pc \in Starts \cup Over => o = [NewOwner EXCEPT !.pc = o.pc]

Distinct(tokens) == \A i, j \in 1 .. Len(tokens) : tokens[i] = tokens[j] => i = j

\* What is open, and what has its outcome, is a command the owner has a token of.
Tokens(s) ==
    LET o == owner[s] ss == session[s] IN
    /\ \A command \in ss.open :
          /\ o.pc \in Turns => command.id \in Range(o.tokens)
          /\ command.id = LastId <=> command.kind = "shutdown"
          /\ command.id # LastId => command.id < ss.next
          /\ command.id = o.replayStop => command.kind = "replayStop"
          /\ command.id = o.recordingStop => command.kind = "recordingStop"
          /\ \A other \in ss.open : other.id = command.id => other = command
          /\ \A result \in ss.results : result.id # command.id
    /\ \A result \in ss.results :
          /\ o.pc \in Turns => result.id \in Range(o.tokens)
          /\ result.id # LastId => result.id < ss.next
    /\ \A id \in Range(o.tokens) : id # LastId => id < ss.next
    /\ Distinct(o.tokens)
    /\ ss.life = "none" => ss = NewSession
    /\ ss.life \in {"ended", "gone"} => ss.open = {}
    /\ ss.life = "live" => \A result \in ss.results : result.id # LastId
    /\ ss.life = "closing" => ~IsOpen(ss, {"shutdown"})
    /\ o.replayStop # 0 => o.replayStop < ss.next
    /\ o.recordingStop # 0 => o.recordingStop < ss.next
    /\ o.replayStop # 0 /\ Sent(o) => Range(o.tokens) \subseteq {LastId}

Excused(s) == trouble[s] \/ entry[s].cancel

\* The shutdown has its outcome.
Shut(s) ==
    \/ owner[s].shutdownCompleted
    \/ \E result \in session[s].results : result.id = LastId

(***************************************************************************)
(* Without an excuse what the stop needs has succeeded, and nothing but    *)
(* the shutdown has ended the session.                                     *)
(***************************************************************************)
Orderly(s) ==
    LET o == owner[s] ss == session[s] IN
    /\ \A result \in ss.results :
          IsOfTheStop(o, result.id) /\ result.outcome # "ok" => Excused(s)
    /\ \A result \in ss.results : result.id = LastId /\ result.outcome = "ok" => ss.confirmed
    /\ ss.life \in {"closing", "ended"} => Excused(s) \/ Shut(s)
    /\ o.failed => Excused(s)
    /\ o.eventEnd => ss.life \in {"ended", "gone"}
    /\ o.shutdownCompleted =>
          o.shutdownSent /\ ss.confirmed /\ LastId \notin Range(o.tokens)
    /\ o.pc = "failed" => o.failed
    /\ o.pc = "ended" => o.tokens = << >> /\ ss.life = "ended"
    /\ o.pc = "close" => ss.recording \/ Excused(s)

Truthful(s) ==
    /\ entry[s].life = "Failed" => Excused(s) \/ IsExhausted(session[s])
    /\ entry[s].life = "Ended" => session[s].confirmed \/ session[s].life = "none"

Concluded ==
    directory.result # "none" =>
        /\ directory.stopping /\ AllDone
        /\ directory.result = "ok" =>
              \A s \in Created : entry[s].life = "Ended" /\ ~entry[s].incomplete
                                    /\ ~entry[s].forced

SessionInv(s) == Placed(s) /\ Admission(s) /\ Tokens(s) /\ Orderly(s) /\ Truthful(s)

Inv == TypeOK /\ (\A s \in Sessions : SessionInv(s)) /\ Concluded

-----------------------------------------------------------------------------
(* What the operators on an entry change *)

Flags(e) == <<e.cancel, e.forced, e.incomplete, e.done>>

\* Push is for the store only (activity.rs:31-48).
LEMMA PushedIs ==
    ASSUME NEW e, IsEntry(e), NEW what, NEW size
    PROVE  /\ IsEntry(Pushed(e, what, size))
           /\ Pushed(e, what, size).life = e.life
           /\ Flags(Pushed(e, what, size)) = Flags(e)
  <1> DEFINE store == Push(e.store, what, size, e.pending)
  <1>1. Pushed(e, what, size) = [e EXCEPT !.store = store]
    BY DEF Pushed
  <1>2. Pushed(e, what, size) =
            [life |-> e.life, pending |-> e.pending, store |-> store, cancel |-> e.cancel,
             forced |-> e.forced, reportCancel |-> e.reportCancel,
             incomplete |-> e.incomplete, done |-> e.done]
    <2> HIDE DEF store
    <2> QED BY <1>1 DEF IsEntry
  <1> HIDE DEF store
  <1> QED BY <1>2 DEF IsEntry, Flags

\* A terminal state stays (entry.rs:81-101).
LEMMA TransitionedIs ==
    ASSUME NEW e, IsEntry(e), NEW life \in Lives
    PROVE  /\ IsEntry(Transitioned(e, life))
           /\ Transitioned(e, life).life = IF IsTerminal(e.life) THEN e.life ELSE life
           /\ Flags(Transitioned(e, life)) = Flags(e)
  <1>1. CASE IsTerminal(e.life)
    BY <1>1 DEF Transitioned
  <1>2. CASE ~IsTerminal(e.life)
    <2> DEFINE pending == IF IsTerminal(life) THEN {} ELSE e.pending
               moved   == [e EXCEPT !.life = life, !.pending = pending]
    <2>1. Transitioned(e, life) = Pushed(moved, Lifecycle(life), 1)
      BY <1>2 DEF Transitioned
    <2>2. moved = [life |-> life, pending |-> pending, store |-> e.store,
                   cancel |-> e.cancel, forced |-> e.forced,
                   reportCancel |-> e.reportCancel, incomplete |-> e.incomplete,
                   done |-> e.done]
      <3> DEFINE d == [e EXCEPT !.life = life]
      <3>1. d = [life |-> life, pending |-> e.pending, store |-> e.store,
                 cancel |-> e.cancel, forced |-> e.forced,
                 reportCancel |-> e.reportCancel, incomplete |-> e.incomplete,
                 done |-> e.done]
        BY DEF IsEntry
      <3>2. moved = [d EXCEPT !.pending = pending]
        BY DEF IsEntry
      <3> HIDE DEF pending, d
      <3> QED BY <3>1, <3>2
    <2>3. IsEntry(moved) /\ moved.life = life /\ Flags(moved) = Flags(e)
      <3> HIDE DEF pending, moved
      <3> QED BY <2>2 DEF IsEntry, Flags
    <2> HIDE DEF moved
    <2> QED BY <1>2, <2>1, <2>3, PushedIs
  <1> QED BY <1>1, <1>2

LEMMA AcceptedIs ==
    ASSUME NEW e, IsEntry(e), NEW id
    PROVE  /\ IsEntry(Accepted(e, id))
           /\ Accepted(e, id).life = e.life
           /\ Flags(Accepted(e, id)) = Flags(e)
  <1> DEFINE moved == [e EXCEPT !.pending = @ \cup {id}]
  <1>1. moved = [life |-> e.life, pending |-> e.pending \cup {id}, store |-> e.store,
                 cancel |-> e.cancel, forced |-> e.forced, reportCancel |-> e.reportCancel,
                 incomplete |-> e.incomplete, done |-> e.done]
    BY DEF IsEntry
  <1>2. IsEntry(moved) /\ moved.life = e.life /\ Flags(moved) = Flags(e)
    <2> HIDE DEF moved
    <2> QED BY <1>1 DEF IsEntry, Flags
  <1>3. Accepted(e, id) = Pushed(moved, [kind |-> "pending", life |-> "", id |-> id], 1)
    BY DEF Accepted
  <1> DEFINE what == [kind |-> "pending", life |-> "", id |-> id]
  <1> HIDE DEF moved, what
  <1>4. /\ IsEntry(Pushed(moved, what, 1)) /\ Pushed(moved, what, 1).life = moved.life
        /\ Flags(Pushed(moved, what, 1)) = Flags(moved)
    BY <1>2, PushedIs
  <1> QED BY <1>2, <1>3, <1>4 DEF what

LEMMA AcceptedEntryIs ==
    ASSUME NEW e, IsEntry(e), ~IsTerminal(e.life), NEW id
    PROVE  /\ IsEntry(AcceptedEntry(e, id))
           /\ AcceptedEntry(e, id).life = IF id = LastId THEN "Stopping" ELSE e.life
           /\ Flags(AcceptedEntry(e, id)) = Flags(e)
  <1>1. "Stopping" \in Lives
    BY DEF Lives
  <1>2. /\ IsEntry(Accepted(e, id)) /\ Accepted(e, id).life = e.life
        /\ Flags(Accepted(e, id)) = Flags(e)
    BY AcceptedIs
  <1> DEFINE a == Accepted(e, id)
  <1>3. /\ IsEntry(Transitioned(a, "Stopping"))
        /\ Transitioned(a, "Stopping").life = "Stopping"
        /\ Flags(Transitioned(a, "Stopping")) = Flags(a)
    <2> HIDE DEF a
    <2>1. IsEntry(a) /\ a.life = e.life
      BY <1>2 DEF a
    <2> QED BY <1>1, <2>1, TransitionedIs
  <1> QED BY <1>2, <1>3 DEF AcceptedEntry

LEMMA SettledEntryIs ==
    ASSUME NEW e, IsEntry(e), NEW id, NEW size
    PROVE  /\ IsEntry(SettledEntry(e, id, size))
           /\ SettledEntry(e, id, size).life = e.life
           /\ Flags(SettledEntry(e, id, size)) = Flags(e)
  <1> DEFINE moved == [e EXCEPT !.pending = @ \ {id}]
  <1>1. moved = [life |-> e.life, pending |-> e.pending \ {id}, store |-> e.store,
                 cancel |-> e.cancel, forced |-> e.forced, reportCancel |-> e.reportCancel,
                 incomplete |-> e.incomplete, done |-> e.done]
    BY DEF IsEntry
  <1>2. IsEntry(moved) /\ moved.life = e.life /\ Flags(moved) = Flags(e)
    <2> HIDE DEF moved
    <2> QED BY <1>1 DEF IsEntry, Flags
  <1>3. SettledEntry(e, id, size)
            = Pushed(moved, [kind |-> "settled", life |-> "", id |-> id], size)
    BY DEF SettledEntry
  <1> HIDE DEF moved
  <1> QED BY <1>2, <1>3, PushedIs

\* A report that was interrupted leaves its mark (entry.rs:121-130).
LEMMA ReportedIs ==
    ASSUME NEW e, IsEntry(e), NEW interrupted \in BOOLEAN
    PROVE  LET r == ReportedEntry(e, interrupted) IN
           /\ IsEntry(r) /\ r.life = e.life /\ r.cancel = e.cancel
           /\ r.forced = e.forced /\ r.done = e.done
  <1> DEFINE flag  == e.incomplete \/ interrupted
             moved == [e EXCEPT !.incomplete = flag]
             what  == [kind |-> "report", life |-> "", id |-> 0]
  <1>1. flag \in BOOLEAN
    BY DEF IsEntry
  <1> HIDE DEF flag
  <1>2. moved = [life |-> e.life, pending |-> e.pending, store |-> e.store,
                 cancel |-> e.cancel, forced |-> e.forced, reportCancel |-> e.reportCancel,
                 incomplete |-> flag, done |-> e.done]
    BY DEF IsEntry
  <1> HIDE DEF moved, what
  <1>3. IsEntry(moved) /\ moved.life = e.life /\ moved.cancel = e.cancel
        /\ moved.forced = e.forced /\ moved.done = e.done
    BY <1>1, <1>2 DEF IsEntry
  <1>4. IsEntry(Pushed(moved, what, 1)) /\ Pushed(moved, what, 1).life = moved.life
        /\ Flags(Pushed(moved, what, 1)) = Flags(moved)
    BY <1>3, PushedIs
  <1>5. ReportedEntry(e, interrupted) = Pushed(moved, what, 1)
    BY DEF moved, flag, what, ReportedEntry
  <1> DEFINE r == Pushed(moved, what, 1)
  <1> HIDE DEF r
  <1>6. /\ IsEntry(r) /\ r.life = e.life /\ r.cancel = e.cancel
        /\ r.forced = e.forced /\ r.done = e.done
    BY <1>3, <1>4 DEF r, Flags
  <1> QED BY <1>5, <1>6 DEF r

\* A stop that comes while the session starts cancels the start (entry.rs:151-170).
LEMMA StoppedIs ==
    ASSUME NEW e, IsEntry(e)
    PROVE  /\ IsEntry(Stopped(e))
           /\ Stopped(e).life = IF e.life \in {"absent", "Ended", "Failed"} THEN e.life
                                ELSE "Stopping"
           /\ e.cancel => Stopped(e).cancel
           /\ Stopped(e).forced = e.forced
           /\ Stopped(e).incomplete = e.incomplete
           /\ Stopped(e).done = e.done
  <1>1. CASE e.life \in {"absent", "Stopping", "Ended", "Failed"}
    BY <1>1 DEF Stopped, IsTerminal
  <1>2. CASE e.life \notin {"absent", "Stopping", "Ended", "Failed"}
    <2> DEFINE cancel == e.cancel \/ e.life = "Starting"
               moved  == [e EXCEPT !.cancel = cancel, !.life = "Stopping"]
    <2>1. cancel \in BOOLEAN /\ (e.cancel => cancel)
      BY DEF IsEntry
    <2>2. Stopped(e) = Pushed(moved, Lifecycle("Stopping"), 1)
      BY <1>2 DEF Stopped, IsTerminal
    <2> HIDE DEF cancel
    <2>3. moved = [life |-> "Stopping", pending |-> e.pending, store |-> e.store,
                   cancel |-> cancel, forced |-> e.forced,
                   reportCancel |-> e.reportCancel, incomplete |-> e.incomplete,
                   done |-> e.done]
      <3> DEFINE d == [e EXCEPT !.cancel = cancel]
      <3>1. d = [life |-> e.life, pending |-> e.pending, store |-> e.store,
                 cancel |-> cancel, forced |-> e.forced,
                 reportCancel |-> e.reportCancel, incomplete |-> e.incomplete,
                 done |-> e.done]
        BY DEF IsEntry
      <3>2. moved = [d EXCEPT !.life = "Stopping"]
        BY DEF IsEntry
      <3> HIDE DEF d
      <3> QED BY <3>1, <3>2
    <2> HIDE DEF moved
    <2>4. /\ IsEntry(moved) /\ moved.life = "Stopping" /\ (e.cancel => moved.cancel)
          /\ moved.forced = e.forced /\ moved.incomplete = e.incomplete /\ moved.done = e.done
      BY <2>1, <2>3 DEF IsEntry, Lives
    <2>5. /\ IsEntry(Stopped(e)) /\ Stopped(e).life = moved.life
          /\ Flags(Stopped(e)) = Flags(moved)
      BY <2>2, <2>4, PushedIs
    <2> QED BY <1>2, <2>4, <2>5 DEF Flags
  <1> QED BY <1>1, <1>2

LEMMA AbortedIs ==
    ASSUME NEW e, IsEntry(e)
    PROVE  /\ IsEntry(Aborted(e))
           /\ Aborted(e).life = e.life
           /\ e.cancel => Aborted(e).cancel
           /\ Aborted(e).incomplete = e.incomplete
           /\ Aborted(e).done = e.done
           /\ e.life \in {"absent"} \/ e.done => Aborted(e) = e
  <1>1. CASE e.done \/ e.life = "absent"
    BY <1>1 DEF Aborted
  <1>2. CASE ~(e.done \/ e.life = "absent")
    <2>1. Aborted(e) = [e EXCEPT !.forced = TRUE, !.cancel = TRUE, !.reportCancel = TRUE]
      BY <1>2 DEF Aborted
    <2>2. Aborted(e) = [life |-> e.life, pending |-> e.pending, store |-> e.store,
                        cancel |-> TRUE, forced |-> TRUE, reportCancel |-> TRUE,
                        incomplete |-> e.incomplete, done |-> e.done]
      BY <2>1 DEF IsEntry
    <2> QED BY <1>2, <2>2 DEF IsEntry
  <1> QED BY <1>1, <1>2

-----------------------------------------------------------------------------
(* The tokens of an owner *)

\* What RemoveAt leaves.
LEMMA RemoveAtIs ==
    ASSUME NEW S, NEW seq \in Seq(S), NEW i \in 1 .. Len(seq)
    PROVE  /\ RemoveAt(seq, i) \in Seq(S)
           /\ Len(RemoveAt(seq, i)) = Len(seq) - 1
           /\ \A j \in 1 .. Len(seq) - 1 :
                 RemoveAt(seq, i)[j] = IF j < i THEN seq[j] ELSE seq[j + 1]
  <1> DEFINE a == SubSeq(seq, 1, i - 1)
             b == SubSeq(seq, i + 1, Len(seq))
  <1>0. Len(seq) \in Nat /\ i \in 1 .. Len(seq)
    OBVIOUS
  <1>1. a \in Seq(S) /\ Len(a) = i - 1 /\ \A j \in 1 .. i - 1 : a[j] = seq[j]
    BY <1>0, SubSeqProperties
  <1>2. b \in Seq(S) /\ Len(b) = Len(seq) - i
        /\ \A j \in 1 .. Len(seq) - i : b[j] = seq[j + i]
    BY <1>0, SubSeqProperties
  <1>3. RemoveAt(seq, i) = a \o b
    BY DEF RemoveAt
  <1> HIDE DEF a, b
  <1>4. /\ a \o b \in Seq(S) /\ Len(a \o b) = Len(a) + Len(b)
        /\ \A j \in 1 .. Len(a) + Len(b) :
              (a \o b)[j] = IF j <= Len(a) THEN a[j] ELSE b[j - Len(a)]
    BY <1>1, <1>2, ConcatProperties
  <1>5. ASSUME NEW j \in 1 .. Len(seq) - 1
        PROVE  (a \o b)[j] = IF j < i THEN seq[j] ELSE seq[j + 1]
    <2>1. (a \o b)[j] = IF j <= i - 1 THEN a[j] ELSE b[j - (i - 1)]
      BY SMTT(30), <1>0, <1>1, <1>2, <1>4
    <2>2. CASE j < i
      BY <1>0, <1>1, <2>1, <2>2
    <2>3. CASE ~(j < i)
      <3>1. j - (i - 1) \in 1 .. Len(seq) - i /\ j - (i - 1) + i = j + 1
        BY <1>0, <2>3
      <3>2. b[j - (i - 1)] = seq[j + 1]
        BY <1>2, <3>1
      <3> QED BY <1>0, <2>1, <2>3, <3>2
    <2> QED BY <2>2, <2>3
  <1> QED BY <1>0, <1>1, <1>2, <1>3, <1>4, <1>5

\* A token that is received leaves, and it alone.
LEMMA TokenLeaves ==
    ASSUME NEW S, NEW seq \in Seq(S), NEW i \in 1 .. Len(seq), Distinct(seq)
    PROVE  /\ RemoveAt(seq, i) \in Seq(S)
           /\ Distinct(RemoveAt(seq, i))
           /\ Range(RemoveAt(seq, i)) = Range(seq) \ {seq[i]}
  <1> DEFINE r == RemoveAt(seq, i)
             n == Len(seq)
  <1>1. /\ r \in Seq(S) /\ Len(r) = n - 1
        /\ \A j \in 1 .. n - 1 : r[j] = IF j < i THEN seq[j] ELSE seq[j + 1]
    BY RemoveAtIs
  <1>2. n \in Nat /\ i \in 1 .. n /\ DOMAIN seq = 1 .. n
    OBVIOUS
  <1>3. DOMAIN r = 1 .. n - 1
    BY <1>1
  <1>4. \A j, k \in 1 .. n : seq[j] = seq[k] => j = k
    BY DEF Distinct
  <1> HIDE DEF r, n
  <1>5. Distinct(r)
    <2> SUFFICES ASSUME NEW j \in 1 .. n - 1, NEW k \in 1 .. n - 1, r[j] = r[k]
                 PROVE  j = k
      BY <1>1 DEF Distinct
    <2> DEFINE jj == IF j < i THEN j ELSE j + 1
               kk == IF k < i THEN k ELSE k + 1
    <2>1. jj \in 1 .. n /\ kk \in 1 .. n
      BY <1>2
    <2>2. r[j] = seq[jj] /\ r[k] = seq[kk]
      BY <1>1
    <2>3. jj = kk
      <3> HIDE DEF jj, kk
      <3> QED BY <1>4, <2>1, <2>2
    <2> QED BY <1>2, <2>3
  <1>6. ASSUME NEW x \in Range(r)
        PROVE  x \in Range(seq) \ {seq[i]}
    <2>1. PICK j \in 1 .. n - 1 : x = r[j]
      BY <1>3 DEF Range
    <2> DEFINE jj == IF j < i THEN j ELSE j + 1
    <2>2. jj \in 1 .. n /\ jj # i
      BY <1>2
    <2>3. x = seq[jj]
      BY <1>1, <2>1
    <2> HIDE DEF jj
    <2> QED BY <1>2, <1>4, <2>2, <2>3 DEF Range
  <1>7. ASSUME NEW x \in Range(seq), x # seq[i]
        PROVE  x \in Range(r)
    <2>1. PICK k \in 1 .. n : x = seq[k]
      BY <1>2 DEF Range
    <2> DEFINE j == IF k < i THEN k ELSE k - 1
    <2>2. k # i
      BY <1>7, <2>1
    <2>3. /\ j \in 1 .. n - 1
          /\ (IF j < i THEN j ELSE j + 1) = k
      BY <1>2, <2>2
    <2>4. r[j] = seq[k]
      <3> HIDE DEF j
      <3> QED BY <1>1, <2>3
    <2> HIDE DEF j
    <2> QED BY <1>3, <2>1, <2>3, <2>4 DEF Range
  <1>8. r \in Seq(S) /\ Distinct(r) /\ Range(r) = Range(seq) \ {seq[i]}
    BY <1>1, <1>5, <1>6, <1>7
  <1> QED BY <1>8 DEF r

\* A token that is kept is a new one.
LEMMA TokenComes ==
    ASSUME NEW S, NEW seq \in Seq(S), NEW x \in S, Distinct(seq), x \notin Range(seq)
    PROVE  /\ Append(seq, x) \in Seq(S)
           /\ Distinct(Append(seq, x))
           /\ Range(Append(seq, x)) = Range(seq) \cup {x}
  <1> DEFINE a == Append(seq, x)
             n == Len(seq)
  <1>1. /\ a \in Seq(S) /\ Len(a) = n + 1 /\ a[n + 1] = x
        /\ \A j \in 1 .. n : a[j] = seq[j]
    BY AppendProperties
  <1>2. n \in Nat /\ DOMAIN seq = 1 .. n
    OBVIOUS
  <1>3. DOMAIN a = 1 .. n + 1
    BY <1>1
  <1>4. /\ \A j, k \in 1 .. n : seq[j] = seq[k] => j = k
        /\ \A j \in 1 .. n : seq[j] # x
    BY <1>2 DEF Distinct, Range
  <1> HIDE DEF a, n
  <1>5. Distinct(a)
    <2> SUFFICES ASSUME NEW j \in 1 .. n + 1, NEW k \in 1 .. n + 1, a[j] = a[k]
                 PROVE  j = k
      BY <1>1 DEF Distinct
    <2>1. CASE j \in 1 .. n /\ k \in 1 .. n
      BY <1>1, <1>4, <2>1
    <2>2. CASE j = n + 1 /\ k \in 1 .. n
      BY <1>1, <1>4, <2>2
    <2>3. CASE j \in 1 .. n /\ k = n + 1
      BY <1>1, <1>4, <2>3
    <2> QED BY <1>2, <2>1, <2>2, <2>3
  <1>6. \A y : y \in Range(a) <=> y \in Range(seq) \/ y = x
    BY <1>1, <1>2, <1>3 DEF Range
  <1>7. a \in Seq(S) /\ Distinct(a) /\ Range(a) = Range(seq) \cup {x}
    BY <1>1, <1>5, <1>6
  <1> QED BY <1>7 DEF a

LEMMA NoTokens ==
    ASSUME NEW S, NEW seq \in Seq(S)
    PROVE  /\ seq = << >> <=> Range(seq) = {}
           /\ \A i \in 1 .. Len(seq) : seq[i] \in S /\ seq[i] \in Range(seq)
  <1>1. Len(seq) \in Nat /\ DOMAIN seq = 1 .. Len(seq)
    OBVIOUS
  <1>2. seq = << >> <=> Len(seq) = 0
    BY EmptySeq
  <1>3. Len(seq) # 0 => seq[1] \in Range(seq)
    BY <1>1 DEF Range
  <1>4. Len(seq) = 0 => Range(seq) = {}
    BY <1>1 DEF Range
  <1>5. \A i \in 1 .. Len(seq) : seq[i] \in S /\ seq[i] \in Range(seq)
    BY <1>1 DEF Range
  <1> QED BY <1>2, <1>3, <1>4, <1>5

-----------------------------------------------------------------------------
(* Steps of one session *)

\* Nothing changes but what belongs to s.
Frame(s) ==
    /\ entry' = [t \in Sessions |-> IF t = s THEN entry'[s] ELSE entry[t]]
    /\ owner' = [t \in Sessions |-> IF t = s THEN owner'[s] ELSE owner[t]]
    /\ session' = [t \in Sessions |-> IF t = s THEN session'[s] ELSE session[t]]
    /\ reports' = [t \in Sessions |-> IF t = s THEN reports'[s] ELSE reports[t]]
    /\ trouble' = [t \in Sessions |-> IF t = s THEN trouble'[s] ELSE trouble[t]]
    /\ admitted' = [t \in Sessions |-> IF t = s THEN admitted'[s] ELSE admitted[t]]
    /\ UNCHANGED directory

TypedAt(s) ==
    /\ IsEntry(entry[s])
    /\ owner[s] \in Owners
    /\ session[s] \in SessionStates
    /\ reports[s] \in Nat
    /\ trouble[s] \in BOOLEAN
    /\ admitted[s] \in Nat

LEMMA TypesAt ==
    ASSUME TypeOK, NEW s \in Sessions
    PROVE  TypedAt(s)
  BY DEF TypeOK, TypedAt

\* An entry that is done stays as it is, and a server that stops creates none.
Settled(s) ==
    /\ entry[s].done => entry'[s] = entry[s]
    /\ entry[s].life = "absent" /\ directory.stopping => entry'[s].life = "absent"

LEMMA FrameTypes ==
    ASSUME TypeOK, NEW s \in Sessions, Frame(s), TypedAt(s)'
    PROVE  TypeOK'
  <1>1. entry' = [t \in Sessions |-> entry'[t]]
    BY DEF Frame
  <1>2. \A t \in Sessions : IsEntry(entry'[t])
    BY DEF Frame, TypeOK, TypedAt
  <1>3. /\ owner' \in [Sessions -> Owners]
        /\ session' \in [Sessions -> SessionStates]
    BY DEF Frame, TypeOK, TypedAt
  <1>4. /\ reports' \in [Sessions -> Nat]
        /\ trouble' \in [Sessions -> BOOLEAN]
        /\ admitted' \in [Sessions -> Nat]
    BY DEF Frame, TypeOK, TypedAt
  <1>5. directory' \in Directories
    BY DEF Frame, TypeOK
  <1> QED BY <1>1, <1>2, <1>3, <1>4, <1>5 DEF TypeOK

\* What a session is depends on what belongs to it, and on whether all are forced.
Same(s) ==
    /\ entry'[s] = entry[s] /\ owner'[s] = owner[s] /\ session'[s] = session[s]
    /\ reports'[s] = reports[s] /\ trouble'[s] = trouble[s] /\ admitted'[s] = admitted[s]

LEMMA SameInv ==
    ASSUME NEW s \in Sessions, SessionInv(s), Same(s), directory.forced => directory'.forced
    PROVE  SessionInv(s)'
  <1>1. Placed(s)'
    BY DEF SessionInv, Placed, Same, IsTerminal
  <1>2. Admission(s)'
    BY DEF SessionInv, Admission, Same, Sent
  <1>3. Tokens(s)'
    BY DEF SessionInv, Tokens, Same, Sent, IsOpen
  <1>4. Orderly(s)'
    BY DEF SessionInv, Orderly, Same, Excused, Shut, IsOfTheStop
  <1>5. Truthful(s)'
    BY DEF SessionInv, Truthful, Same, Excused, IsExhausted
  <1> QED BY <1>1, <1>2, <1>3, <1>4, <1>5 DEF SessionInv

LEMMA LocalStep ==
    ASSUME Inv, NEW s \in Sessions, Frame(s), TypedAt(s)', SessionInv(s)', Settled(s)
    PROVE  Inv'
  <1>1. TypeOK'
    BY FrameTypes DEF Inv
  <1>2. ASSUME NEW t \in Sessions, t # s
        PROVE  Same(t)
    BY <1>2 DEF Frame, Same
  <1>3. \A t \in Sessions : SessionInv(t)'
    <2> SUFFICES ASSUME NEW t \in Sessions, t # s
                 PROVE  SessionInv(t)'
      OBVIOUS
    <2>1. Same(t)
      BY <1>2
    <2>2. directory.forced => directory'.forced
      BY DEF Frame
    <2>3. SessionInv(t)
      BY DEF Inv
    <2> QED BY <2>1, <2>2, <2>3, SameInv
  <1>4. Concluded'
    <2> SUFFICES ASSUME directory.result # "none"
                 PROVE  Concluded'
      BY DEF Concluded, Frame
    <2>1. directory.stopping /\ AllDone
          /\ (directory.result = "ok" =>
                \A t \in Created : entry[t].life = "Ended" /\ ~entry[t].incomplete
                                     /\ ~entry[t].forced)
      BY DEF Inv, Concluded
    <2>2. ASSUME NEW t \in Sessions, entry'[t].life # "absent"
          PROVE  entry[t].life # "absent" /\ entry'[t] = entry[t]
      <3>1. CASE t # s
        BY <1>2, <2>2, <3>1 DEF Same
      <3>2. CASE t = s
        BY <2>1, <2>2, <3>2 DEF Settled, AllDone, Created
      <3> QED BY <3>1, <3>2
    <2> QED BY <2>1, <2>2 DEF Concluded, AllDone, Created, Frame
  <1> QED BY <1>1, <1>3, <1>4 DEF Inv

\* The owner only goes on: what it knows of its commands and of its stop stays.
SamePlan(s) ==
    LET o == owner[s] new == owner'[s] IN
    /\ new.tokens = o.tokens
    /\ new.replayStop = o.replayStop /\ new.replayStopped = o.replayStopped
    /\ new.stopSent = o.stopSent /\ new.recordingStop = o.recordingStop
    /\ new.shutdownSent = o.shutdownSent /\ new.shutdownCompleted = o.shutdownCompleted
    /\ new.eventEnd = o.eventEnd /\ new.failed = o.failed

Pcs == Starts \cup Turns \cup Over

LEMMA GoesTo ==
    ASSUME TypeOK, NEW s \in Sessions, NEW pc \in Pcs, Goes(s, pc)
    PROVE  /\ owner' = [t \in Sessions |-> IF t = s THEN owner'[s] ELSE owner[t]]
           /\ owner'[s] \in Owners
           /\ owner'[s] = [owner[s] EXCEPT !.pc = pc]
           /\ owner'[s].pc = pc
           /\ SamePlan(s)
  <1>1. owner[s] \in Owners /\ owner \in [Sessions -> Owners]
    BY DEF TypeOK
  <1>2. owner' = [owner EXCEPT ![s] = [owner[s] EXCEPT !.pc = pc]]
    BY DEF Goes
  <1>3. owner'[s] = [owner[s] EXCEPT !.pc = pc]
    BY <1>1, <1>2
  <1>4. owner'[s] \in Owners
    BY <1>1, <1>3 DEF Owners, Pcs
  <1>5. owner'[s].pc = pc /\ SamePlan(s)
    BY <1>1, <1>3 DEF Owners, SamePlan
  <1>6. owner' = [t \in Sessions |-> IF t = s THEN owner'[s] ELSE owner[t]]
    BY <1>1, <1>2
  <1> QED BY <1>3, <1>4, <1>5, <1>6

LEMMA TokensKept ==
    ASSUME NEW s \in Sessions, Tokens(s), SamePlan(s), session'[s] = session[s],
           owner'[s].pc \in Turns => owner[s].pc \in Turns
    PROVE  Tokens(s)'
  BY DEF Tokens, SamePlan, Sent, IsOpen

LEMMA OrderlyKept ==
    ASSUME NEW s \in Sessions, Orderly(s), SamePlan(s), session'[s] = session[s],
           Excused(s) => Excused(s)', owner'[s].pc \notin {"failed", "ended", "close"}
    PROVE  Orderly(s)'
  BY DEF Orderly, SamePlan, Shut, IsOfTheStop

LEMMA AdmissionKept ==
    ASSUME NEW s \in Sessions, Admission(s), SamePlan(s),
           session'[s].next = session[s].next, admitted'[s] = admitted[s],
           entry[s].life \notin {"absent", "Starting", "Ready"} =>
              entry'[s].life \notin {"absent", "Starting", "Ready"},
           owner'[s].pc \notin Over => owner[s].pc \notin Over,
           owner'[s].pc \notin {"act", "close"},
           owner'[s].pc \in Starts \cup Over =>
              owner'[s] = [NewOwner EXCEPT !.pc = owner'[s].pc]
    PROVE  Admission(s)'
  BY DEF Admission, SamePlan, Sent

Step(s) == Frame(s) /\ TypedAt(s)' /\ SessionInv(s)' /\ Settled(s)

\* entry' is entry but for s.
LEMMA EntryAt ==
    ASSUME TypeOK, NEW s \in Sessions, NEW e, entry' = [entry EXCEPT ![s] = e]
    PROVE  /\ entry' = [t \in Sessions |-> IF t = s THEN entry'[s] ELSE entry[t]]
           /\ entry'[s] = e
  BY DEF TypeOK

\* A start that fails (entry.rs:216-245).
LEMMA StartFailedStep ==
    ASSUME Inv, NEW s \in Sessions, NEW isEnded \in BOOLEAN,
           owner[s].pc \in {"prepare", "launch"}, StartFailed(s, isEnded),
           UNCHANGED <<session, reports, inbox, caller, directory, admitted>>,
           \/ isEnded /\ entry[s].cancel /\ UNCHANGED trouble
           \/ ~isEnded /\ trouble' = [trouble EXCEPT ![s] = TRUE]
    PROVE  Step(s)
  <1> DEFINE life == IF entry[s].life = "Stopping" /\ isEnded /\ ~entry[s].forced
                     THEN "Ended" ELSE "Failed"
  <1>1. TypeOK /\ TypedAt(s) /\ SessionInv(s)
    BY TypesAt DEF Inv
  <1>2. life \in {"Ended", "Failed"} /\ life \in Lives
    BY DEF Lives
  <1>3. ~IsTerminal(entry[s].life) /\ entry[s].life # "absent" /\ ~entry[s].done
        /\ session[s].life = "none"
    BY <1>1 DEF SessionInv, Placed, Starts, Over
  <1>4. entry' = [entry EXCEPT ![s] = Transitioned(entry[s], life)]
    BY DEF StartFailed
  <1>5. Goes(s, "join")
    BY DEF StartFailed
  <1> HIDE DEF life
  <1>6. /\ entry'[s] = Transitioned(entry[s], life)
        /\ entry' = [t \in Sessions |-> IF t = s THEN entry'[s] ELSE entry[t]]
    BY <1>1, <1>4, EntryAt
  <1>7. /\ IsEntry(entry'[s]) /\ entry'[s].life = life
        /\ Flags(entry'[s]) = Flags(entry[s])
    BY <1>1, <1>2, <1>3, <1>6, TransitionedIs DEF TypedAt
  <1>8. "join" \in Pcs /\ "join" \in Over /\ "join" \notin Starts /\ "join" \notin Turns
    BY DEF Pcs, Over, Starts, Turns
  <1>9. /\ owner' = [t \in Sessions |-> IF t = s THEN owner'[s] ELSE owner[t]]
        /\ owner'[s] \in Owners
        /\ owner'[s] = [owner[s] EXCEPT !.pc = "join"]
        /\ owner'[s].pc = "join"
        /\ SamePlan(s)
    BY <1>1, <1>5, <1>8, GoesTo
  <1>10. trouble' = [t \in Sessions |-> IF t = s THEN trouble'[s] ELSE trouble[t]]
         /\ trouble'[s] \in BOOLEAN /\ (trouble[s] => trouble'[s])
         /\ (trouble'[s] \/ entry'[s].cancel)
    BY <1>1, <1>7 DEF TypeOK, Flags
  <1>11. Frame(s)
    BY <1>1, <1>6, <1>9, <1>10 DEF Frame, TypeOK
  <1>12. TypedAt(s)'
    BY <1>1, <1>7, <1>9, <1>10 DEF TypedAt
  <1>13. Placed(s)'
    BY <1>1, <1>2, <1>3, <1>7, <1>8, <1>9 DEF SessionInv, Placed, IsTerminal, Flags
  <1>14. Admission(s)'
    <2>1. owner[s] = [NewOwner EXCEPT !.pc = owner[s].pc]
      BY <1>1 DEF SessionInv, Admission, Starts
    <2>2. owner'[s] = [NewOwner EXCEPT !.pc = "join"]
      BY <1>9, <2>1 DEF NewOwner
    <2> QED
      BY <1>1, <1>2, <1>7, <1>8, <1>9, <2>2, AdmissionKept DEF SessionInv
  <1>15. Tokens(s)'
    BY <1>1, <1>8, <1>9, TokensKept DEF SessionInv
  <1>16. Orderly(s)'
    BY <1>1, <1>7, <1>9, <1>10, OrderlyKept DEF SessionInv, Excused, Flags
  <1>17. Truthful(s)'
    BY <1>2, <1>3, <1>7, <1>10 DEF Truthful, Excused
  <1> QED BY <1>3, <1>11, <1>12, <1>13, <1>14, <1>15, <1>16, <1>17
          DEF Step, SessionInv, Settled

LEMMA PrepareStep ==
    ASSUME Inv, NEW s \in Sessions, Prepare(s)
    PROVE  Step(s)
  <1>1. CASE StartFailed(s, FALSE) /\ trouble' = [trouble EXCEPT ![s] = TRUE]
    BY <1>1, StartFailedStep DEF Prepare
  <1>2. CASE entry[s].cancel /\ StartFailed(s, TRUE) /\ UNCHANGED trouble
    BY <1>2, StartFailedStep DEF Prepare
  <1>3. CASE Goes(s, "launch") /\ UNCHANGED <<entry, trouble>>
    <2>1. TypeOK /\ TypedAt(s) /\ SessionInv(s) /\ owner[s].pc = "prepare"
      BY TypesAt DEF Inv, Prepare
    <2>2. "launch" \in Pcs /\ "launch" \in Starts /\ "launch" \notin Over
          /\ "launch" \notin Turns /\ "prepare" \in Starts
      BY DEF Pcs, Over, Starts, Turns
    <2>3. /\ owner' = [t \in Sessions |-> IF t = s THEN owner'[s] ELSE owner[t]]
          /\ owner'[s] \in Owners
          /\ owner'[s] = [owner[s] EXCEPT !.pc = "launch"]
          /\ owner'[s].pc = "launch"
          /\ SamePlan(s)
      BY <1>3, <2>1, <2>2, GoesTo
    <2>4. Frame(s)
      BY <1>3, <2>1, <2>3 DEF Frame, TypeOK, Prepare
    <2>5. TypedAt(s)'
      BY <1>3, <2>1, <2>3 DEF TypedAt, Prepare
    <2>6. Placed(s)'
      BY <1>3, <2>1, <2>2, <2>3 DEF SessionInv, Placed, IsTerminal, Prepare, Over, Starts, Turns
    <2>7. Admission(s)'
      <3>1. owner'[s] = [NewOwner EXCEPT !.pc = "launch"]
        BY <2>1, <2>2, <2>3 DEF SessionInv, Admission, NewOwner
      <3> QED
        BY <1>3, <2>1, <2>2, <2>3, <3>1, AdmissionKept
        DEF SessionInv, Prepare, Over
    <2>8. Tokens(s)'
      BY <1>3, <2>1, <2>2, <2>3, TokensKept DEF SessionInv, Prepare
    <2>9. Orderly(s)'
      BY <1>3, <2>1, <2>2, <2>3, OrderlyKept DEF SessionInv, Prepare, Excused
    <2>10. Truthful(s)'
      BY <1>3, <2>1 DEF SessionInv, Truthful, Excused, Prepare
    <2> QED BY <1>3, <2>4, <2>5, <2>6, <2>7, <2>8, <2>9, <2>10
            DEF Step, SessionInv, Settled
  <1> QED BY <1>1, <1>2, <1>3 DEF Prepare

LEMMA LaunchFailsStep ==
    ASSUME Inv, NEW s \in Sessions, LaunchFails(s)
    PROVE  Step(s)
  <1>1. CASE StartFailed(s, FALSE) /\ trouble' = [trouble EXCEPT ![s] = TRUE]
    BY <1>1, StartFailedStep DEF LaunchFails
  <1>2. CASE entry[s].cancel /\ StartFailed(s, TRUE) /\ UNCHANGED trouble
    BY <1>2, StartFailedStep DEF LaunchFails
  <1> QED BY <1>1, <1>2 DEF LaunchFails

LEMMA LaunchesStep ==
    ASSUME Inv, NEW s \in Sessions, Launches(s)
    PROVE  Step(s)
  <1>1. TypeOK /\ TypedAt(s) /\ SessionInv(s) /\ owner[s].pc = "launch"
    BY TypesAt DEF Inv, Launches
  <1>2. "ready" \in Pcs /\ "ready" \notin Starts /\ "ready" \notin Over
        /\ "ready" \in Turns /\ "launch" \in Starts /\ "launch" \notin Over
    BY DEF Pcs, Over, Starts, Turns
  <1>3. /\ owner' = [t \in Sessions |-> IF t = s THEN owner'[s] ELSE owner[t]]
        /\ owner'[s] \in Owners
        /\ owner'[s].pc = "ready"
        /\ SamePlan(s)
    BY <1>1, <1>2, GoesTo DEF Launches
  <1>4. session[s] = NewSession /\ owner[s] = [NewOwner EXCEPT !.pc = "launch"]
    BY <1>1, <1>2 DEF SessionInv, Placed, Tokens, Admission
  <1>5. /\ session' = [t \in Sessions |-> IF t = s THEN session'[s] ELSE session[t]]
        /\ session'[s] = [NewSession EXCEPT !.life = "live"]
    BY <1>1, <1>4 DEF Launches, TypeOK
  <1>6. session'[s] \in SessionStates /\ session'[s].next = session[s].next
        /\ session'[s].results = {} /\ session'[s].open = {} /\ session'[s].life = "live"
    <2>1. session'[s] = [life |-> "live", next |-> 1, open |-> {}, results |-> {},
                         events |-> 0, reported |-> FALSE, confirmed |-> FALSE,
                         recording |-> FALSE]
      BY <1>5 DEF NewSession
    <2>2. 1 \in AllIds
      BY LastIdAssumption DEF AllIds
    <2>3. session'[s] \in SessionStates
      BY <2>1, <2>2 DEF SessionStates
    <2> QED BY <1>4, <2>1, <2>3 DEF NewSession
  <1>7. Frame(s)
    BY <1>1, <1>3, <1>5 DEF Frame, TypeOK, Launches
  <1>8. TypedAt(s)'
    BY <1>1, <1>3, <1>6 DEF TypedAt, Launches
  <1>9. Placed(s)'
    BY <1>1, <1>2, <1>3, <1>6 DEF SessionInv, Placed, IsTerminal, Launches, Over, Starts, Turns
  <1>10. Admission(s)'
    BY <1>1, <1>2, <1>3, <1>6, AdmissionKept DEF SessionInv, Launches
  <1>11. owner'[s].tokens = << >> /\ owner'[s].replayStop = 0 /\ owner'[s].recordingStop = 0
         /\ ~owner'[s].failed /\ ~owner'[s].eventEnd /\ ~owner'[s].shutdownCompleted
    BY <1>3, <1>4 DEF SamePlan, NewOwner
  <1>12. Range(<< >>) = {} /\ Distinct(<< >>)
    BY EmptySeq DEF Range, Distinct
  <1>13. Tokens(s)'
    BY <1>6, <1>11, <1>12 DEF Tokens
  <1>14. Orderly(s)'
    BY <1>3, <1>6, <1>11 DEF Orderly
  <1>15. Truthful(s)'
    BY <1>1, <1>2 DEF SessionInv, Placed, IsTerminal, Over, Starts, Truthful, Launches
  <1> QED BY <1>1, <1>7, <1>8, <1>9, <1>10, <1>13, <1>14, <1>15
          DEF Step, SessionInv, Settled, Launches

\* A start that was not stopped makes the session ready (entry.rs:247-262).
LEMMA BecomesReadyStep ==
    ASSUME Inv, NEW s \in Sessions, BecomesReady(s)
    PROVE  Step(s)
  <1>1. TypeOK /\ TypedAt(s) /\ SessionInv(s) /\ owner[s].pc = "ready"
    BY TypesAt DEF Inv, BecomesReady
  <1>2. /\ "cancel" \in Pcs /\ "cancel" \notin Starts /\ "cancel" \notin Over
        /\ "cancel" \in Turns
        /\ "ready" \notin Starts /\ "ready" \notin Over /\ "ready" \in Turns
    BY DEF Pcs, Over, Starts, Turns
  <1>3. /\ owner' = [t \in Sessions |-> IF t = s THEN owner'[s] ELSE owner[t]]
        /\ owner'[s] \in Owners
        /\ owner'[s].pc = "cancel"
        /\ SamePlan(s)
    BY <1>1, <1>2, GoesTo DEF BecomesReady
  <1>4. ~IsTerminal(entry[s].life) /\ entry[s].life # "absent" /\ ~entry[s].done
    BY <1>1 DEF SessionInv, Placed, Over
  <1>5. /\ entry' = [t \in Sessions |-> IF t = s THEN entry'[s] ELSE entry[t]]
        /\ entry'[s] = IF entry[s].life = "Starting" THEN Transitioned(entry[s], "Ready")
                       ELSE entry[s]
    BY <1>1, EntryAt DEF BecomesReady
  <1>6. "Ready" \in Lives
    BY DEF Lives
  <1>7. /\ IsEntry(entry'[s]) /\ Flags(entry'[s]) = Flags(entry[s])
        /\ entry'[s].life = IF entry[s].life = "Starting" THEN "Ready" ELSE entry[s].life
    BY <1>1, <1>4, <1>5, <1>6, TransitionedIs DEF TypedAt
  <1>8. UNCHANGED <<session, reports, directory, trouble, admitted>>
    BY DEF BecomesReady, OwnerOnly
  <1>9. Frame(s)
    BY <1>1, <1>3, <1>5, <1>8 DEF Frame, TypeOK
  <1>10. TypedAt(s)'
    BY <1>1, <1>3, <1>7, <1>8 DEF TypedAt
  <1>11. Placed(s)'
    BY <1>1, <1>2, <1>3, <1>4, <1>7, <1>8
    DEF SessionInv, Placed, IsTerminal, Flags, Over, Starts, Turns
  <1>12. Admission(s)'
    BY <1>1, <1>2, <1>3, <1>7, <1>8, AdmissionKept DEF SessionInv
  <1>13. Tokens(s)'
    BY <1>1, <1>2, <1>3, <1>8, TokensKept DEF SessionInv
  <1>14. Orderly(s)'
    BY <1>1, <1>3, <1>7, <1>8, OrderlyKept DEF SessionInv, Excused, Flags
  <1>15. Truthful(s)'
    BY <1>4, <1>7 DEF Truthful, IsTerminal
  <1> QED BY <1>4, <1>9, <1>10, <1>11, <1>12, <1>13, <1>14, <1>15
          DEF Step, SessionInv, Settled

(***************************************************************************)
(* The owner leaves its loop with the last state of the session, which has *)
(* an excuse for a failure and the answer of the game for a regular end.   *)
(***************************************************************************)
Leaves(s, life) ==
    /\ entry' = [entry EXCEPT ![s] = Transitioned(@, life)]
    /\ Goes(s, "drop")
    /\ UNCHANGED <<session, reports, directory, trouble, admitted>>

LEMMA LeavesStep ==
    ASSUME Inv, NEW s \in Sessions, NEW life \in {"Ended", "Failed"}, Leaves(s, life),
           owner[s].pc \in Turns \ {"drop"},
           life = "Failed" => Excused(s) \/ IsExhausted(session[s]),
           life = "Ended" => session[s].confirmed
    PROVE  Step(s)
  <1>1. TypeOK /\ TypedAt(s) /\ SessionInv(s)
    BY TypesAt DEF Inv
  <1>2. /\ "drop" \in Pcs /\ "drop" \notin Starts /\ "drop" \notin Over /\ "drop" \in Turns
        /\ owner[s].pc \notin Starts /\ owner[s].pc \notin Over
    BY DEF Pcs, Over, Starts, Turns
  <1>3. /\ owner' = [t \in Sessions |-> IF t = s THEN owner'[s] ELSE owner[t]]
        /\ owner'[s] \in Owners
        /\ owner'[s].pc = "drop"
        /\ SamePlan(s)
    BY <1>1, <1>2, GoesTo DEF Leaves
  <1>4. ~IsTerminal(entry[s].life) /\ entry[s].life # "absent" /\ ~entry[s].done
    BY <1>1, <1>2 DEF SessionInv, Placed, Over, Turns
  <1>5. /\ entry' = [t \in Sessions |-> IF t = s THEN entry'[s] ELSE entry[t]]
        /\ entry'[s] = Transitioned(entry[s], life)
    BY <1>1, EntryAt DEF Leaves
  <1>6. life \in Lives
    BY DEF Lives
  <1>7. /\ IsEntry(entry'[s]) /\ Flags(entry'[s]) = Flags(entry[s])
        /\ entry'[s].life = life
    BY <1>1, <1>4, <1>5, <1>6, TransitionedIs DEF TypedAt
  <1>8. UNCHANGED <<session, reports, directory, trouble, admitted>>
    BY DEF Leaves
  <1>9. Frame(s)
    BY <1>1, <1>3, <1>5, <1>8 DEF Frame, TypeOK
  <1>10. TypedAt(s)'
    BY <1>1, <1>3, <1>7, <1>8 DEF TypedAt
  <1>11. Placed(s)'
    BY <1>1, <1>2, <1>3, <1>4, <1>7, <1>8
    DEF SessionInv, Placed, IsTerminal, Flags, Over, Starts, Turns
  <1>12. Admission(s)'
    BY <1>1, <1>2, <1>3, <1>7, <1>8, AdmissionKept DEF SessionInv
  <1>13. Tokens(s)'
    BY <1>1, <1>2, <1>3, <1>8, TokensKept DEF SessionInv
  <1>14. Orderly(s)'
    BY <1>1, <1>3, <1>7, <1>8, OrderlyKept DEF SessionInv, Excused, Flags
  <1>15. Truthful(s)'
    BY <1>7, <1>8 DEF Truthful, Excused, IsExhausted, Flags
  <1> QED BY <1>4, <1>9, <1>10, <1>11, <1>12, <1>13, <1>14, <1>15
          DEF Step, SessionInv, Settled

LEMMA ReturnsStep ==
    ASSUME Inv, NEW s \in Sessions, Returns(s)
    PROVE  Step(s)
  <1> DEFINE life == IF owner[s].pc = "ended" /\ owner[s].shutdownCompleted
                     THEN "Ended" ELSE "Failed"
  <1>1. TypeOK /\ TypedAt(s) /\ SessionInv(s) /\ owner[s].pc \in {"failed", "ended"}
    BY TypesAt DEF Inv, Returns
  <1>2. Leaves(s, life)
    BY DEF Leaves, Returns, OwnerOnly
  <1>3. life = "Ended" => session[s].confirmed
    BY <1>1 DEF SessionInv, Orderly
  <1>4. life = "Failed" => Excused(s)
    <2>1. CASE owner[s].pc = "failed"
      BY <1>1, <2>1 DEF SessionInv, Orderly
    <2>2. CASE owner[s].pc = "ended" /\ ~owner[s].shutdownCompleted
      <3>1. owner[s].tokens = << >> /\ session[s].life = "ended"
        BY <1>1, <2>2 DEF SessionInv, Orderly
      <3>2. Range(<< >>) = {} /\ owner[s].pc \in Turns
        BY <2>2, EmptySeq DEF Range, Turns
      <3>3. session[s].results = {}
        BY <1>1, <3>1, <3>2 DEF SessionInv, Tokens
      <3> QED BY <1>1, <2>2, <3>1, <3>3 DEF SessionInv, Orderly, Shut
    <2> QED BY <1>1, <2>1, <2>2
  <1>5. owner[s].pc \in Turns \ {"drop"} /\ life \in {"Ended", "Failed"}
    BY <1>1 DEF Turns
  <1> HIDE DEF life
  <1> QED BY <1>2, <1>3, <1>4, <1>5, LeavesStep

LEMMA CheckCancelStep ==
    ASSUME Inv, NEW s \in Sessions, CheckCancel(s)
    PROVE  Step(s)
  <1>1. TypeOK /\ TypedAt(s) /\ SessionInv(s) /\ owner[s].pc = "cancel"
    BY TypesAt DEF Inv, CheckCancel
  <1>2. CASE entry[s].cancel
    <2>1. Leaves(s, "Failed")
      BY <1>2 DEF Leaves, CheckCancel, OwnerOnly
    <2>2. owner[s].pc \in Turns \ {"drop"} /\ Excused(s)
      BY <1>1, <1>2 DEF Turns, Excused
    <2> QED BY <2>1, <2>2, LeavesStep
  <1>3. CASE ~entry[s].cancel
    <2>1. /\ owner' = [owner EXCEPT ![s].pc = "take", ![s].budget = Batch]
          /\ UNCHANGED <<entry, session, reports, directory, trouble, admitted>>
      BY <1>3 DEF CheckCancel, OwnerOnly
    <2>2. /\ "take" \notin Starts /\ "take" \notin Over /\ "take" \in Turns
          /\ "cancel" \in Turns /\ "cancel" \notin Starts /\ "cancel" \notin Over
      BY DEF Over, Starts, Turns
    <2>3. /\ owner' = [t \in Sessions |-> IF t = s THEN owner'[s] ELSE owner[t]]
          /\ owner'[s] = [owner[s] EXCEPT !.pc = "take", !.budget = Batch]
      BY <1>1, <2>1 DEF TypeOK
    <2>4. owner'[s] \in Owners /\ owner'[s].pc = "take" /\ SamePlan(s)
      BY <1>1, <2>2, <2>3, BatchAssumption DEF TypedAt, Owners, SamePlan
    <2>5. Frame(s) /\ TypedAt(s)'
      BY <1>1, <2>1, <2>3, <2>4 DEF Frame, TypeOK, TypedAt
    <2>6. Placed(s)'
      BY <1>1, <2>1, <2>2, <2>4 DEF SessionInv, Placed, IsTerminal, Over, Starts, Turns
    <2>7. Admission(s)'
      BY <1>1, <2>1, <2>2, <2>4, AdmissionKept DEF SessionInv
    <2>8. Tokens(s)'
      BY <1>1, <2>1, <2>2, <2>4, TokensKept DEF SessionInv
    <2>9. Orderly(s)'
      BY <1>1, <2>1, <2>4, OrderlyKept DEF SessionInv, Excused
    <2>10. Truthful(s)'
      BY <1>1, <2>1 DEF SessionInv, Truthful, Excused, IsExhausted
    <2> QED BY <2>1, <2>5, <2>6, <2>7, <2>8, <2>9, <2>10 DEF Step, SessionInv, Settled
  <1> QED BY <1>2, <1>3

\* The owner goes on in its turn, and nothing else happens.
LEMMA TurnStep ==
    ASSUME Inv, NEW s \in Sessions,
           owner[s].pc \in Turns \ {"drop"},
           owner' = [t \in Sessions |-> IF t = s THEN owner'[s] ELSE owner[t]],
           owner'[s] \in Owners,
           owner'[s].pc \in Turns \ {"drop", "act", "close", "failed", "ended"},
           SamePlan(s),
           UNCHANGED <<entry, session, reports, directory, trouble, admitted>>
    PROVE  Step(s)
  <1>1. TypeOK /\ TypedAt(s) /\ SessionInv(s)
    BY TypesAt DEF Inv
  <1>2. /\ owner[s].pc \in Turns \ {"drop"} /\ owner'[s].pc \in Turns \ {"drop"}
        /\ owner[s].pc \notin Starts \cup Over /\ owner'[s].pc \notin Starts \cup Over
        /\ owner[s].pc # "absent" /\ owner'[s].pc # "absent"
        /\ owner[s].pc # "done" /\ owner'[s].pc # "done"
    BY DEF Starts, Turns, Over
  <1>3. Frame(s) /\ TypedAt(s)'
    BY <1>1 DEF Frame, TypeOK, TypedAt
  <1>4. Placed(s)'
    BY <1>1, <1>2 DEF SessionInv, Placed, IsTerminal
  <1>5. Admission(s)'
    BY <1>1, <1>2, AdmissionKept DEF SessionInv
  <1>6. Tokens(s)'
    BY <1>1, <1>2, TokensKept DEF SessionInv
  <1>7. Orderly(s)'
    BY <1>1, <1>2, OrderlyKept DEF SessionInv, Excused
  <1>8. Truthful(s)'
    BY <1>1 DEF SessionInv, Truthful, Excused, IsExhausted
  <1> QED BY <1>3, <1>4, <1>5, <1>6, <1>7, <1>8 DEF Step, SessionInv, Settled

LEMMA EndTakeStep ==
    ASSUME Inv, NEW s \in Sessions, EndTake(s)
    PROVE  Step(s)
  <1>1. TypeOK /\ owner[s] \in Owners /\ owner[s].pc = "take"
    BY DEF Inv, EndTake, TypeOK
  <1>2. owner' = [owner EXCEPT ![s].pc = "receive", ![s].at = 1, ![s].budget = Batch]
    BY DEF EndTake
  <1>3. /\ owner' = [t \in Sessions |-> IF t = s THEN owner'[s] ELSE owner[t]]
        /\ owner'[s] = [owner[s] EXCEPT !.pc = "receive", !.at = 1, !.budget = Batch]
    BY <1>1, <1>2 DEF TypeOK
  <1>4. /\ "receive" \in Turns \ {"drop", "act", "close", "failed", "ended"}
        /\ "take" \in Turns \ {"drop"}
    BY DEF Turns
  <1>5. owner'[s] \in Owners /\ owner'[s].pc = "receive" /\ SamePlan(s)
    <2> DEFINE p == [owner[s] EXCEPT !.pc = "receive"]
               a == [p EXCEPT !.at = 1]
    <2>1. owner'[s] = [a EXCEPT !.budget = Batch]
      BY <1>3
    <2>2. p \in Owners
      BY <1>1, <1>4 DEF Owners
    <2>3. p.pc = "receive"
      BY <1>1 DEF Owners
    <2>4. a \in Owners /\ a.pc = "receive"
      <3> HIDE DEF p
      <3> QED BY <2>2, <2>3 DEF Owners
    <2>5. owner'[s] \in Owners /\ owner'[s].pc = "receive"
      <3> HIDE DEF a
      <3> QED BY <2>1, <2>4, BatchAssumption DEF Owners
    <2>6. SamePlan(s)
      BY <1>1, <1>3 DEF Owners, SamePlan
    <2> QED BY <2>5, <2>6
  <1> QED BY <1>1, <1>3, <1>4, <1>5, TurnStep DEF EndTake, OwnerOnly

LEMMA WaitStep ==
    ASSUME Inv, NEW s \in Sessions, Wait(s)
    PROVE  Step(s)
  <1>1. TypeOK /\ owner[s].pc = "act"
    BY DEF Inv, Wait
  <1>2. /\ "cancel" \in Turns \ {"drop", "act", "close", "failed", "ended"}
        /\ "act" \in Turns \ {"drop"} /\ "cancel" \in Pcs
    BY DEF Turns, Pcs
  <1> QED BY <1>1, <1>2, GoesTo, TurnStep DEF Wait, OwnerOnly

\* A failure becomes a report.
LEMMA TakeEventStep ==
    ASSUME Inv, NEW s \in Sessions, TakeEvent(s)
    PROVE  Step(s)
  <1> DEFINE what == [kind |-> "event", life |-> "", id |-> 0]
  <1>1. TypeOK /\ TypedAt(s) /\ SessionInv(s) /\ owner[s].pc = "receive"
    BY TypesAt DEF Inv, TakeEvent, AtEvents
  <1>2. /\ "receive" \in Turns /\ "receive" \notin Starts /\ "receive" \notin Over
    BY DEF Turns, Starts, Over
  <1>3. ~IsTerminal(entry[s].life) /\ entry[s].life # "absent" /\ ~entry[s].done
    BY <1>1, <1>2 DEF SessionInv, Placed, Over
  <1>4. /\ owner' = [t \in Sessions |-> IF t = s THEN owner'[s] ELSE owner[t]]
        /\ owner'[s] = [owner[s] EXCEPT !.budget = owner[s].budget - 1]
        /\ session' = [t \in Sessions |-> IF t = s THEN session'[s] ELSE session[t]]
        /\ session'[s] = [session[s] EXCEPT !.events = session[s].events - 1]
    BY <1>1 DEF TakeEvent, TypeOK
  <1>5. owner[s].budget - 1 \in Nat /\ session[s].events - 1 \in Nat
    <2>1. owner[s].budget \in Nat /\ session[s].events \in Nat
      BY <1>1 DEF TypedAt, Owners, SessionStates
    <2>2. owner[s].budget > 0 /\ session[s].events > 0
      BY DEF TakeEvent
    <2> QED BY <2>1, <2>2
  <1>6. owner'[s] \in Owners /\ owner'[s].pc = "receive" /\ SamePlan(s)
    BY <1>1, <1>4, <1>5 DEF TypedAt, Owners, SamePlan
  <1>7. /\ session'[s] \in SessionStates /\ session'[s].open = session[s].open
        /\ session'[s].results = session[s].results /\ session'[s].life = session[s].life
        /\ session'[s].next = session[s].next
        /\ session'[s].confirmed = session[s].confirmed
    BY <1>1, <1>4, <1>5 DEF TypedAt, SessionStates
  <1>8. /\ entry' = [t \in Sessions |-> IF t = s THEN entry'[s] ELSE entry[t]]
        /\ entry'[s] = Pushed(entry[s], what, 1)
    BY <1>1, EntryAt DEF TakeEvent
  <1> HIDE DEF what
  <1>9. /\ IsEntry(entry'[s]) /\ Flags(entry'[s]) = Flags(entry[s])
        /\ entry'[s].life = entry[s].life
    BY <1>1, <1>8, PushedIs DEF TypedAt
  <1>10. /\ reports' = [t \in Sessions |-> IF t = s THEN reports'[s] ELSE reports[t]]
         /\ reports'[s] \in Nat
    <2>1. reports' = [reports EXCEPT ![s] = reports[s] + 1]
      BY DEF TakeEvent
    <2>2. reports \in [Sessions -> Nat]
      BY <1>1 DEF TypeOK
    <2> DEFINE n == reports[s] + 1
    <2>3. n \in Nat
      BY <2>2
    <2> HIDE DEF n
    <2>4. reports' = [reports EXCEPT ![s] = n]
      BY <2>1 DEF n
    <2> QED BY <2>2, <2>3, <2>4
  <1>11. UNCHANGED <<directory, trouble, admitted>>
    BY DEF TakeEvent
  <1>12. Frame(s) /\ TypedAt(s)'
    BY <1>1, <1>4, <1>6, <1>7, <1>8, <1>9, <1>10, <1>11 DEF Frame, TypeOK, TypedAt
  <1>13. Placed(s)'
    BY <1>1, <1>2, <1>3, <1>6, <1>7, <1>9, <1>11
    DEF SessionInv, Placed, IsTerminal, Flags, Over, Starts, Turns
  <1>14. Admission(s)'
    BY <1>1, <1>2, <1>6, <1>7, <1>9, <1>11, AdmissionKept DEF SessionInv
  <1>15. Tokens(s)'
    <2>1. session'[s].life # "none"
      BY <1>1, <1>2, <1>7 DEF SessionInv, Placed
    <2> QED BY <1>1, <1>2, <1>6, <1>7, <2>1 DEF SessionInv, Tokens, SamePlan, Sent, IsOpen
  <1>16. Orderly(s)'
    BY <1>1, <1>6, <1>7, <1>9, <1>11
    DEF SessionInv, Orderly, SamePlan, Shut, IsOfTheStop, Excused, Flags
  <1>17. Truthful(s)'
    BY <1>3, <1>9 DEF Truthful, IsTerminal
  <1> QED BY <1>3, <1>12, <1>13, <1>14, <1>15, <1>16, <1>17 DEF Step, SessionInv, Settled

\* Where run() goes when it has looked at the events.
LEMMA EndEventsStep ==
    ASSUME Inv, NEW s \in Sessions, EndEvents(s)
    PROVE  Step(s)
  <1> DEFINE looks   == owner[s].budget > 0 /\ ~owner[s].eventEnd
             ended   == session[s].life = "ended"
             drained == looks /\ ~ended
             end     == owner[s].eventEnd \/ (looks /\ ended)
             o       == [owner[s] EXCEPT !.eventEnd = end]
             next    == IF Fails(o, drained) THEN "failed"
                        ELSE IF Ends(o) THEN "ended" ELSE "act"
             sent    == owner[s].shutdownSent \/ (next = "act" /\ LastId \in Range(o.tokens))
  <1>1. TypeOK /\ TypedAt(s) /\ SessionInv(s) /\ owner[s].pc = "receive"
    BY TypesAt DEF Inv, EndEvents, AtEvents
  <1>2. /\ "receive" \in Turns /\ "receive" \notin Starts /\ "receive" \notin Over
        /\ {"failed", "ended", "act"} \subseteq Turns \ ({"drop"} \cup Starts \cup Over)
    BY DEF Turns, Starts, Over
  <1>3. UNCHANGED <<entry, session, reports, directory, trouble, admitted>>
    BY DEF EndEvents, OwnerOnly
  <1>4. owner' = [owner EXCEPT ![s] = [o EXCEPT !.pc = next, !.at = 1, !.shutdownSent = sent]]
    <2>1. o.shutdownSent = owner[s].shutdownSent
      BY <1>1 DEF TypedAt, Owners
    <2> QED BY <2>1 DEF EndEvents
  <1>5. end \in BOOLEAN /\ sent \in BOOLEAN /\ next \in {"failed", "ended", "act"}
    BY <1>1 DEF TypedAt, Owners
  <1>6. /\ o.tokens = owner[s].tokens /\ o.failed = owner[s].failed /\ o.eventEnd = end
        /\ next = "failed" => o.failed
        /\ next = "ended" => o.tokens = << >> /\ end
    BY <1>1, <1>5 DEF TypedAt, Owners, Fails, Ends
  <1>7. end => session[s].life \in {"ended", "gone"}
    BY <1>1 DEF SessionInv, Orderly
  <1>8. /\ owner[s].shutdownSent => sent
        /\ sent => Sent(owner[s])
        /\ next = "act" /\ ~sent => LastId \notin Range(owner[s].tokens)
    BY <1>6 DEF Sent
  <1> HIDE DEF end, sent, next
  <1>9. /\ owner' = [t \in Sessions |-> IF t = s THEN owner'[s] ELSE owner[t]]
        /\ owner'[s] = [owner[s] EXCEPT !.eventEnd = end, !.pc = next, !.at = 1,
                                        !.shutdownSent = sent]
    BY <1>1, <1>4 DEF TypeOK
  <1>10. /\ owner'[s] \in Owners
         /\ owner'[s].pc = next /\ owner'[s].tokens = owner[s].tokens
         /\ owner'[s].replayStop = owner[s].replayStop
         /\ owner'[s].recordingStop = owner[s].recordingStop
         /\ owner'[s].stopSent = owner[s].stopSent
         /\ owner'[s].shutdownSent = sent
         /\ owner'[s].shutdownCompleted = owner[s].shutdownCompleted
         /\ owner'[s].failed = owner[s].failed
         /\ owner'[s].eventEnd = end
    <2> HIDE DEF o
    <2>1. owner[s] \in Owners
      BY <1>1 DEF TypedAt
    <2> DEFINE a == [owner[s] EXCEPT !.eventEnd = end]
               b == [a EXCEPT !.pc = next]
               c == [b EXCEPT !.at = 1]
    <2>2. owner'[s] = [c EXCEPT !.shutdownSent = sent]
      BY <1>9
    <2>3. a \in Owners
      BY <1>5, <2>1 DEF Owners
    <2>4. b \in Owners
      <3> HIDE DEF a
      <3> QED BY <1>2, <1>5, <2>3 DEF Owners
    <2>5. c \in Owners
      <3> HIDE DEF b
      <3> QED BY <2>4 DEF Owners
    <2>6. owner'[s] \in Owners
      <3> HIDE DEF c
      <3> QED BY <1>5, <2>2, <2>5 DEF Owners
    <2>7. /\ owner'[s].pc = next /\ owner'[s].tokens = owner[s].tokens
          /\ owner'[s].replayStop = owner[s].replayStop
          /\ owner'[s].recordingStop = owner[s].recordingStop
          /\ owner'[s].stopSent = owner[s].stopSent
      BY <1>9, <2>1 DEF Owners
    <2>8. /\ owner'[s].shutdownSent = sent
          /\ owner'[s].shutdownCompleted = owner[s].shutdownCompleted
          /\ owner'[s].failed = owner[s].failed
          /\ owner'[s].eventEnd = end
      BY <1>9, <2>1 DEF Owners
    <2> QED BY <2>6, <2>7, <2>8
  <1>11. Sent(owner'[s]) => Sent(owner[s])
    BY <1>8, <1>10 DEF Sent
  <1>12. Sent(owner[s]) => Sent(owner'[s])
    BY <1>8, <1>10 DEF Sent
  <1>13. Frame(s) /\ TypedAt(s)'
    BY <1>1, <1>3, <1>9, <1>10 DEF Frame, TypeOK, TypedAt
  <1>14. Placed(s)'
    BY <1>1, <1>2, <1>3, <1>5, <1>10
    DEF SessionInv, Placed, IsTerminal, Over, Starts, Turns
  <1>15. Admission(s)'
    BY <1>1, <1>2, <1>3, <1>5, <1>8, <1>10, <1>11, <1>12 DEF SessionInv, Admission
  <1>16. Tokens(s)'
    BY <1>1, <1>2, <1>3, <1>10, <1>11 DEF SessionInv, Tokens, IsOpen
  <1>17. Orderly(s)'
    <2>1. next = "ended" => session[s].life = "ended"
      BY <1>1, <1>2, <1>6, <1>7 DEF SessionInv, Placed
    <2>2. owner'[s].pc # "close"
      BY <1>5, <1>10
    <2> QED BY <1>1, <1>3, <1>6, <1>7, <1>8, <1>10, <2>1, <2>2
            DEF SessionInv, Orderly, Shut, IsOfTheStop, Excused
  <1>18. Truthful(s)'
    BY <1>1, <1>3 DEF SessionInv, Truthful, Excused, IsExhausted
  <1> QED BY <1>3, <1>13, <1>14, <1>15, <1>16, <1>17, <1>18 DEF Step, SessionInv, Settled

-----------------------------------------------------------------------------
(* Commands *)

\* What submit() does when it does not refuse (coordinator.rs:356-418).
LEMMA SubmittedIs ==
    ASSUME NEW ss \in SessionStates, NEW kind \in ServedKinds, Refusal(ss, kind) = "none"
    PROVE  LET id  == IdFor(ss, kind)
               new == Submitted(ss, kind)
               rej == IsRejected(ss, kind)
           IN  /\ ss.life = "live" /\ ~IsOpen(ss, {"shutdown"})
               /\ id \in AllIds /\ (id = LastId <=> kind = "shutdown")
               /\ id # LastId => id = ss.next /\ new.next = ss.next + 1
               /\ id = LastId => new.next = ss.next /\ ~rej
               /\ new \in SessionStates
               /\ new.life = ss.life /\ new.confirmed = ss.confirmed
               /\ new.open = IF rej THEN ss.open
                             ELSE ss.open \cup {[id |-> id, kind |-> kind]}
               /\ new.results = IF rej THEN ss.results \cup {[id |-> id, outcome |-> "rejected"]}
                                ELSE ss.results
  <1> DEFINE id   == IdFor(ss, kind)
             rej  == IsRejected(ss, kind)
             next == IF kind = "shutdown" THEN ss.next ELSE ss.next + 1
             open == IF rej THEN ss.open ELSE ss.open \cup {[id |-> id, kind |-> kind]}
             results == IF rej THEN ss.results \cup {[id |-> id, outcome |-> "rejected"]}
                        ELSE ss.results
  <1>1. ss.life = "live" /\ ~IsOpen(ss, {"shutdown"})
        /\ (kind # "shutdown" => ss.next # LastId)
    BY DEF Refusal, IsExhausted
  <1>2. ss.next \in 1 .. LastId /\ LastId \in Nat /\ LastId > 1
    BY LastIdAssumption DEF SessionStates, AllIds
  <1>3. id \in AllIds /\ (id = LastId <=> kind = "shutdown")
    BY <1>1, <1>2 DEF IdFor, AllIds
  <1>4. next \in AllIds /\ (id # LastId => id = ss.next /\ next = ss.next + 1)
        /\ (id = LastId => next = ss.next)
    BY <1>1, <1>2, <1>3 DEF IdFor, AllIds
  <1>5. id = LastId => ~rej
    BY <1>3 DEF IsRejected
  <1>6. open \in SUBSET Commands
    <2>1. ss.open \in SUBSET Commands
      BY DEF SessionStates
    <2>2. [id |-> id, kind |-> kind] \in Commands
      <3> HIDE DEF id
      <3> QED BY <1>3 DEF Commands
    <2> HIDE DEF id, rej
    <2> QED BY <2>1, <2>2
  <1>7. results \in SUBSET Results
    <2>1. ss.results \in SUBSET Results
      BY DEF SessionStates
    <2>2. [id |-> id, outcome |-> "rejected"] \in Results
      <3> HIDE DEF id
      <3> QED BY <1>3 DEF Results
    <2> HIDE DEF id, rej
    <2> QED BY <2>1, <2>2
  <1>8. Submitted(ss, kind) = [ss EXCEPT !.next = next, !.open = open, !.results = results]
    BY DEF Submitted
  <1> HIDE DEF id, rej, next, open, results
  <1> DEFINE a == [ss EXCEPT !.next = next]
             b == [a EXCEPT !.open = open]
  <1>9. Submitted(ss, kind) = [b EXCEPT !.results = results]
    BY <1>8
  <1>10. a \in SessionStates /\ a.life = ss.life /\ a.confirmed = ss.confirmed
         /\ a.next = next
    BY <1>4 DEF SessionStates
  <1> HIDE DEF a
  <1>11. b \in SessionStates /\ b.life = ss.life /\ b.confirmed = ss.confirmed
         /\ b.next = next /\ b.open = open
    BY <1>6, <1>10 DEF SessionStates
  <1> HIDE DEF b
  <1>12. LET new == Submitted(ss, kind) IN
         /\ new \in SessionStates /\ new.life = ss.life /\ new.confirmed = ss.confirmed
         /\ new.next = next /\ new.open = open /\ new.results = results
    BY <1>7, <1>9, <1>11 DEF SessionStates
  <1> QED BY <1>1, <1>3, <1>4, <1>5, <1>12 DEF id, rej, open, results

(***************************************************************************)
(* The owner accepts a command, for a caller or for the stop.  What is of  *)
(* the stop is never answered with a rejection at once.                    *)
(***************************************************************************)
LEMMA AcceptsStep ==
    ASSUME Inv, NEW s \in Sessions, NEW kind \in ServedKinds, NEW after \in Owners,
           Accepts(s, kind, after),
           owner[s].pc \in {"take", "act", "close"}, after.pc \in {"take", "cancel"},
           after.tokens = owner[s].tokens, after.eventEnd = owner[s].eventEnd,
           after.failed = owner[s].failed,
           after.shutdownCompleted = owner[s].shutdownCompleted,
           ~Sent(owner[s]), after.shutdownSent => kind = "shutdown",
           \/ after.replayStop = owner[s].replayStop
           \/ kind = "replayStop" /\ after.replayStop = session[s].next,
           \/ after.recordingStop = owner[s].recordingStop
           \/ /\ kind = "recordingStop" /\ after.recordingStop = session[s].next
              /\ ~IsRejected(session[s], kind) \/ Excused(s),
           after.stopSent => after.replayStop # 0,
           after.recordingStop # 0 => after.replayStop # 0,
           after.replayStop # 0 =>
              /\ after.replayStop = admitted'[s] + 1
              /\ entry[s].life = "Stopping"
              /\ kind = "shutdown" => owner[s].tokens = << >>,
           after.replayStop = 0 => kind = "shutdown" \/ session[s].next = admitted'[s],
           admitted' = [t \in Sessions |-> IF t = s THEN admitted'[s] ELSE admitted[t]],
           admitted'[s] \in Nat,
           UNCHANGED <<reports, directory, trouble>>
    PROVE  Step(s)
  <1> DEFINE id  == IdFor(session[s], kind)
             rej == IsRejected(session[s], kind)
  <1>1. TypeOK /\ TypedAt(s) /\ SessionInv(s)
    BY TypesAt DEF Inv
  <1>2. /\ owner[s].pc \in Turns /\ owner[s].pc \notin Starts /\ owner[s].pc \notin Over
        /\ after.pc \in Turns /\ after.pc \notin Starts /\ after.pc \notin Over
        /\ owner[s].pc # "drop" /\ after.pc # "drop"
        /\ after.pc # "absent" /\ after.pc # "done" /\ after.pc # "act" /\ after.pc # "close"
    BY DEF Turns, Starts, Over
  <1>3. ~IsTerminal(entry[s].life) /\ entry[s].life # "absent" /\ ~entry[s].done
    BY <1>1, <1>2 DEF SessionInv, Placed, Over
  <1>4. /\ session[s].life = "live" /\ ~IsOpen(session[s], {"shutdown"})
        /\ id \in AllIds /\ (id = LastId <=> kind = "shutdown")
        /\ id # LastId => id = session[s].next
                            /\ Submitted(session[s], kind).next = session[s].next + 1
        /\ id = LastId => Submitted(session[s], kind).next = session[s].next /\ ~rej
        /\ Submitted(session[s], kind) \in SessionStates
        /\ Submitted(session[s], kind).life = session[s].life
        /\ Submitted(session[s], kind).confirmed = session[s].confirmed
        /\ Submitted(session[s], kind).open =
              IF rej THEN session[s].open
              ELSE session[s].open \cup {[id |-> id, kind |-> kind]}
        /\ Submitted(session[s], kind).results =
              IF rej THEN session[s].results \cup {[id |-> id, outcome |-> "rejected"]}
              ELSE session[s].results
    BY <1>1, SubmittedIs DEF Accepts, TypedAt
  <1>5. /\ session' = [t \in Sessions |-> IF t = s THEN session'[s] ELSE session[t]]
        /\ session'[s] = Submitted(session[s], kind)
    BY <1>1 DEF Accepts, TypeOK
  <1>6. /\ entry' = [t \in Sessions |-> IF t = s THEN entry'[s] ELSE entry[t]]
        /\ entry'[s] = AcceptedEntry(entry[s], id)
    BY <1>1, EntryAt DEF Accepts
  <1>7. /\ owner' = [t \in Sessions |-> IF t = s THEN owner'[s] ELSE owner[t]]
        /\ owner'[s] = [after EXCEPT !.tokens = Append(owner[s].tokens, id)]
    BY <1>1 DEF Accepts, TypeOK
  <1>8. session[s].next \in 1 .. LastId /\ LastId \in Nat
    BY <1>1, LastIdAssumption DEF TypedAt, SessionStates, AllIds
  <1> HIDE DEF id, rej
  <1>9. /\ IsEntry(entry'[s]) /\ Flags(entry'[s]) = Flags(entry[s])
        /\ entry'[s].life = IF id = LastId THEN "Stopping" ELSE entry[s].life
    BY <1>1, <1>3, <1>6, AcceptedEntryIs DEF TypedAt
  <1>10. LastId \notin Range(owner[s].tokens) /\ ~owner[s].shutdownSent
    BY DEF Sent
  <1>11. id \notin Range(owner[s].tokens)
    BY <1>1, <1>4, <1>8, <1>10 DEF SessionInv, Tokens
  <1>12. /\ Append(owner[s].tokens, id) \in Seq(AllIds)
         /\ Distinct(Append(owner[s].tokens, id))
         /\ Range(Append(owner[s].tokens, id)) = Range(owner[s].tokens) \cup {id}
    <2>1. owner[s].tokens \in Seq(AllIds) /\ Distinct(owner[s].tokens)
      BY <1>1 DEF TypedAt, Owners, SessionInv, Tokens
    <2> QED BY <1>4, <1>11, <2>1, TokenComes
  <1>13. /\ owner'[s] \in Owners
         /\ owner'[s].pc = after.pc
         /\ owner'[s].replayStop = after.replayStop
         /\ owner'[s].recordingStop = after.recordingStop
         /\ owner'[s].stopSent = after.stopSent
         /\ owner'[s].shutdownSent = after.shutdownSent
         /\ owner'[s].shutdownCompleted = owner[s].shutdownCompleted
         /\ owner'[s].failed = owner[s].failed
         /\ owner'[s].eventEnd = owner[s].eventEnd
         /\ Range(owner'[s].tokens) = Range(owner[s].tokens) \cup {id}
         /\ Distinct(owner'[s].tokens)
    <2> DEFINE tokens == Append(owner[s].tokens, id)
    <2> HIDE DEF tokens
    <2>1. owner'[s] = [after EXCEPT !.tokens = tokens] /\ tokens \in Seq(AllIds)
      BY <1>7, <1>12 DEF tokens
    <2>2. owner'[s] \in Owners /\ owner'[s].tokens = tokens
      BY <2>1 DEF Owners
    <2>3. /\ owner'[s].pc = after.pc
          /\ owner'[s].replayStop = after.replayStop
          /\ owner'[s].recordingStop = after.recordingStop
          /\ owner'[s].stopSent = after.stopSent
          /\ owner'[s].shutdownSent = after.shutdownSent
          /\ owner'[s].shutdownCompleted = after.shutdownCompleted
          /\ owner'[s].failed = after.failed
          /\ owner'[s].eventEnd = after.eventEnd
      BY <2>1 DEF Owners
    <2>4. Range(tokens) = Range(owner[s].tokens) \cup {id} /\ Distinct(tokens)
      BY <1>12 DEF tokens
    <2> QED BY <2>2, <2>3, <2>4
  <1>14. Frame(s)
    BY <1>1, <1>5, <1>6, <1>7 DEF Frame, TypeOK
  <1>15. TypedAt(s)'
    BY <1>1, <1>4, <1>5, <1>9, <1>13 DEF TypedAt
  <1>16. Placed(s)'
    BY <1>1, <1>2, <1>3, <1>4, <1>5, <1>9, <1>13
    DEF SessionInv, Placed, IsTerminal, Flags
  <1>17. Sent(owner'[s]) => kind = "shutdown"
    BY <1>4, <1>10, <1>13 DEF Sent
  <1>18. after.replayStop = 0 /\ ~Sent(owner'[s]) => session'[s].next = admitted'[s] + 1
    BY <1>4, <1>5, <1>13 DEF Sent
  <1>19. entry[s].life = "Stopping" => entry'[s].life = "Stopping"
    BY <1>9
  <1>20. Admission(s)'
    BY <1>2, <1>4, <1>9, <1>13, <1>17, <1>18, <1>19 DEF Admission
  <1>21. Tokens(s)'
    <2>1. ASSUME NEW command \in session[s].open
          PROVE  command.id # id /\ command.id \in AllIds
      <3>1. command.id \in Range(owner[s].tokens)
        BY <1>1, <1>2 DEF SessionInv, Tokens
      <3>2. command \in Commands
        BY <1>1 DEF TypedAt, SessionStates
      <3> QED BY <1>11, <3>1, <3>2 DEF Commands
    <2>2. ASSUME NEW result \in session[s].results
          PROVE  result.id # id
      BY <1>1, <1>2, <1>11 DEF SessionInv, Tokens
    <2>3. /\ session[s].next <= session'[s].next
          /\ id # LastId => id < session'[s].next
          /\ session'[s].life = "live"
      BY <1>4, <1>5, <1>8
    <2>4. /\ owner[s].replayStop # 0 => owner[s].replayStop < session[s].next
          /\ owner[s].recordingStop # 0 => owner[s].recordingStop < session[s].next
      BY <1>1 DEF SessionInv, Tokens
    <2>5. /\ owner[s].replayStop # id /\ owner[s].recordingStop # id /\ id \in Nat /\ id # 0
          /\ owner[s].replayStop \in Nat /\ owner[s].recordingStop \in Nat
      <3>1. owner[s].replayStop \in Nat /\ owner[s].recordingStop \in Nat
        BY <1>1 DEF TypedAt, Owners
      <3>2. id \in 1 .. LastId /\ (id = LastId \/ id = session[s].next)
        BY <1>4 DEF AllIds
      <3> DEFINE n == session[s].next
                 p == owner[s].replayStop
                 r == owner[s].recordingStop
      <3>3. /\ p \in Nat /\ r \in Nat /\ n \in 1 .. LastId
            /\ (p # 0 => p < n) /\ (r # 0 => r < n) /\ (id = LastId \/ id = n)
        BY <1>8, <2>4, <3>1, <3>2
      <3> HIDE DEF n, p, r
      <3>4. p # id /\ r # id /\ id \in Nat /\ id # 0
        BY <1>8, <3>2, <3>3
      <3> QED BY <3>1, <3>4 DEF p, r
    <2>6. /\ after.replayStop = owner[s].replayStop
             \/ (kind = "replayStop" /\ after.replayStop = id /\ id # LastId)
          /\ after.recordingStop = owner[s].recordingStop
             \/ /\ kind = "recordingStop" /\ after.recordingStop = id /\ id # LastId
                /\ ~rej \/ Excused(s)
      BY <1>4 DEF rej
    <2>7. session'[s].open \subseteq session[s].open \cup {[id |-> id, kind |-> kind]}
          /\ (rej => session'[s].open = session[s].open)
      BY <1>4, <1>5
    <2>8. /\ session'[s].results
                 \subseteq session[s].results \cup {[id |-> id, outcome |-> "rejected"]}
          /\ (~rej => session'[s].results = session[s].results)
          /\ (rej => id # LastId)
      BY <1>4, <1>5
    <2>9. ASSUME NEW command \in session[s].open
          PROVE  /\ command.id \in Range(owner'[s].tokens)
                 /\ command.id = LastId <=> command.kind = "shutdown"
                 /\ command.id # LastId => command.id < session'[s].next
                 /\ command.id = owner'[s].replayStop => command.kind = "replayStop"
                 /\ command.id = owner'[s].recordingStop => command.kind = "recordingStop"
      <3>1. command.id # id /\ command.id \in Nat
        BY <2>1 DEF AllIds
      <3>2. /\ command.id \in Range(owner[s].tokens)
            /\ command.id = LastId <=> command.kind = "shutdown"
            /\ command.id # LastId => command.id < session[s].next
            /\ command.id = owner[s].replayStop => command.kind = "replayStop"
            /\ command.id = owner[s].recordingStop => command.kind = "recordingStop"
        BY <1>1, <1>2 DEF SessionInv, Tokens
      <3>3. session'[s].next \in Nat
        BY <1>4, <1>5 DEF SessionStates, AllIds
      <3>4. /\ command.id = owner'[s].replayStop => command.kind = "replayStop"
            /\ command.id = owner'[s].recordingStop => command.kind = "recordingStop"
        BY <1>13, <2>6, <3>1, <3>2
      <3> QED BY <1>8, <1>13, <2>3, <3>1, <3>2, <3>3, <3>4
    <2>10. ASSUME NEW command, command = [id |-> id, kind |-> kind]
           PROVE  /\ command.id \in Range(owner'[s].tokens)
                  /\ command.id = LastId <=> command.kind = "shutdown"
                  /\ command.id # LastId => command.id < session'[s].next
                  /\ command.id = owner'[s].replayStop => command.kind = "replayStop"
                  /\ command.id = owner'[s].recordingStop => command.kind = "recordingStop"
      <3>1. command.id = id /\ command.kind = kind
        BY <2>10
      <3>2. /\ id = owner'[s].replayStop => kind = "replayStop"
            /\ id = owner'[s].recordingStop => kind = "recordingStop"
        BY <1>13, <2>5, <2>6
      <3> QED BY <1>4, <1>13, <2>3, <3>1, <3>2
    <2>11. ASSUME NEW command \in session'[s].open, NEW other \in session'[s].open,
                  other.id = command.id
           PROVE  other = command
      <3>1. CASE command \in session[s].open /\ other \in session[s].open
        BY <1>1, <2>11, <3>1 DEF SessionInv, Tokens
      <3>2. CASE command \notin session[s].open \/ other \notin session[s].open
        <4>1. /\ command \in session[s].open \/ command = [id |-> id, kind |-> kind]
              /\ other \in session[s].open \/ other = [id |-> id, kind |-> kind]
          BY <2>7
        <4> QED BY <2>1, <2>11, <3>2, <4>1
      <3> QED BY <3>1, <3>2
    <2>12. ASSUME NEW command \in session'[s].open, NEW result \in session'[s].results
           PROVE  result.id # command.id
      <3>1. CASE command \in session[s].open /\ result \in session[s].results
        BY <1>1, <3>1 DEF SessionInv, Tokens
      <3>2. CASE command \notin session[s].open
        <4>1. ~rej /\ command.id = id
          BY <2>7, <3>2
        <4> QED BY <2>2, <2>8, <4>1
      <3>3. CASE result \notin session[s].results
        <4>1. rej /\ result.id = id
          BY <2>8, <3>3
        <4> QED BY <2>1, <2>7, <4>1
      <3> QED BY <3>1, <3>2, <3>3
    <2>13. ASSUME NEW result \in session'[s].results
           PROVE  /\ result.id \in Range(owner'[s].tokens)
                  /\ result.id # LastId => result.id < session'[s].next
                  /\ result.id # LastId
      <3>1. CASE result \in session[s].results
        <4>1. /\ result.id \in Range(owner[s].tokens)
              /\ result.id # LastId => result.id < session[s].next
              /\ result.id # LastId
          BY <1>1, <1>2, <1>4, <3>1 DEF SessionInv, Tokens
        <4>2. result.id \in Nat /\ session'[s].next \in Nat
          BY <1>1, <1>4, <1>5, <3>1 DEF TypedAt, SessionStates, Results, AllIds
        <4> QED BY <1>8, <1>13, <2>3, <4>1, <4>2
      <3>2. CASE result \notin session[s].results
        <4>1. rej /\ result.id = id
          BY <2>8, <3>2
        <4> QED BY <1>13, <2>3, <2>8, <4>1
      <3> QED BY <3>1, <3>2
    <2>14. ASSUME NEW x \in Range(owner'[s].tokens), x # LastId
           PROVE  x < session'[s].next
      <3>1. CASE x = id
        BY <2>3, <2>14, <3>1
      <3>2. CASE x \in Range(owner[s].tokens)
        <4>1. x < session[s].next
          BY <1>1, <2>14, <3>2 DEF SessionInv, Tokens
        <4>2. x \in Nat /\ session'[s].next \in Nat
          <5>1. owner[s].tokens \in Seq(AllIds)
            BY <1>1 DEF TypedAt, Owners
          <5>2. x \in AllIds
            BY <3>2, <5>1 DEF Range
          <5> QED BY <1>4, <1>5, <5>2 DEF SessionStates, AllIds
        <4> QED BY <1>8, <2>3, <4>1, <4>2
      <3> QED BY <1>13, <3>1, <3>2
    <2>15. /\ owner'[s].replayStop # 0 => owner'[s].replayStop < session'[s].next
           /\ owner'[s].recordingStop # 0 => owner'[s].recordingStop < session'[s].next
      <3>1. session'[s].next \in Nat
        BY <1>4, <1>5 DEF SessionStates, AllIds
      <3> QED BY <1>8, <1>13, <2>3, <2>4, <2>5, <2>6, <3>1
    <2>16. owner'[s].replayStop # 0 /\ Sent(owner'[s]) => Range(owner'[s].tokens) \subseteq {LastId}
      <3>1. owner'[s].replayStop # 0 /\ Sent(owner'[s]) =>
                kind = "shutdown" /\ owner[s].tokens = << >>
        BY <1>13, <1>17
      <3>2. Range(<< >>) = {}
        BY EmptySeq DEF Range
      <3> QED BY <1>4, <1>13, <3>1, <3>2
    <2>17. \A command \in session'[s].open :
              command \in session[s].open \/ command = [id |-> id, kind |-> kind]
      BY <2>7
    <2>18. \A command \in session'[s].open :
              /\ command.id \in Range(owner'[s].tokens)
              /\ command.id = LastId <=> command.kind = "shutdown"
              /\ command.id # LastId => command.id < session'[s].next
              /\ command.id = owner'[s].replayStop => command.kind = "replayStop"
              /\ command.id = owner'[s].recordingStop => command.kind = "recordingStop"
      BY <2>9, <2>10, <2>17
    <2> QED BY <1>13, <2>3, <2>11, <2>12, <2>13, <2>14, <2>15, <2>16, <2>18 DEF Tokens
  <1>22. Orderly(s)'
    <2>1. session'[s].life = "live" /\ session'[s].confirmed = session[s].confirmed
      BY <1>4, <1>5
    <2>2. ASSUME NEW result \in session'[s].results
          PROVE  /\ IsOfTheStop(owner'[s], result.id) /\ result.outcome # "ok" => Excused(s)
                 /\ result.id # LastId
      <3>1. CASE result \in session[s].results
        <4>1. result.id # LastId /\ result.id # id
          BY <1>1, <1>2, <1>4, <1>11, <3>1 DEF SessionInv, Tokens
        <4>2. IsOfTheStop(owner'[s], result.id) => IsOfTheStop(owner[s], result.id)
          BY <1>4, <1>13, <4>1 DEF IsOfTheStop
        <4> QED BY <1>1, <3>1, <4>1, <4>2 DEF SessionInv, Orderly
      <3>2. CASE result \notin session[s].results
        <4>1. rej /\ result.id = id /\ id # LastId
          BY <1>4, <1>5, <3>2
        <4>2. kind # "replayStop"
          BY <4>1, <1>4 DEF rej, IsRejected
        <4>3. /\ owner[s].replayStop # 0 => owner[s].replayStop < session[s].next
              /\ owner[s].recordingStop # 0 => owner[s].recordingStop < session[s].next
          BY <1>1 DEF SessionInv, Tokens
        <4>4. id = session[s].next /\ owner[s].replayStop \in Nat /\ owner[s].recordingStop \in Nat
          BY <1>1, <1>4, <4>1 DEF TypedAt, Owners
        <4>5. \/ Excused(s)
              \/ /\ after.replayStop = owner[s].replayStop
                 /\ after.recordingStop = owner[s].recordingStop
          BY <4>1, <4>2 DEF rej
        <4>6. Excused(s) \/ ~IsOfTheStop(owner'[s], id)
          BY <1>8, <1>13, <4>1, <4>3, <4>4, <4>5 DEF IsOfTheStop
        <4> QED BY <4>1, <4>6
      <3> QED BY <3>1, <3>2
    <2>3. Excused(s) => Excused(s)'
      BY <1>9 DEF Excused, Flags
    <2>4. ~owner[s].shutdownCompleted /\ ~owner[s].eventEnd
      BY <1>1, <1>4, <1>10 DEF SessionInv, Orderly
    <2>5. owner[s].failed => Excused(s)
      BY <1>1 DEF SessionInv, Orderly
    <2> QED BY <1>13, <2>1, <2>2, <2>3, <2>4, <2>5 DEF Orderly
  <1>23. Truthful(s)'
    BY <1>3, <1>9 DEF Truthful, IsTerminal
  <1> QED BY <1>3, <1>14, <1>15, <1>16, <1>20, <1>21, <1>22, <1>23
          DEF Step, SessionInv, Settled

\* A submission is accepted while the session is ready (entry.rs:300-316).
LEMMA TakeStep ==
    ASSUME Inv, NEW s \in Sessions, Take(s)
    PROVE  Step(s)
  <1> DEFINE rest == [owner[s] EXCEPT !.budget = owner[s].budget - 1]
  <1>1. TypeOK /\ TypedAt(s) /\ SessionInv(s) /\ owner[s].pc = "take"
    BY TypesAt DEF Inv, Take
  <1>2. /\ "take" \in Turns \ {"drop", "act", "close", "failed", "ended"}
        /\ "take" \notin Starts /\ "take" \notin Over
    BY DEF Turns, Starts, Over
  <1>3. owner[s].budget - 1 \in Nat
    <2>1. owner[s].budget \in Nat
      BY <1>1 DEF TypedAt, Owners
    <2>2. owner[s].budget > 0
      BY DEF Take
    <2> QED BY <2>1, <2>2
  <1>4. /\ rest \in Owners /\ rest.pc = "take" /\ rest.tokens = owner[s].tokens
        /\ rest.eventEnd = owner[s].eventEnd /\ rest.failed = owner[s].failed
        /\ rest.shutdownCompleted = owner[s].shutdownCompleted
        /\ rest.shutdownSent = owner[s].shutdownSent
        /\ rest.replayStop = owner[s].replayStop
        /\ rest.replayStopped = owner[s].replayStopped
        /\ rest.recordingStop = owner[s].recordingStop
        /\ rest.stopSent = owner[s].stopSent
    BY <1>1, <1>3 DEF TypedAt, Owners
  <1>5. ASSUME entry[s].life = "Ready", NEW kind \in Offered, Accepts(s, kind, rest),
               admitted' = [admitted EXCEPT ![s] = @ + 1],
               UNCHANGED <<reports, directory, trouble>>
        PROVE  Step(s)
    <2> HIDE DEF rest
    <2>1. kind \in ServedKinds
      BY OfferedAssumption
    <2>2. ~Sent(owner[s]) /\ owner[s].replayStop = 0 /\ ~owner[s].stopSent
          /\ owner[s].recordingStop = 0
      BY <1>1, <1>5 DEF SessionInv, Admission, TypedAt, Owners
    <2>3. ~rest.shutdownSent
      BY <1>4, <2>2 DEF Sent
    <2>4. /\ admitted' = [t \in Sessions |-> IF t = s THEN admitted'[s] ELSE admitted[t]]
          /\ admitted'[s] \in Nat
          /\ admitted'[s] = admitted[s] + 1
      <3> DEFINE n == admitted[s] + 1
      <3>1. n \in Nat /\ admitted \in [Sessions -> Nat]
        BY <1>1 DEF TypeOK
      <3>2. admitted' = [admitted EXCEPT ![s] = n]
        BY <1>5
      <3> HIDE DEF n
      <3>3. /\ admitted' = [t \in Sessions |-> IF t = s THEN admitted'[s] ELSE admitted[t]]
            /\ admitted'[s] \in Nat /\ admitted'[s] = n
        BY <3>1, <3>2
      <3> QED BY <3>3 DEF n
    <2>5. session[s].next = admitted'[s]
      BY <1>1, <1>2, <2>2, <2>4 DEF SessionInv, Admission
    <2> QED BY <1>1, <1>4, <1>5, <2>1, <2>2, <2>3, <2>4, <2>5, AcceptsStep
  <1>6. ASSUME owner' = [owner EXCEPT ![s] = rest],
               UNCHANGED <<entry, session, admitted, reports, directory, trouble>>
        PROVE  Step(s)
    <2>1. /\ owner' = [t \in Sessions |-> IF t = s THEN owner'[s] ELSE owner[t]]
          /\ owner'[s] = rest
      BY <1>1, <1>6 DEF TypeOK
    <2> HIDE DEF rest
    <2>2. SamePlan(s)
      BY <1>4, <2>1 DEF SamePlan
    <2> QED BY <1>1, <1>2, <1>4, <1>6, <2>1, <2>2, TurnStep
  <1>7. \/ /\ entry[s].life = "Ready" /\ \E kind \in Offered : Accepts(s, kind, rest)
           /\ admitted' = [admitted EXCEPT ![s] = @ + 1]
        \/ owner' = [owner EXCEPT ![s] = rest] /\ UNCHANGED <<entry, session, admitted>>
    BY DEF Take, Admits
  <1>8. UNCHANGED <<reports, directory, trouble>>
    BY DEF Take
  <1> QED BY <1>5, <1>6, <1>7, <1>8

\* What a step of the stop needs to know of its turn.
LEMMA ActsIs ==
    ASSUME Inv, NEW s \in Sessions, Acts(s) \/ owner[s].pc = "close", ActOnly
    PROVE  /\ ~Sent(owner[s]) /\ ~owner[s].shutdownSent /\ owner[s].pc \in {"act", "close"}
           /\ owner[s] \in Owners /\ entry[s].life = "Stopping"
           /\ session[s].next \in Nat \ {0}
           /\ owner[s].replayStop = 0 =>
                 session[s].next = admitted[s] + 1 /\ ~owner[s].stopSent
                 /\ owner[s].recordingStop = 0
           /\ owner[s].replayStop # 0 => owner[s].replayStop = admitted[s] + 1
           /\ admitted' = [t \in Sessions |-> IF t = s THEN admitted'[s] ELSE admitted[t]]
           /\ admitted'[s] \in Nat /\ admitted'[s] = admitted[s]
           /\ UNCHANGED <<reports, directory, trouble>>
           /\ Turn(s) \in Owners /\ "cancel" \in Turns
  <1>1. TypeOK /\ TypedAt(s) /\ SessionInv(s) /\ owner[s].pc \in {"act", "close"}
    BY TypesAt DEF Inv, Acts
  <1>2. /\ owner[s].pc \in Turns /\ owner[s].pc \notin Over /\ owner[s].pc \notin Starts
        /\ "cancel" \in Turns
    BY <1>1 DEF Turns, Over, Starts
  <1>3. ~Sent(owner[s]) /\ ~owner[s].shutdownSent
    <2>1. Range(<< >>) = {}
      BY EmptySeq DEF Range
    <2> QED BY <1>1, <2>1 DEF Acts, SessionInv, Admission, Sent
  <1>4. session[s].next \in Nat \ {0}
    BY <1>1, LastIdAssumption DEF TypedAt, SessionStates, AllIds
  <1>5. UNCHANGED <<reports, directory, trouble, admitted>>
    BY DEF ActOnly
  <1>6. /\ admitted' = [t \in Sessions |-> IF t = s THEN admitted'[s] ELSE admitted[t]]
        /\ admitted'[s] \in Nat /\ admitted'[s] = admitted[s]
    BY <1>1, <1>5 DEF TypeOK
  <1>7. Turn(s) \in Owners
    BY <1>1, <1>2 DEF Turn, TypedAt, Owners
  <1>8. owner[s].replayStop = 0 =>
            session[s].next = admitted[s] + 1 /\ ~owner[s].stopSent
            /\ owner[s].recordingStop = 0
    BY <1>1, <1>2, <1>3 DEF SessionInv, Admission
  <1>9. owner[s].replayStop # 0 => owner[s].replayStop = admitted[s] + 1
    BY <1>1 DEF SessionInv, Admission
  <1>10. entry[s].life = "Stopping"
    <2>1. CASE Acts(s)
      BY <2>1 DEF Acts
    <2>2. CASE owner[s].pc = "close"
      <3>1. entry[s].life \notin {"absent", "Starting", "Ready"}
        BY <1>1, <2>2 DEF SessionInv, Admission
      <3>2. ~IsTerminal(entry[s].life) /\ entry[s].life \in Lives
        BY <1>1, <1>2, <2>2 DEF SessionInv, Placed, TypedAt, IsEntry
      <3> QED BY <3>1, <3>2 DEF IsTerminal, Lives
    <2> QED BY <2>1, <2>2
  <1> QED BY <1>1, <1>2, <1>3, <1>4, <1>5, <1>6, <1>7, <1>8, <1>9, <1>10 DEF TypedAt

(***************************************************************************)
(* A session refuses a command of the stop, at its place in the order,     *)
(* only when the session has ended without it or has no more ids.          *)
(***************************************************************************)
LEMMA RefusedStopStep ==
    ASSUME Inv, NEW s \in Sessions, NEW kind, Acts(s) \/ owner[s].pc = "close",
           RefusedStop(s, kind), ActOnly,
           kind = "shutdown" => owner[s].tokens = << >> /\ ~Blocked(s)
    PROVE  Step(s)
  <1>1. TypeOK /\ TypedAt(s) /\ SessionInv(s) /\ owner[s].pc \in {"act", "close"}
    BY TypesAt DEF Inv, Acts
  <1>2. owner[s].pc \in Turns \ {"drop"} /\ owner[s].pc \in Turns
    BY <1>1 DEF Turns
  <1>3. Leaves(s, "Failed")
    BY DEF Leaves, RefusedStop, ActOnly
  <1>4. ~owner[s].shutdownSent /\ LastId \notin Range(owner[s].tokens)
    BY <1>1, ActsIs DEF Sent
  <1>5. ~IsOpen(session[s], {"shutdown"})
    BY <1>1, <1>2, <1>4 DEF SessionInv, Tokens, IsOpen
  <1>6. session[s].life # "live" => Excused(s)
    <2> SUFFICES ASSUME session[s].life # "live"
                 PROVE  Excused(s)
      OBVIOUS
    <2>1. session[s].life \in {"closing", "ended"}
      BY <1>1, <1>2 DEF SessionInv, Placed
    <2>2. ~owner[s].shutdownCompleted
      BY <1>1, <1>4 DEF SessionInv, Orderly
    <2>3. \A result \in session[s].results : result.id # LastId
      BY <1>1, <1>2, <1>4 DEF SessionInv, Tokens
    <2> QED BY <1>1, <2>1, <2>2, <2>3 DEF SessionInv, Orderly, Shut
  <1>7. kind = "shutdown" => session[s].open = {}
    <2>1. Range(<< >>) = {}
      BY EmptySeq DEF Range
    <2> QED BY <1>1, <1>2, <2>1 DEF SessionInv, Tokens
  <1>8. Excused(s) \/ IsExhausted(session[s])
    BY <1>5, <1>6, <1>7 DEF RefusedStop, Refusal, Blocked
  <1> QED BY <1>2, <1>3, <1>8, LeavesStep

LEMMA TurnIs ==
    ASSUME NEW s \in Sessions, owner[s] \in Owners
    PROVE  /\ Turn(s).pc = "cancel" /\ Turn(s).tokens = owner[s].tokens
           /\ Turn(s).eventEnd = owner[s].eventEnd /\ Turn(s).failed = owner[s].failed
           /\ Turn(s).shutdownCompleted = owner[s].shutdownCompleted
           /\ Turn(s).shutdownSent = owner[s].shutdownSent
           /\ Turn(s).replayStop = owner[s].replayStop
           /\ Turn(s).recordingStop = owner[s].recordingStop
           /\ Turn(s).stopSent = owner[s].stopSent
  BY DEF Turn, Owners

\* The first command of the stop is the one after the last that was admitted.
LEMMA StopReplayStep ==
    ASSUME Inv, NEW s \in Sessions, StopReplay(s)
    PROVE  Step(s)
  <1> DEFINE after == [Turn(s) EXCEPT !.replayStop = session[s].next]
  <1>1. Acts(s) /\ ActOnly /\ owner[s].replayStop = 0
    BY DEF StopReplay
  <1>2. CASE Accepts(s, "replayStop", after)
    <2>1. /\ ~Sent(owner[s]) /\ ~owner[s].shutdownSent /\ owner[s].pc \in {"act", "close"}
          /\ owner[s] \in Owners /\ entry[s].life = "Stopping"
          /\ session[s].next \in Nat \ {0}
          /\ session[s].next = admitted[s] + 1 /\ ~owner[s].stopSent
          /\ owner[s].recordingStop = 0
          /\ admitted' = [t \in Sessions |-> IF t = s THEN admitted'[s] ELSE admitted[t]]
          /\ admitted'[s] \in Nat /\ admitted'[s] = admitted[s]
          /\ UNCHANGED <<reports, directory, trouble>>
          /\ Turn(s) \in Owners
      BY <1>1, ActsIs
    <2>2. /\ after \in Owners /\ after.pc = "cancel" /\ after.tokens = owner[s].tokens
          /\ after.eventEnd = owner[s].eventEnd /\ after.failed = owner[s].failed
          /\ after.shutdownCompleted = owner[s].shutdownCompleted
          /\ after.shutdownSent = owner[s].shutdownSent
          /\ after.replayStop = session[s].next
          /\ after.recordingStop = owner[s].recordingStop
          /\ after.stopSent = owner[s].stopSent
      BY <2>1, TurnIs DEF Owners
    <2>3. "replayStop" \in ServedKinds
      BY DEF ServedKinds
    <2> HIDE DEF after
    <2> QED BY <1>2, <2>1, <2>2, <2>3, AcceptsStep
  <1>3. CASE RefusedStop(s, "replayStop")
    BY <1>1, <1>3, RefusedStopStep
  <1> QED BY <1>2, <1>3 DEF StopReplay

LEMMA StopWarpStep ==
    ASSUME Inv, NEW s \in Sessions, StopWarp(s)
    PROVE  Step(s)
  <1> DEFINE after == [Turn(s) EXCEPT !.stopSent = TRUE]
  <1>1. Acts(s) /\ ActOnly /\ owner[s].replayStop # 0
    BY DEF StopWarp
  <1>2. CASE Accepts(s, "warpStop", after)
    <2>1. /\ ~Sent(owner[s]) /\ ~owner[s].shutdownSent /\ owner[s].pc \in {"act", "close"}
          /\ owner[s] \in Owners /\ entry[s].life = "Stopping"
          /\ owner[s].replayStop = admitted[s] + 1
          /\ admitted' = [t \in Sessions |-> IF t = s THEN admitted'[s] ELSE admitted[t]]
          /\ admitted'[s] \in Nat /\ admitted'[s] = admitted[s]
          /\ UNCHANGED <<reports, directory, trouble>>
          /\ Turn(s) \in Owners
      BY <1>1, ActsIs
    <2>2. /\ after \in Owners /\ after.pc = "cancel" /\ after.tokens = owner[s].tokens
          /\ after.eventEnd = owner[s].eventEnd /\ after.failed = owner[s].failed
          /\ after.shutdownCompleted = owner[s].shutdownCompleted
          /\ after.shutdownSent = owner[s].shutdownSent
          /\ after.replayStop = owner[s].replayStop
          /\ after.recordingStop = owner[s].recordingStop
      BY <2>1, TurnIs DEF Owners
    <2>3. "warpStop" \in ServedKinds /\ "warpStop" # "shutdown"
      BY DEF ServedKinds
    <2> HIDE DEF after
    <2> QED BY <1>1, <1>2, <2>1, <2>2, <2>3, AcceptsStep
  <1>3. CASE RefusedStop(s, "warpStop")
    BY <1>1, <1>3, RefusedStopStep
  <1> QED BY <1>2, <1>3 DEF StopWarp

\* A recording that is active when the shutdown is refused is closed next.
LEMMA BlockedStep ==
    ASSUME Inv, NEW s \in Sessions, ShutDown(s), Blocked(s)
    PROVE  Step(s)
  <1>1. TypeOK /\ TypedAt(s) /\ SessionInv(s) /\ owner[s].pc = "act" /\ ~owner[s].shutdownSent
    BY TypesAt DEF Inv, ShutDown, MayShutDown, Acts
  <1>2. /\ owner[s].stopSent /\ owner[s].tokens = << >> /\ Goes(s, "close")
        /\ UNCHANGED <<entry, session, reports, directory, trouble, admitted>>
    BY DEF ShutDown, MayShutDown, ActOnly
  <1>3. /\ "act" \in Turns /\ "act" \notin Starts /\ "act" \notin Over
        /\ "close" \in Turns /\ "close" \notin Starts /\ "close" \notin Over /\ "close" \in Pcs
    BY DEF Turns, Starts, Over, Pcs
  <1>4. /\ owner' = [t \in Sessions |-> IF t = s THEN owner'[s] ELSE owner[t]]
        /\ owner'[s] \in Owners /\ owner'[s].pc = "close" /\ SamePlan(s)
    BY <1>1, <1>2, <1>3, GoesTo
  <1>5. session[s].recording
    BY DEF Blocked, Refusal
  <1>6. Frame(s) /\ TypedAt(s)'
    BY <1>1, <1>2, <1>4 DEF Frame, TypeOK, TypedAt
  <1>7. Placed(s)'
    BY <1>1, <1>2, <1>3, <1>4 DEF SessionInv, Placed, IsTerminal
  <1>8. Admission(s)'
    BY <1>1, <1>2, <1>3, <1>4 DEF SessionInv, Admission, SamePlan, Sent
  <1>9. Tokens(s)'
    BY <1>1, <1>2, <1>3, <1>4, TokensKept DEF SessionInv
  <1>10. Orderly(s)'
    BY <1>1, <1>2, <1>4, <1>5 DEF SessionInv, Orderly, SamePlan, Shut, IsOfTheStop, Excused
  <1>11. Truthful(s)'
    BY <1>1, <1>2 DEF SessionInv, Truthful, Excused, IsExhausted
  <1> QED BY <1>1, <1>2, <1>3, <1>6, <1>7, <1>8, <1>9, <1>10, <1>11
          DEF Step, SessionInv, Settled, Placed

LEMMA ShutDownStep ==
    ASSUME Inv, NEW s \in Sessions, ShutDown(s)
    PROVE  Step(s)
  <1> DEFINE after == [Turn(s) EXCEPT !.shutdownSent = TRUE]
  <1>1. Acts(s) /\ ActOnly /\ owner[s].stopSent /\ owner[s].tokens = << >>
    BY DEF ShutDown, MayShutDown
  <1>2. TypeOK /\ TypedAt(s) /\ SessionInv(s)
    BY TypesAt DEF Inv
  <1>3. owner[s].replayStop # 0
    BY <1>1, <1>2 DEF SessionInv, Admission
  <1>4. /\ ~Sent(owner[s]) /\ ~owner[s].shutdownSent /\ owner[s].pc \in {"act", "close"}
        /\ owner[s] \in Owners /\ entry[s].life = "Stopping"
        /\ session[s].next \in Nat \ {0}
        /\ owner[s].replayStop = admitted[s] + 1
        /\ admitted' = [t \in Sessions |-> IF t = s THEN admitted'[s] ELSE admitted[t]]
        /\ admitted'[s] \in Nat /\ admitted'[s] = admitted[s]
        /\ UNCHANGED <<reports, directory, trouble>>
        /\ Turn(s) \in Owners
    BY <1>1, <1>3, ActsIs
  <1>5. CASE Blocked(s)
    BY <1>5, BlockedStep
  <1>6. CASE ~Blocked(s) /\ Accepts(s, "shutdown", after)
    <2>1. /\ after \in Owners /\ after.pc = "cancel" /\ after.tokens = owner[s].tokens
          /\ after.eventEnd = owner[s].eventEnd /\ after.failed = owner[s].failed
          /\ after.shutdownCompleted = owner[s].shutdownCompleted
          /\ after.replayStop = owner[s].replayStop
          /\ after.recordingStop = owner[s].recordingStop
      BY <1>4, TurnIs DEF Owners
    <2>2. "shutdown" \in ServedKinds
      BY DEF ServedKinds
    <2> HIDE DEF after
    <2> QED BY <1>1, <1>3, <1>4, <1>6, <2>1, <2>2, AcceptsStep
  <1>7. CASE ~Blocked(s) /\ RefusedStop(s, "shutdown")
    BY <1>1, <1>7, RefusedStopStep
  <1> QED BY <1>5, <1>6, <1>7 DEF ShutDown

\* The recording that is closed is still active, or it has failed.
LEMMA CloseRecordingStep ==
    ASSUME Inv, NEW s \in Sessions, CloseRecording(s)
    PROVE  Step(s)
  <1> DEFINE closes == [Turn(s) EXCEPT !.recordingStop = session[s].next]
  <1>1. /\ owner[s].pc = "close" /\ ActOnly
        /\ Accepts(s, "recordingStop", closes) \/ RefusedStop(s, "recordingStop")
    BY DEF CloseRecording
  <1>2. TypeOK /\ TypedAt(s) /\ SessionInv(s)
    BY TypesAt DEF Inv
  <1>3. owner[s].stopSent /\ owner[s].tokens = << >> /\ owner[s].replayStop # 0
    BY <1>1, <1>2 DEF SessionInv, Admission
  <1>4. /\ ~Sent(owner[s]) /\ ~owner[s].shutdownSent
        /\ owner[s] \in Owners /\ entry[s].life = "Stopping"
        /\ session[s].next \in Nat \ {0}
        /\ owner[s].replayStop = admitted[s] + 1
        /\ admitted' = [t \in Sessions |-> IF t = s THEN admitted'[s] ELSE admitted[t]]
        /\ admitted'[s] \in Nat /\ admitted'[s] = admitted[s]
        /\ UNCHANGED <<reports, directory, trouble>>
        /\ Turn(s) \in Owners
    BY <1>1, <1>3, ActsIs
  <1>5. CASE Accepts(s, "recordingStop", closes)
    <2>1. /\ closes \in Owners /\ closes.pc = "cancel" /\ closes.tokens = owner[s].tokens
          /\ closes.eventEnd = owner[s].eventEnd /\ closes.failed = owner[s].failed
          /\ closes.shutdownCompleted = owner[s].shutdownCompleted
          /\ closes.shutdownSent = owner[s].shutdownSent
          /\ closes.replayStop = owner[s].replayStop
          /\ closes.recordingStop = session[s].next
      BY <1>4, TurnIs DEF Owners
    <2>2. session[s].open = {}
      <3>1. "close" \in Turns /\ Range(<< >>) = {}
        BY EmptySeq DEF Turns, Range
      <3> QED BY <1>1, <1>2, <1>3, <3>1 DEF SessionInv, Tokens
    <2>3. ~IsRejected(session[s], "recordingStop") \/ Excused(s)
      BY <1>1, <1>2, <2>2 DEF IsRejected, IsOpen, SessionInv, Orderly
    <2>4. "recordingStop" \in ServedKinds /\ "recordingStop" # "shutdown"
      BY DEF ServedKinds
    <2> HIDE DEF closes
    <2> QED BY <1>1, <1>3, <1>4, <1>5, <2>1, <2>3, <2>4, AcceptsStep
  <1>6. CASE RefusedStop(s, "recordingStop")
    BY <1>1, <1>6, RefusedStopStep
  <1> QED BY <1>1, <1>5, <1>6

\* What try_receive() returns was settled, or the session has ended.
LEMMA ReceivedIs ==
    ASSUME NEW ss \in SessionStates, NEW id
    PROVE  /\ Received(ss, id) \in {"ok", "rejected", "failed", "nothing"}
           /\ Received(ss, id) # "nothing" /\ ss.life # "ended" =>
                 \E result \in ss.results : result.id = id
           /\ (\E result \in ss.results : result.id = id) =>
                 \E result \in ss.results : result.id = id /\ result.outcome = Received(ss, id)
           /\ Received(ss, id) = "ok" =>
                 \E result \in ss.results : result.id = id /\ result.outcome = "ok"
  <1> DEFINE results == {result \in ss.results : result.id = id}
             first   == CHOOSE result \in results : TRUE
  <1>1. CASE results # {}
    <2>1. first \in results
      BY <1>1
    <2>2. Received(ss, id) = first.outcome
      BY <1>1 DEF Received
    <2> HIDE DEF first
    <2>3. first \in ss.results /\ first.id = id
      BY <2>1
    <2>4. first \in Results
      BY <2>3 DEF SessionStates
    <2>5. first.outcome \in {"ok", "rejected", "failed"}
      BY <2>4 DEF Results
    <2> QED BY <2>2, <2>3, <2>5
  <1>2. CASE results = {}
    <2>1. Received(ss, id) = IF ss.life = "ended" THEN "failed" ELSE "nothing"
      BY <1>2 DEF Received
    <2>2. \A result \in ss.results : result.id # id
      BY <1>2
    <2> QED BY <2>1, <2>2
  <1> QED BY <1>1, <1>2

LEMMA TakenIs ==
    ASSUME NEW ss \in SessionStates, NEW id
    PROVE  /\ Taken(ss, id) \in SessionStates
           /\ Taken(ss, id).results = {result \in ss.results : result.id # id}
           /\ Taken(ss, id).open = ss.open /\ Taken(ss, id).next = ss.next
           /\ Taken(ss, id).life = ss.life /\ Taken(ss, id).confirmed = ss.confirmed
  <1> DEFINE results == {result \in ss.results : result.id # id}
  <1>1. results \in SUBSET Results
    BY DEF SessionStates
  <1>2. Taken(ss, id) = [ss EXCEPT !.results = results]
    BY DEF Taken
  <1> HIDE DEF results
  <1>3. /\ Taken(ss, id) \in SessionStates
        /\ Taken(ss, id).results = results
        /\ Taken(ss, id).open = ss.open /\ Taken(ss, id).next = ss.next
        /\ Taken(ss, id).life = ss.life /\ Taken(ss, id).confirmed = ss.confirmed
    BY <1>1, <1>2 DEF SessionStates
  <1> QED BY <1>3 DEF results

(***************************************************************************)
(* The owner receives an outcome (entry.rs:320-368).  A bad one of the     *)
(* stop has an excuse: it is a refusal, or the session has ended, and the  *)
(* shutdown was not yet asked for or has itself a bad outcome.             *)
(***************************************************************************)
LEMMA ReceiveStep ==
    ASSUME Inv, NEW s \in Sessions, Receive(s)
    PROVE  Step(s)
  <1> DEFINE id      == owner[s].tokens[owner[s].at]
             outcome == Received(session[s], id)
             ok      == outcome = "ok"
             tokens  == RemoveAt(owner[s].tokens, owner[s].at)
             sent      == owner[s].shutdownSent \/ id = LastId
             completed == owner[s].shutdownCompleted \/ (ok /\ id = LastId)
             stopped   == owner[s].replayStopped \/ (ok /\ id = owner[s].replayStop)
             failed    == owner[s].failed \/ (~ok /\ IsOfTheStop(owner[s], id))
  <1>1. TypeOK /\ TypedAt(s) /\ SessionInv(s) /\ owner[s].pc = "receive"
    BY TypesAt DEF Inv, Receive
  <1>2. /\ "receive" \in Turns \ {"drop", "act", "close", "failed", "ended"}
        /\ "receive" \in Turns /\ "receive" \notin Starts /\ "receive" \notin Over
    BY DEF Turns, Starts, Over
  <1>3. UNCHANGED <<reports, directory, trouble, admitted>>
    BY DEF Receive
  <1>4. CASE outcome = "nothing"
    <2>1. /\ owner' = [owner EXCEPT ![s].at = @ + 1]
          /\ UNCHANGED <<entry, session>>
      BY <1>4 DEF Receive
    <2> DEFINE at == owner[s].at + 1
    <2>2. /\ owner' = [t \in Sessions |-> IF t = s THEN owner'[s] ELSE owner[t]]
          /\ owner'[s] = [owner[s] EXCEPT !.at = at]
      BY <1>1, <2>1 DEF TypeOK
    <2>3. at \in Nat \ {0}
      BY <1>1 DEF TypedAt, Owners
    <2> HIDE DEF at
    <2>4. owner'[s] \in Owners /\ owner'[s].pc = "receive" /\ SamePlan(s)
      BY <1>1, <2>2, <2>3 DEF TypedAt, Owners, SamePlan
    <2> QED BY <1>1, <1>2, <1>3, <2>1, <2>2, <2>4, TurnStep
  <1>5. CASE outcome # "nothing"
    <2>1. /\ owner' = [owner EXCEPT
                ![s].tokens = tokens, ![s].shutdownSent = sent,
                ![s].shutdownCompleted = completed,
                ![s].replayStopped = stopped, ![s].failed = failed]
          /\ \E size \in IF ok THEN OutputSizes ELSE {1} :
                entry' = [entry EXCEPT ![s] = SettledEntry(entry[s], id, size)]
          /\ session' = [session EXCEPT ![s] = Taken(session[s], id)]
      <3>1. owner[s] \in Owners
        BY <1>1 DEF TypedAt
      <3>2. owner' = [owner EXCEPT
                ![s].tokens = tokens, ![s].shutdownSent = sent,
                ![s].shutdownCompleted = completed,
                ![s].replayStopped = stopped, ![s].failed = failed]
        BY <1>5 DEF Receive
      <3>3. \E size \in IF ok THEN OutputSizes ELSE {1} :
                entry' = [entry EXCEPT ![s] = SettledEntry(entry[s], id, size)]
        BY <1>5 DEF Receive
      <3>4. session' = [session EXCEPT ![s] = Taken(session[s], id)]
        BY <1>5 DEF Receive
      <3> QED BY <3>2, <3>3, <3>4
    <2>2. owner[s].tokens \in Seq(AllIds) /\ Distinct(owner[s].tokens)
          /\ owner[s].at \in 1 .. Len(owner[s].tokens)
      <3>1. owner[s].tokens \in Seq(AllIds) /\ owner[s].at \in Nat \ {0}
        BY <1>1 DEF TypedAt, Owners
      <3>2. owner[s].at <= Len(owner[s].tokens)
        BY DEF Receive
      <3>3. Len(owner[s].tokens) \in Nat
        BY <3>1
      <3> QED BY <1>1, <3>1, <3>2, <3>3 DEF SessionInv, Tokens
    <2>3. id \in AllIds /\ id \in Range(owner[s].tokens)
      BY <2>2, NoTokens
    <2>4. /\ tokens \in Seq(AllIds) /\ Distinct(tokens)
          /\ Range(tokens) = Range(owner[s].tokens) \ {id}
      BY <2>2, TokenLeaves
    <2>5. {sent, completed, stopped, failed} \subseteq BOOLEAN
      BY <1>1 DEF TypedAt, Owners
    <2>6. /\ outcome \in {"ok", "rejected", "failed", "nothing"}
          /\ session[s].life # "ended" => \E result \in session[s].results : result.id = id
          /\ (\E result \in session[s].results : result.id = id) =>
                \E result \in session[s].results : result.id = id /\ result.outcome = outcome
          /\ outcome = "ok" =>
                \E result \in session[s].results : result.id = id /\ result.outcome = "ok"
      BY <1>1, <1>5, ReceivedIs DEF TypedAt
    <2>7. /\ session' = [t \in Sessions |-> IF t = s THEN session'[s] ELSE session[t]]
          /\ session'[s] = Taken(session[s], id)
      BY <1>1, <2>1 DEF TypeOK
    <2>8. /\ session'[s] \in SessionStates
          /\ session'[s].results = {result \in session[s].results : result.id # id}
          /\ session'[s].open = session[s].open /\ session'[s].next = session[s].next
          /\ session'[s].life = session[s].life
          /\ session'[s].confirmed = session[s].confirmed
      BY <1>1, <2>7, TakenIs DEF TypedAt
    <2>9. /\ entry' = [t \in Sessions |-> IF t = s THEN entry'[s] ELSE entry[t]]
          /\ IsEntry(entry'[s]) /\ Flags(entry'[s]) = Flags(entry[s])
          /\ entry'[s].life = entry[s].life
      <3> HIDE DEF id, ok
      <3>1. PICK size : entry' = [entry EXCEPT ![s] = SettledEntry(entry[s], id, size)]
        BY <2>1
      <3>2. /\ entry' = [t \in Sessions |-> IF t = s THEN entry'[s] ELSE entry[t]]
            /\ entry'[s] = SettledEntry(entry[s], id, size)
        BY <1>1, <3>1, EntryAt
      <3> QED BY <1>1, <3>2, SettledEntryIs DEF TypedAt
    <2>10. \A result \in session[s].results :
              IsOfTheStop(owner[s], result.id) /\ result.outcome # "ok" => Excused(s)
      BY <1>1 DEF SessionInv, Orderly
    <2>11. owner[s].replayStop # 0 /\ Sent(owner[s]) => id = LastId
      BY <1>1, <2>3 DEF SessionInv, Tokens
    <2>12. IsOfTheStop(owner[s], id) /\ id # LastId => owner[s].replayStop # 0
      BY <1>1 DEF SessionInv, Admission, IsOfTheStop
    <2>13. failed => Excused(s)
      <3>1. CASE owner[s].failed
        BY <1>1, <3>1 DEF SessionInv, Orderly
      <3>2. CASE ~ok /\ IsOfTheStop(owner[s], id)
        <4>1. CASE \E result \in session[s].results : result.id = id
          <5>1. PICK result \in session[s].results : result.id = id /\ result.outcome = outcome
            BY <2>6, <4>1
          <5> QED BY <2>10, <3>2, <5>1
        <4>2. CASE ~\E result \in session[s].results : result.id = id
          <5>1. session[s].life = "ended"
            BY <2>6, <4>2
          <5>2. Excused(s) \/ Shut(s)
            BY <1>1, <5>1 DEF SessionInv, Orderly
          <5>3. ASSUME owner[s].shutdownCompleted
                PROVE  FALSE
            <6>1. Sent(owner[s]) /\ LastId \notin Range(owner[s].tokens)
              BY <1>1, <5>3 DEF SessionInv, Orderly, Sent
            <6> QED BY <2>3, <2>11, <2>12, <3>2, <6>1
          <5>4. ASSUME NEW result \in session[s].results, result.id = LastId
                PROVE  FALSE
            <6>1. LastId \in Range(owner[s].tokens)
              BY <1>1, <1>2, <5>4 DEF SessionInv, Tokens
            <6>2. Sent(owner[s]) /\ id # LastId
              BY <4>2, <5>4, <6>1 DEF Sent
            <6> QED BY <2>11, <2>12, <3>2, <6>2
          <5> QED BY <5>2, <5>3, <5>4 DEF Shut
        <4> QED BY <4>1, <4>2
      <3> QED BY <3>1, <3>2
    <2>14. completed => sent /\ session[s].confirmed /\ LastId \notin Range(tokens)
      <3>1. CASE owner[s].shutdownCompleted
        BY <1>1, <2>4, <3>1 DEF SessionInv, Orderly
      <3>2. CASE ok /\ id = LastId
        BY <1>1, <2>4, <2>6, <3>2 DEF SessionInv, Orderly
      <3> QED BY <3>1, <3>2
    <2>15. session[s].life \in {"closing", "ended"} =>
              \/ Excused(s) \/ completed
              \/ \E result \in session[s].results : result.id = LastId /\ result.id # id
      <3>1. session[s].life \in {"closing", "ended"} => Excused(s) \/ Shut(s)
        BY <1>1 DEF SessionInv, Orderly
      <3>2. ASSUME NEW result \in session[s].results, result.id = LastId, id = LastId, ~ok
            PROVE  Excused(s)
        <4>1. PICK first \in session[s].results : first.id = id /\ first.outcome = outcome
          BY <2>6, <3>2
        <4> QED BY <2>10, <3>2, <4>1 DEF IsOfTheStop
      <3> QED BY <3>1, <3>2 DEF Shut
    <2>16. \A command \in session[s].open : command.id # id
      <3>1. CASE session[s].life = "ended"
        BY <1>1, <3>1 DEF SessionInv, Tokens
      <3>2. CASE \E result \in session[s].results : result.id = id
        BY <1>1, <3>2 DEF SessionInv, Tokens
      <3> QED BY <2>6, <3>1, <3>2
    <2>17. sent \/ LastId \in Range(tokens) <=> Sent(owner[s])
      BY <2>3, <2>4 DEF Sent
    <2> HIDE DEF tokens, sent, completed, stopped, failed, id, outcome
    <2>18. /\ owner' = [t \in Sessions |-> IF t = s THEN owner'[s] ELSE owner[t]]
           /\ owner'[s] = [owner[s] EXCEPT
                !.tokens = tokens, !.shutdownSent = sent, !.shutdownCompleted = completed,
                !.replayStopped = stopped, !.failed = failed]
      BY <1>1, <2>1 DEF TypeOK
    <2>19. owner'[s] \in Owners
      <3> DEFINE a == [owner[s] EXCEPT !.tokens = tokens]
                 b == [a EXCEPT !.shutdownSent = sent]
                 c == [b EXCEPT !.shutdownCompleted = completed]
                 d == [c EXCEPT !.replayStopped = stopped]
      <3>1. owner'[s] = [d EXCEPT !.failed = failed]
        BY <2>18
      <3>2. a \in Owners
        BY <1>1, <2>4 DEF TypedAt, Owners
      <3> HIDE DEF a
      <3>3. b \in Owners
        BY <2>5, <3>2 DEF Owners
      <3> HIDE DEF b
      <3>4. c \in Owners
        BY <2>5, <3>3 DEF Owners
      <3> HIDE DEF c
      <3>5. d \in Owners
        BY <2>5, <3>4 DEF Owners
      <3> HIDE DEF d
      <3> QED BY <2>5, <3>1, <3>5 DEF Owners
    <2>20. /\ owner'[s].pc = "receive"
           /\ owner'[s].tokens = tokens
           /\ owner'[s].replayStop = owner[s].replayStop
           /\ owner'[s].recordingStop = owner[s].recordingStop
           /\ owner'[s].stopSent = owner[s].stopSent
           /\ owner'[s].eventEnd = owner[s].eventEnd
      BY <1>1, <2>18 DEF TypedAt, Owners
    <2>21. /\ owner'[s].shutdownSent = sent
           /\ owner'[s].shutdownCompleted = completed
           /\ owner'[s].failed = failed
      BY <1>1, <2>18 DEF TypedAt, Owners
    <2>22. Sent(owner'[s]) <=> Sent(owner[s])
      BY <2>17, <2>20, <2>21 DEF Sent
    <2>23. Frame(s) /\ TypedAt(s)'
      BY <1>1, <1>3, <2>7, <2>8, <2>9, <2>18, <2>19 DEF Frame, TypeOK, TypedAt
    <2>24. Placed(s)'
      BY <1>1, <1>2, <1>3, <2>8, <2>9, <2>20 DEF SessionInv, Placed, IsTerminal, Flags
    <2>25. Admission(s)'
      BY <1>1, <1>2, <1>3, <2>8, <2>9, <2>20, <2>22 DEF SessionInv, Admission
    <2>26. Tokens(s)'
      <3>1. session'[s].life # "none"
        BY <1>1, <1>2, <2>8 DEF SessionInv, Placed
      <3>2. Range(owner'[s].tokens) = Range(owner[s].tokens) \ {id} /\ Distinct(owner'[s].tokens)
        BY <2>4, <2>20
      <3>3. \A command \in session'[s].open :
               /\ command.id \in Range(owner'[s].tokens)
               /\ command.id = LastId <=> command.kind = "shutdown"
               /\ command.id # LastId => command.id < session'[s].next
               /\ command.id = owner'[s].replayStop => command.kind = "replayStop"
               /\ command.id = owner'[s].recordingStop => command.kind = "recordingStop"
               /\ \A other \in session'[s].open : other.id = command.id => other = command
               /\ \A result \in session'[s].results : result.id # command.id
        BY <1>1, <1>2, <2>8, <2>16, <2>20, <3>2 DEF SessionInv, Tokens
      <3>4. \A result \in session'[s].results :
               /\ result.id \in Range(owner'[s].tokens)
               /\ result.id # LastId => result.id < session'[s].next
        BY <1>1, <1>2, <2>8, <3>2 DEF SessionInv, Tokens
      <3> QED BY <1>1, <2>8, <2>20, <2>22, <3>1, <3>2, <3>3, <3>4 DEF SessionInv, Tokens, IsOpen
    <2>27. Orderly(s)'
      <3>1. Excused(s) => Excused(s)'
        BY <1>3, <2>9 DEF Excused, Flags
      <3>2. Shut(s)' <=> completed \/ \E result \in session[s].results :
                                        result.id = LastId /\ result.id # id
        BY <2>8, <2>21 DEF Shut
      <3>3. \A result \in session'[s].results :
               IsOfTheStop(owner'[s], result.id) /\ result.outcome # "ok" => Excused(s)
        BY <2>8, <2>10, <2>20 DEF IsOfTheStop
      <3>4. session'[s].life \in {"closing", "ended"} => Excused(s) \/ Shut(s)'
        BY <2>8, <2>15, <3>2
      <3>5. \A result \in session'[s].results :
               result.id = LastId /\ result.outcome = "ok" => session'[s].confirmed
        BY <1>1, <2>8 DEF SessionInv, Orderly
      <3>6. owner'[s].eventEnd => session'[s].life \in {"ended", "gone"}
        BY <1>1, <2>8, <2>20 DEF SessionInv, Orderly
      <3> QED BY <2>8, <2>13, <2>14, <2>20, <2>21, <3>1, <3>3, <3>4, <3>5, <3>6 DEF Orderly
    <2>28. Truthful(s)'
      <3>1. ~IsTerminal(entry[s].life)
        BY <1>1, <1>2 DEF SessionInv, Placed
      <3> QED BY <2>9, <3>1 DEF Truthful, IsTerminal
    <2> QED
      <3>1. ~entry[s].done /\ entry[s].life # "absent"
        BY <1>1 DEF SessionInv, Placed
      <3> QED BY <2>23, <2>24, <2>25, <2>26, <2>27, <2>28, <3>1 DEF Step, SessionInv, Settled
  <1> QED BY <1>4, <1>5

-----------------------------------------------------------------------------
(* The inside of a session, its reports and its end *)

\* What happens inside leaves the owner and its entry alone.
LEMMA InsideStep ==
    ASSUME Inv, NEW s \in Sessions, SessionOnly,
           session[s].life \in {"live", "closing"},
           session' = [t \in Sessions |-> IF t = s THEN session'[s] ELSE session[t]],
           session'[s] \in SessionStates,
           session'[s].life \in {"live", "closing", "ended"},
           session'[s].next = session[s].next,
           session[s].confirmed => session'[s].confirmed,
           trouble' = [t \in Sessions |-> IF t = s THEN trouble'[s] ELSE trouble[t]],
           trouble'[s] \in BOOLEAN, trouble[s] => trouble'[s],
           owner[s].pc \in Turns => Tokens(s)' /\ Orderly(s)'
    PROVE  Step(s)
  <1>1. TypeOK /\ TypedAt(s) /\ SessionInv(s)
    BY TypesAt DEF Inv
  <1>2. UNCHANGED <<entry, owner, reports, directory, admitted>>
    BY DEF SessionOnly
  <1>3. owner[s].pc \in Turns /\ owner[s].pc \notin Starts /\ owner[s].pc \notin Over
    BY <1>1 DEF SessionInv, Placed, TypedAt, Owners
  <1>4. Frame(s) /\ TypedAt(s)'
    BY <1>1, <1>2 DEF Frame, TypeOK, TypedAt
  <1>5. Placed(s)'
    BY <1>1, <1>2, <1>3 DEF SessionInv, Placed
  <1>6. Admission(s)'
    BY <1>1, <1>2 DEF SessionInv, Admission, Sent
  <1>7. Truthful(s)'
    BY <1>1, <1>2 DEF SessionInv, Truthful, Excused, IsExhausted
  <1> QED BY <1>2, <1>3, <1>4, <1>5, <1>6, <1>7 DEF Step, SessionInv, Settled

LEMMA EndOfIs ==
    ASSUME NEW ss \in SessionStates
    PROVE  /\ EndOf(ss) \in SessionStates /\ EndOf(ss).life = "ended" /\ EndOf(ss).open = {}
           /\ EndOf(ss).results = ss.results /\ EndOf(ss).next = ss.next
           /\ EndOf(ss).confirmed = ss.confirmed /\ EndOf(ss).recording = ss.recording
  <1> DEFINE a == [ss EXCEPT !.life = "ended"]
             b == [a EXCEPT !.open = {}]
  <1>1. EndOf(ss) = b
    BY DEF EndOf
  <1>2. /\ a \in SessionStates /\ a.life = "ended" /\ a.results = ss.results
        /\ a.next = ss.next /\ a.confirmed = ss.confirmed /\ a.recording = ss.recording
    BY DEF SessionStates
  <1> HIDE DEF a
  <1>3. /\ b \in SessionStates /\ b.life = "ended" /\ b.open = {}
        /\ b.results = ss.results /\ b.next = ss.next /\ b.confirmed = ss.confirmed
        /\ b.recording = ss.recording
    BY <1>2 DEF SessionStates
  <1> QED BY <1>1, <1>3

\* The session ends: by its shutdown, by a cancel, or by itself.
LEMMA EndsStep ==
    ASSUME Inv, NEW s \in Sessions, SessionOnly,
           session[s].life \in {"live", "closing"},
           session' = [session EXCEPT ![s] = EndOf(@)],
           trouble' = [t \in Sessions |-> IF t = s THEN trouble'[s] ELSE trouble[t]],
           trouble'[s] \in BOOLEAN, trouble[s] => trouble'[s],
           session[s].life = "closing" \/ entry[s].cancel \/ trouble'[s]
    PROVE  Step(s)
  <1>1. TypeOK /\ TypedAt(s) /\ SessionInv(s)
    BY TypesAt DEF Inv
  <1>2. UNCHANGED <<entry, owner, reports, directory, admitted>>
    BY DEF SessionOnly
  <1>3. /\ session' = [t \in Sessions |-> IF t = s THEN session'[s] ELSE session[t]]
        /\ session'[s] = EndOf(session[s])
    BY <1>1 DEF TypeOK
  <1>4. /\ session'[s] \in SessionStates /\ session'[s].life = "ended"
        /\ session'[s].open = {} /\ session'[s].results = session[s].results
        /\ session'[s].next = session[s].next
        /\ session'[s].confirmed = session[s].confirmed
        /\ session'[s].recording = session[s].recording
    BY <1>1, <1>3, EndOfIs DEF TypedAt
  <1>5. Tokens(s)'
    BY <1>1, <1>2, <1>4 DEF SessionInv, Tokens, Sent
  <1>6. Orderly(s)'
    <2>1. Excused(s) => Excused(s)'
      BY <1>2 DEF Excused
    <2>2. Excused(s)' \/ Shut(s)'
      <3>1. Shut(s) => Shut(s)'
        BY <1>2, <1>4 DEF Shut
      <3>2. session[s].life = "closing" => Excused(s) \/ Shut(s)
        BY <1>1 DEF SessionInv, Orderly
      <3>3. entry[s].cancel \/ trouble'[s] => Excused(s)'
        BY <1>2 DEF Excused
      <3> QED BY <2>1, <3>1, <3>2, <3>3
    <2> QED BY <1>1, <1>2, <1>4, <2>1, <2>2 DEF SessionInv, Orderly, IsOfTheStop
  <1> QED BY <1>3, <1>4, <1>5, <1>6, InsideStep

LEMMA SessionEndsStep ==
    ASSUME Inv, NEW s \in Sessions, SessionEnds(s)
    PROVE  Step(s)
  <1>1. TypeOK
    BY DEF Inv
  <1>2. /\ trouble' = [t \in Sessions |-> IF t = s THEN trouble'[s] ELSE trouble[t]]
        /\ trouble'[s] \in BOOLEAN /\ (trouble[s] => trouble'[s])
    BY <1>1 DEF SessionEnds, TypeOK
  <1> QED BY <1>2, EndsStep DEF SessionEnds

LEMMA CrashStep ==
    ASSUME Inv, NEW s \in Sessions, Crash(s)
    PROVE  Step(s)
  <1>1. TypeOK
    BY DEF Inv
  <1>2. /\ trouble' = [t \in Sessions |-> IF t = s THEN trouble'[s] ELSE trouble[t]]
        /\ trouble'[s] \in BOOLEAN /\ trouble'[s]
    BY <1>1 DEF Crash, TypeOK
  <1> QED BY <1>2, EndsStep DEF Crash

\* A failing recording, or a report of the game, is no matter of its commands.
LEMMA QuietStep ==
    ASSUME Inv, NEW s \in Sessions, SessionOnly, session[s].life = "live",
           session' = [t \in Sessions |-> IF t = s THEN session'[s] ELSE session[t]],
           session'[s] \in SessionStates,
           session'[s].life = session[s].life, session'[s].open = session[s].open,
           session'[s].results = session[s].results, session'[s].next = session[s].next,
           session'[s].confirmed = session[s].confirmed,
           trouble' = [t \in Sessions |-> IF t = s THEN trouble'[s] ELSE trouble[t]],
           trouble'[s] \in BOOLEAN, trouble[s] => trouble'[s],
           session'[s].recording = session[s].recording \/ trouble'[s]
    PROVE  Step(s)
  <1>1. TypeOK /\ TypedAt(s) /\ SessionInv(s)
    BY TypesAt DEF Inv
  <1>2. UNCHANGED <<entry, owner, reports, directory, admitted>>
    BY DEF SessionOnly
  <1>3. Tokens(s)'
    BY <1>1, <1>2 DEF SessionInv, Tokens, Sent, IsOpen
  <1>4. Orderly(s)'
    BY <1>1, <1>2 DEF SessionInv, Orderly, Shut, IsOfTheStop, Excused
  <1> QED BY <1>3, <1>4, InsideStep

LEMMA RecordingFailsStep ==
    ASSUME Inv, NEW s \in Sessions, RecordingFails(s)
    PROVE  Step(s)
  <1>1. TypeOK /\ TypedAt(s)
    BY TypesAt DEF Inv
  <1>2. /\ trouble' = [t \in Sessions |-> IF t = s THEN trouble'[s] ELSE trouble[t]]
        /\ trouble'[s] \in BOOLEAN /\ trouble'[s]
    BY <1>1 DEF RecordingFails, TypeOK
  <1>3. /\ session' = [t \in Sessions |-> IF t = s THEN session'[s] ELSE session[t]]
        /\ session'[s] = [session[s] EXCEPT !.recording = FALSE]
    BY <1>1 DEF RecordingFails, TypeOK
  <1>4. /\ session'[s] \in SessionStates
        /\ session'[s].life = session[s].life /\ session'[s].open = session[s].open
        /\ session'[s].results = session[s].results /\ session'[s].next = session[s].next
        /\ session'[s].confirmed = session[s].confirmed
    BY <1>1, <1>3 DEF TypedAt, SessionStates
  <1> QED BY <1>2, <1>3, <1>4, QuietStep DEF RecordingFails

LEMMA GameReportsStep ==
    ASSUME Inv, NEW s \in Sessions, GameReports(s)
    PROVE  Step(s)
  <1>1. TypeOK /\ TypedAt(s)
    BY TypesAt DEF Inv
  <1>2. /\ trouble' = [t \in Sessions |-> IF t = s THEN trouble'[s] ELSE trouble[t]]
        /\ trouble'[s] \in BOOLEAN /\ (trouble[s] => trouble'[s])
    BY <1>1 DEF GameReports, TypeOK
  <1>3. /\ session' = [t \in Sessions |-> IF t = s THEN session'[s] ELSE session[t]]
        /\ session'[s] = [session[s] EXCEPT !.events = 1, !.reported = TRUE]
    BY <1>1 DEF GameReports, TypeOK
  <1>4. /\ session'[s] \in SessionStates
        /\ session'[s].life = session[s].life /\ session'[s].open = session[s].open
        /\ session'[s].results = session[s].results /\ session'[s].next = session[s].next
        /\ session'[s].confirmed = session[s].confirmed
        /\ session'[s].recording = session[s].recording
    <2> DEFINE a == [session[s] EXCEPT !.events = 1]
    <2>1. session'[s] = [a EXCEPT !.reported = TRUE]
      BY <1>3
    <2>2. a \in SessionStates
      BY <1>1 DEF TypedAt, SessionStates
    <2>3. /\ a.life = session[s].life /\ a.open = session[s].open
          /\ a.results = session[s].results /\ a.next = session[s].next
          /\ a.confirmed = session[s].confirmed /\ a.recording = session[s].recording
      BY <1>1 DEF TypedAt, SessionStates
    <2> HIDE DEF a
    <2>4. session'[s] \in SessionStates
      BY <2>1, <2>2 DEF SessionStates
    <2>5. /\ session'[s].life = a.life /\ session'[s].open = a.open
          /\ session'[s].results = a.results /\ session'[s].next = a.next
          /\ session'[s].confirmed = a.confirmed /\ session'[s].recording = a.recording
      BY <2>1, <2>2 DEF SessionStates
    <2> QED BY <2>3, <2>4, <2>5
  <1> QED BY <1>2, <1>3, <1>4, QuietStep DEF GameReports

LEMMA SettledWithIs ==
    ASSUME NEW ss \in SessionStates, NEW command \in ss.open,
           NEW outcome \in {"ok", "rejected", "failed"}
    PROVE  LET new == SettledWith(ss, command, outcome) IN
           /\ new \in SessionStates
           /\ new.open = ss.open \ {command}
           /\ new.results = ss.results \cup {[id |-> command.id, outcome |-> outcome]}
           /\ new.confirmed = (ss.confirmed \/ (command.kind = "shutdown" /\ outcome = "ok"))
           /\ new.life = IF command.kind = "shutdown" THEN "closing" ELSE ss.life
           /\ new.next = ss.next
  <1> DEFINE open      == ss.open \ {command}
             results   == ss.results \cup {[id |-> command.id, outcome |-> outcome]}
             recording == CASE command.kind = "recordingStart" -> outcome = "ok"
                            [] command.kind = "recordingStop"  -> FALSE
                            [] OTHER -> ss.recording
             confirmed == ss.confirmed \/ (command.kind = "shutdown" /\ outcome = "ok")
             life      == IF command.kind = "shutdown" THEN "closing" ELSE ss.life
  <1>1. open \in SUBSET Commands /\ command \in Commands
    BY DEF SessionStates
  <1>2. results \in SUBSET Results
    BY <1>1 DEF SessionStates, Results, Commands
  <1>3. confirmed \in BOOLEAN /\ life \in {"none", "live", "closing", "ended", "gone"}
    BY DEF SessionStates
  <1>4. recording \in BOOLEAN
    BY DEF SessionStates
  <1>5. SettledWith(ss, command, outcome)
            = [ss EXCEPT !.open = open, !.results = results, !.recording = recording,
                         !.confirmed = confirmed, !.life = life]
    BY DEF SettledWith
  <1> HIDE DEF open, results, recording, confirmed, life
  <1> DEFINE a == [ss EXCEPT !.open = open]
             b == [a EXCEPT !.results = results]
             c == [b EXCEPT !.recording = recording]
             d == [c EXCEPT !.confirmed = confirmed]
             e == [d EXCEPT !.life = life]
  <1>6. SettledWith(ss, command, outcome) = e
    BY <1>5
  <1>7. a \in SessionStates /\ a.open = open /\ a.next = ss.next
    BY <1>1 DEF SessionStates
  <1> HIDE DEF a
  <1>8. b \in SessionStates /\ b.open = open /\ b.next = ss.next /\ b.results = results
    BY <1>2, <1>7 DEF SessionStates
  <1> HIDE DEF b
  <1>9. c \in SessionStates /\ c.open = open /\ c.next = ss.next /\ c.results = results
    BY <1>4, <1>8 DEF SessionStates
  <1> HIDE DEF c
  <1>10. /\ d \in SessionStates /\ d.open = open /\ d.next = ss.next /\ d.results = results
         /\ d.confirmed = confirmed
    BY <1>3, <1>9 DEF SessionStates
  <1> HIDE DEF d
  <1>11. /\ e \in SessionStates /\ e.open = open /\ e.next = ss.next /\ e.results = results
         /\ e.confirmed = confirmed /\ e.life = life
    BY <1>3, <1>10 DEF SessionStates
  <1> HIDE DEF e
  <1> QED BY <1>6, <1>11 DEF open, results, confirmed, life

\* A command gets its outcome.
LEMMA SettleStep ==
    ASSUME Inv, NEW s \in Sessions, Settle(s)
    PROVE  Step(s)
  <1>1. TypeOK /\ TypedAt(s) /\ SessionInv(s) /\ session[s].life = "live"
    BY TypesAt DEF Inv, Settle
  <1>0. PICK command \in session[s].open : \E outcome \in OutcomesOf(session[s], command) :
          LET refuses == /\ outcome # "ok"
                         /\ command.kind \in {"replayStop", "recordingStop", "shutdown"}
          IN  /\ trouble' = [trouble EXCEPT ![s] = @ \/ refuses]
              /\ session' = [session EXCEPT ![s] = SettledWith(@, command, outcome)]
    BY DEF Settle
  <1>2. PICK outcome \in OutcomesOf(session[s], command) :
          LET refuses == /\ outcome # "ok"
                         /\ command.kind \in {"replayStop", "recordingStop", "shutdown"}
          IN  /\ trouble' = [trouble EXCEPT ![s] = @ \/ refuses]
              /\ session' = [session EXCEPT ![s] = SettledWith(@, command, outcome)]
    BY <1>0
  <1> DEFINE id      == command.id
             refuses == /\ outcome # "ok"
                        /\ command.kind \in {"replayStop", "recordingStop", "shutdown"}
             result  == [id |-> command.id, outcome |-> outcome]
  <1>3. outcome \in {"ok", "rejected", "failed"}
    BY <1>2 DEF OutcomesOf
  <1>4. /\ trouble' = [t \in Sessions |-> IF t = s THEN trouble'[s] ELSE trouble[t]]
        /\ trouble'[s] = (trouble[s] \/ refuses)
    BY <1>1, <1>2 DEF TypeOK
  <1>5. trouble'[s] \in BOOLEAN /\ (trouble[s] => trouble'[s]) /\ (refuses => trouble'[s])
    BY <1>1, <1>4 DEF TypedAt
  <1>6. /\ session' = [t \in Sessions |-> IF t = s THEN session'[s] ELSE session[t]]
        /\ session'[s] = SettledWith(session[s], command, outcome)
    BY <1>1, <1>2 DEF TypeOK
  <1>7. /\ session'[s] \in SessionStates
        /\ session'[s].open = session[s].open \ {command}
        /\ session'[s].results = session[s].results \cup {result}
        /\ session'[s].confirmed
              = (session[s].confirmed \/ (command.kind = "shutdown" /\ outcome = "ok"))
        /\ session'[s].life = IF command.kind = "shutdown" THEN "closing" ELSE "live"
        /\ session'[s].next = session[s].next
    BY <1>1, <1>2, <1>3, <1>6, SettledWithIs DEF TypedAt
  <1>8. SessionOnly /\ UNCHANGED <<entry, owner, reports, directory, admitted>>
    BY DEF Settle, SessionOnly
  <1>9. /\ owner[s].pc \in Turns => id \in Range(owner[s].tokens)
        /\ id = LastId <=> command.kind = "shutdown"
        /\ id # LastId => id < session[s].next
        /\ id = owner[s].replayStop => command.kind = "replayStop"
        /\ id = owner[s].recordingStop => command.kind = "recordingStop"
        /\ \A other \in session[s].open : other.id = id => other = command
    BY <1>1, <1>2 DEF SessionInv, Tokens
  <1>10. result.id = id /\ result.outcome = outcome
    OBVIOUS
  <1> HIDE DEF id, result, refuses
  <1>11. ASSUME owner[s].pc \in Turns
         PROVE  Tokens(s)'
    <2>1. \A other \in session'[s].open : other \in session[s].open /\ other.id # id
      BY <1>7, <1>9
    <2>2. \A other \in session'[s].open : \A r \in session'[s].results : r.id # other.id
      BY <1>1, <1>7, <1>10, <2>1 DEF SessionInv, Tokens
    <2>3. \A r \in session'[s].results :
             /\ r.id \in Range(owner[s].tokens)
             /\ r.id # LastId => r.id < session[s].next
      BY <1>1, <1>7, <1>9, <1>10, <1>11 DEF SessionInv, Tokens
    <2>4. session'[s].life = "live" => \A r \in session'[s].results : r.id # LastId
      BY <1>1, <1>7, <1>9, <1>10 DEF SessionInv, Tokens
    <2>5. session'[s].life = "closing" => ~IsOpen(session'[s], {"shutdown"})
      BY <1>1, <1>7, <1>9, <2>1 DEF SessionInv, Tokens, IsOpen
    <2>6. \A other \in session'[s].open :
             /\ other.id \in Range(owner[s].tokens)
             /\ other.id = LastId <=> other.kind = "shutdown"
             /\ other.id # LastId => other.id < session[s].next
             /\ other.id = owner[s].replayStop => other.kind = "replayStop"
             /\ other.id = owner[s].recordingStop => other.kind = "recordingStop"
             /\ \A third \in session'[s].open : third.id = other.id => third = other
      BY <1>1, <1>11, <2>1 DEF SessionInv, Tokens
    <2>7. IsOpen(session[s], {"shutdown"})' = IsOpen(session'[s], {"shutdown"})
      BY DEF IsOpen
    <2> QED BY <1>1, <1>7, <1>8, <2>2, <2>3, <2>4, <2>5, <2>6, <2>7
            DEF SessionInv, Tokens, Sent
  <1>12. Orderly(s)'
    <2>1. Excused(s) => Excused(s)'
      BY <1>5, <1>8 DEF Excused
    <2>2. \A r \in session'[s].results :
             IsOfTheStop(owner[s], r.id) /\ r.outcome # "ok" => Excused(s)'
      <3>1. IsOfTheStop(owner[s], id) /\ outcome # "ok" => refuses
        BY <1>9 DEF IsOfTheStop, refuses
      <3>2. refuses => Excused(s)'
        BY <1>5 DEF Excused
      <3>3. \A r \in session[s].results :
               IsOfTheStop(owner[s], r.id) /\ r.outcome # "ok" => Excused(s)
        BY <1>1 DEF SessionInv, Orderly
      <3> QED BY <1>7, <1>10, <2>1, <3>1, <3>2, <3>3
    <2>3. \A r \in session'[s].results :
             r.id = LastId /\ r.outcome = "ok" => session'[s].confirmed
      BY <1>1, <1>7, <1>9, <1>10 DEF SessionInv, Orderly
    <2>4. session'[s].life \in {"closing", "ended"} =>
              \E r \in session'[s].results : r.id = LastId
      BY <1>7, <1>9, <1>10
    <2>5. owner[s].pc # "ended" /\ ~owner[s].eventEnd
      BY <1>1 DEF SessionInv, Orderly
    <2>6. owner[s].shutdownCompleted =>
             owner[s].shutdownSent /\ session'[s].confirmed /\ LastId \notin Range(owner[s].tokens)
      BY <1>1, <1>7 DEF SessionInv, Orderly
    <2>7. (owner[s].failed => Excused(s)) /\ (owner[s].pc = "failed" => owner[s].failed)
      BY <1>1 DEF SessionInv, Orderly
    <2>8. IsOfTheStop(owner'[s], 0) = IsOfTheStop(owner[s], 0) /\ owner'[s] = owner[s]
      BY <1>8
    <2>9. owner[s].pc # "close"
      <3>1. "close" \in Turns /\ Range(<< >>) = {}
        BY EmptySeq DEF Turns, Range
      <3> QED BY <1>1, <1>9, <3>1 DEF SessionInv, Admission
    <2> QED BY <2>1, <2>2, <2>3, <2>4, <2>5, <2>6, <2>7, <2>8, <2>9 DEF Orderly, Shut
  <1>13. session'[s].life \in {"live", "closing", "ended"}
         /\ (session[s].confirmed => session'[s].confirmed)
    BY <1>7
  <1> QED BY <1>1, <1>4, <1>5, <1>6, <1>7, <1>8, <1>11, <1>12, <1>13, InsideStep

LEMMA NewOwnerIs ==
    ASSUME NEW pc \in Pcs
    PROVE  LET o == [NewOwner EXCEPT !.pc = pc] IN
           /\ o \in Owners /\ o.pc = pc /\ o.tokens = << >>
           /\ Range(o.tokens) = {} /\ Distinct(o.tokens)
           /\ o.replayStop = 0 /\ o.recordingStop = 0
           /\ ~o.stopSent /\ ~o.shutdownSent /\ ~o.shutdownCompleted
           /\ ~o.eventEnd /\ ~o.failed
  <1> DEFINE o == [NewOwner EXCEPT !.pc = pc]
  <1>1. << >> \in Seq(AllIds) /\ Range(<< >>) = {} /\ Distinct(<< >>)
    BY EmptySeq DEF Range, Distinct
  <1>2. NewOwner \in Owners
    BY <1>1 DEF NewOwner, Owners, Starts
  <1>3. o \in Owners
    BY <1>2 DEF Owners, Pcs
  <1>4. o.pc = pc /\ o.tokens = << >> /\ o.replayStop = 0 /\ o.recordingStop = 0
    BY DEF NewOwner
  <1>5. /\ o.stopSent = FALSE /\ o.shutdownSent = FALSE /\ o.shutdownCompleted = FALSE
        /\ o.eventEnd = FALSE /\ o.failed = FALSE
    BY DEF NewOwner
  <1> HIDE DEF o
  <1>6. /\ o \in Owners /\ o.pc = pc /\ o.tokens = << >>
        /\ Range(o.tokens) = {} /\ Distinct(o.tokens)
        /\ o.replayStop = 0 /\ o.recordingStop = 0
        /\ ~o.stopSent /\ ~o.shutdownSent /\ ~o.shutdownCompleted
        /\ ~o.eventEnd /\ ~o.failed
    BY <1>1, <1>3, <1>4, <1>5
  <1> QED BY <1>6 DEF o

\* The session is dropped: nothing of it is left but what is known of it.
LEMMA DropSessionStep ==
    ASSUME Inv, NEW s \in Sessions, DropSession(s)
    PROVE  Step(s)
  <1>1. TypeOK /\ TypedAt(s) /\ SessionInv(s) /\ owner[s].pc = "drop"
    BY TypesAt DEF Inv, DropSession
  <1>2. /\ "drop" \in Turns /\ "drop" \notin Starts /\ "drop" \notin Over
        /\ "join" \in Pcs /\ "join" \in Over /\ "join" \notin Starts /\ "join" \notin Turns
    BY DEF Turns, Starts, Over, Pcs
  <1>3. UNCHANGED <<entry, reports, directory, trouble, admitted>>
    BY DEF DropSession
  <1>4. /\ owner' = [t \in Sessions |-> IF t = s THEN owner'[s] ELSE owner[t]]
        /\ owner'[s] = [NewOwner EXCEPT !.pc = "join"]
    BY <1>1 DEF DropSession, TypeOK
  <1>5. /\ owner'[s] \in Owners /\ owner'[s].pc = "join" /\ owner'[s].tokens = << >>
        /\ Range(owner'[s].tokens) = {} /\ Distinct(owner'[s].tokens)
        /\ owner'[s].replayStop = 0 /\ owner'[s].recordingStop = 0
        /\ ~owner'[s].stopSent /\ ~owner'[s].shutdownSent /\ ~owner'[s].shutdownCompleted
        /\ ~owner'[s].eventEnd /\ ~owner'[s].failed
    BY <1>2, <1>4, NewOwnerIs
  <1> DEFINE over == EndOf(session[s])
  <1>6. /\ session' = [t \in Sessions |-> IF t = s THEN session'[s] ELSE session[t]]
        /\ session'[s] = [over EXCEPT !.life = "gone"]
    BY <1>1 DEF DropSession, TypeOK
  <1>7. /\ over \in SessionStates /\ over.open = {}
        /\ over.results = session[s].results /\ over.next = session[s].next
        /\ over.confirmed = session[s].confirmed
    BY <1>1, EndOfIs DEF TypedAt
  <1> HIDE DEF over
  <1>8. /\ session'[s] \in SessionStates /\ session'[s].life = "gone"
        /\ session'[s].open = {} /\ session'[s].results = session[s].results
        /\ session'[s].next = session[s].next
        /\ session'[s].confirmed = session[s].confirmed
    BY <1>6, <1>7 DEF SessionStates
  <1>9. Frame(s) /\ TypedAt(s)'
    BY <1>1, <1>3, <1>4, <1>5, <1>6, <1>8 DEF Frame, TypeOK, TypedAt
  <1>10. Placed(s)'
    BY <1>1, <1>2, <1>3, <1>5, <1>8 DEF SessionInv, Placed
  <1>11. Admission(s)'
    BY <1>2, <1>4, <1>5, <1>8 DEF Admission, Sent
  <1>12. Tokens(s)'
    BY <1>1, <1>2, <1>5, <1>8 DEF SessionInv, Tokens, Sent
  <1>13. Orderly(s)'
    <2>1. \A result \in session'[s].results :
             IsOfTheStop(owner'[s], result.id) => result.id = LastId
      BY <1>5 DEF IsOfTheStop
    <2>2. \A result \in session[s].results :
             result.id = LastId /\ result.outcome # "ok" => Excused(s)
      BY <1>1 DEF SessionInv, Orderly, IsOfTheStop
    <2>3. Excused(s)' = Excused(s)
      BY <1>3 DEF Excused
    <2>4. \A result \in session[s].results :
             result.id = LastId /\ result.outcome = "ok" => session[s].confirmed
      BY <1>1 DEF SessionInv, Orderly
    <2> QED BY <1>5, <1>8, <2>1, <2>2, <2>3, <2>4 DEF Orderly
  <1>14. Truthful(s)'
    BY <1>1, <1>2, <1>3, <1>8 DEF SessionInv, Placed, Truthful, Excused, IsExhausted
  <1> QED BY <1>3, <1>9, <1>10, <1>11, <1>12, <1>13, <1>14 DEF Step, SessionInv, Settled

LEMMA DoneStep ==
    ASSUME Inv, NEW s \in Sessions, Done(s)
    PROVE  Step(s)
  <1>1. TypeOK /\ TypedAt(s) /\ SessionInv(s) /\ owner[s].pc = "join" /\ reports[s] = 0
    BY TypesAt DEF Inv, Done, Joins
  <1>2. /\ "join" \in Over /\ "join" \notin Starts /\ "join" \notin Turns
        /\ "done" \in Pcs /\ "done" \in Over /\ "done" \notin Starts /\ "done" \notin Turns
    BY DEF Turns, Starts, Over, Pcs
  <1>3. UNCHANGED <<session, reports, directory, trouble, admitted>>
    BY DEF Done, OwnerOnly
  <1>4. /\ owner' = [t \in Sessions |-> IF t = s THEN owner'[s] ELSE owner[t]]
        /\ owner'[s] \in Owners
        /\ owner'[s] = [owner[s] EXCEPT !.pc = "done"]
        /\ owner'[s].pc = "done"
        /\ SamePlan(s)
    BY <1>1, <1>2, GoesTo DEF Done
  <1>5. /\ entry' = [t \in Sessions |-> IF t = s THEN entry'[s] ELSE entry[t]]
        /\ entry'[s] = [entry[s] EXCEPT !.done = TRUE]
    BY <1>1 DEF Done, TypeOK
  <1>6. /\ IsEntry(entry'[s]) /\ entry'[s].life = entry[s].life
        /\ entry'[s].cancel = entry[s].cancel /\ entry'[s].forced = entry[s].forced
        /\ entry'[s].done = TRUE
    <2> DEFINE e == entry[s]
    <2>1. IsEntry(e)
      BY <1>1 DEF TypedAt
    <2>2. entry'[s] = [e EXCEPT !.done = TRUE]
      BY <1>5
    <2> HIDE DEF e
    <2>3. entry'[s] = [life |-> e.life, pending |-> e.pending, store |-> e.store,
                       cancel |-> e.cancel, forced |-> e.forced,
                       reportCancel |-> e.reportCancel, incomplete |-> e.incomplete,
                       done |-> TRUE]
      BY <2>1, <2>2 DEF IsEntry
    <2>4. /\ IsEntry(entry'[s]) /\ entry'[s].life = e.life
          /\ entry'[s].cancel = e.cancel /\ entry'[s].forced = e.forced
          /\ entry'[s].done = TRUE
      BY <2>1, <2>3 DEF IsEntry
    <2> QED BY <2>4 DEF e
  <1>7. Frame(s) /\ TypedAt(s)'
    BY <1>1, <1>3, <1>4, <1>5, <1>6 DEF Frame, TypeOK, TypedAt
  <1>8. Placed(s)'
    BY <1>1, <1>2, <1>3, <1>4, <1>6 DEF SessionInv, Placed
  <1>9. Admission(s)'
    <2>1. owner'[s] = [NewOwner EXCEPT !.pc = "done"]
      BY <1>1, <1>2, <1>4 DEF SessionInv, Admission, NewOwner
    <2> QED BY <1>1, <1>2, <1>3, <1>4, <1>6, <2>1, AdmissionKept DEF SessionInv
  <1>10. Tokens(s)'
    BY <1>1, <1>2, <1>3, <1>4, TokensKept DEF SessionInv
  <1>11. Orderly(s)'
    BY <1>1, <1>3, <1>4, <1>6, OrderlyKept DEF SessionInv, Excused
  <1>12. Truthful(s)'
    BY <1>1, <1>3, <1>6 DEF SessionInv, Truthful, Excused, IsExhausted
  <1>13. ~entry[s].done /\ entry[s].life # "absent"
    BY <1>1 DEF SessionInv, Placed
  <1> QED BY <1>7, <1>8, <1>9, <1>10, <1>11, <1>12, <1>13 DEF Step, SessionInv, Settled

\* What may happen to the entry of a session that is not the work of its owner.
LEMMA EntryStep ==
    ASSUME NEW s \in Sessions, TypedAt(s), SessionInv(s),
           owner'[s] = owner[s], session'[s] = session[s], trouble'[s] = trouble[s],
           admitted'[s] = admitted[s],
           entry[s].done => reports'[s] = 0,
           \/ entry'[s].life = entry[s].life
           \/ entry[s].life \in {"Starting", "Ready"} /\ entry'[s].life = "Stopping",
           entry[s].cancel => entry'[s].cancel, entry'[s].done = entry[s].done,
           entry'[s].forced => directory'.forced
    PROVE  SessionInv(s)'
  <1>1. Placed(s)'
    BY DEF SessionInv, Placed, IsTerminal
  <1>2. Admission(s)'
    BY DEF SessionInv, Admission, Sent
  <1>3. Tokens(s)'
    BY DEF SessionInv, Tokens, Sent, IsOpen
  <1>4. Excused(s) => Excused(s)'
    BY DEF Excused
  <1>5. Orderly(s)'
    BY <1>4 DEF SessionInv, Orderly, IsOfTheStop, Shut
  <1>6. Truthful(s)'
    BY <1>4 DEF SessionInv, Truthful, IsExhausted
  <1> QED BY <1>1, <1>2, <1>3, <1>5, <1>6 DEF SessionInv

LEMMA RunReportStep ==
    ASSUME Inv, NEW s \in Sessions, RunReport(s)
    PROVE  Step(s)
  <1>1. TypeOK /\ TypedAt(s) /\ SessionInv(s) /\ reports[s] > 0
    BY TypesAt DEF Inv, RunReport
  <1>2. ~entry[s].done
    BY <1>1 DEF SessionInv, Placed
  <1>3. UNCHANGED <<owner, session, directory, trouble, admitted>>
    BY DEF RunReport
  <1>4. PICK interrupted \in BOOLEAN :
            entry' = [entry EXCEPT ![s] = ReportedEntry(@, interrupted)]
    BY DEF RunReport
  <1>5. /\ entry' = [t \in Sessions |-> IF t = s THEN entry'[s] ELSE entry[t]]
        /\ entry'[s] = ReportedEntry(entry[s], interrupted)
    BY <1>1, <1>4, EntryAt
  <1>6. /\ IsEntry(entry'[s]) /\ entry'[s].life = entry[s].life
        /\ entry'[s].cancel = entry[s].cancel /\ entry'[s].forced = entry[s].forced
        /\ entry'[s].done = entry[s].done
    BY <1>1, <1>5, ReportedIs DEF TypedAt
  <1>7. /\ reports' = [t \in Sessions |-> IF t = s THEN reports'[s] ELSE reports[t]]
        /\ reports'[s] \in Nat
    <2> DEFINE n == reports[s] - 1
    <2>1. n \in Nat /\ reports \in [Sessions -> Nat]
      BY <1>1 DEF TypeOK, TypedAt
    <2>2. reports' = [reports EXCEPT ![s] = n]
      BY DEF RunReport
    <2> HIDE DEF n
    <2> QED BY <2>1, <2>2
  <1>8. Frame(s) /\ TypedAt(s)'
    BY <1>1, <1>3, <1>5, <1>6, <1>7 DEF Frame, TypeOK, TypedAt
  <1>9. entry[s].forced => directory'.forced
    BY <1>1, <1>3 DEF SessionInv, Placed
  <1>10. SessionInv(s)'
    BY <1>1, <1>2, <1>3, <1>6, <1>9, EntryStep
  <1> QED BY <1>2, <1>6, <1>8, <1>10 DEF Step, Settled

-----------------------------------------------------------------------------
(* The directory *)

LEMMA CreateStep ==
    ASSUME Inv, NEW s \in Sessions, Create(s)
    PROVE  Step(s)
  <1>1. TypeOK /\ TypedAt(s) /\ SessionInv(s) /\ entry[s].life = "absent"
        /\ ~directory.stopping
    BY TypesAt DEF Inv, Create
  <1>2. /\ "absent" \in Starts /\ "absent" \notin Turns /\ "absent" \notin Over
        /\ "prepare" \in Pcs /\ "prepare" \in Starts /\ "prepare" \notin Turns
        /\ "prepare" \notin Over
    BY DEF Turns, Starts, Over, Pcs
  <1>3. owner[s].pc = "absent" /\ ~entry[s].done /\ session[s].life = "none"
    BY <1>1, <1>2 DEF SessionInv, Placed
  <1>4. session[s] = NewSession /\ owner[s] = [NewOwner EXCEPT !.pc = "absent"]
    BY <1>1, <1>2, <1>3 DEF SessionInv, Tokens, Admission
  <1>5. UNCHANGED <<session, reports, directory, trouble, admitted>>
    BY DEF Create
  <1>6. /\ owner' = [t \in Sessions |-> IF t = s THEN owner'[s] ELSE owner[t]]
        /\ owner'[s] \in Owners
        /\ owner'[s] = [owner[s] EXCEPT !.pc = "prepare"]
        /\ owner'[s].pc = "prepare"
        /\ SamePlan(s)
    BY <1>1, <1>2, GoesTo DEF Create
  <1>7. owner'[s] = [NewOwner EXCEPT !.pc = "prepare"]
    BY <1>4, <1>6 DEF NewOwner
  <1>8. /\ entry' = [t \in Sessions |-> IF t = s THEN entry'[s] ELSE entry[t]]
        /\ entry'[s] = [NewEntry EXCEPT !.life = "Starting"]
    BY <1>1, EntryAt DEF Create
  <1>9. entry'[s] = [life |-> "Starting", pending |-> {}, store |-> NewStore,
                     cancel |-> FALSE, forced |-> FALSE, reportCancel |-> FALSE,
                     incomplete |-> FALSE, done |-> FALSE]
    BY <1>8 DEF NewEntry
  <1>10. /\ IsEntry(entry'[s]) /\ entry'[s].life = "Starting"
         /\ entry'[s].done = FALSE /\ entry'[s].forced = FALSE
    <2> DEFINE e == entry'[s]
    <2>1. /\ e.life = "Starting" /\ e.pending = {} /\ e.store = NewStore
          /\ e.cancel = FALSE /\ e.forced = FALSE /\ e.reportCancel = FALSE
          /\ e.incomplete = FALSE /\ e.done = FALSE
      BY <1>9
    <2>2. e = [life |-> e.life, pending |-> e.pending, store |-> e.store, cancel |-> e.cancel,
               forced |-> e.forced, reportCancel |-> e.reportCancel,
               incomplete |-> e.incomplete, done |-> e.done]
      BY <1>9, <2>1
    <2> HIDE DEF e
    <2>3. IsEntry(e)
      BY <2>1, <2>2 DEF IsEntry, Lives
    <2> QED BY <2>1, <2>3 DEF e
  <1>11. Frame(s) /\ TypedAt(s)'
    BY <1>1, <1>5, <1>6, <1>8, <1>10 DEF Frame, TypeOK, TypedAt
  <1>12. Placed(s)'
    BY <1>2, <1>3, <1>5, <1>6, <1>10 DEF Placed, IsTerminal, Over
  <1>13. /\ owner'[s].tokens = << >> /\ Range(owner'[s].tokens) = {}
         /\ owner'[s].replayStop = 0 /\ owner'[s].recordingStop = 0
         /\ ~owner'[s].stopSent /\ ~owner'[s].shutdownSent /\ ~owner'[s].shutdownCompleted
         /\ ~owner'[s].eventEnd /\ ~owner'[s].failed
    BY <1>2, <1>7, NewOwnerIs
  <1>14. Admission(s)'
    <2>1. session[s].next = admitted[s] + 1
      <3>1. owner[s].replayStop = 0 /\ ~Sent(owner[s]) /\ owner[s].pc \notin Over
        <4>1. "absent" \in Pcs
          BY <1>2 DEF Pcs
        <4>2. owner[s].replayStop = 0 /\ ~owner[s].shutdownSent /\ Range(owner[s].tokens) = {}
          BY <1>4, <4>1, NewOwnerIs
        <4> QED BY <1>2, <1>3, <4>2 DEF Sent
      <3> QED BY <1>1, <3>1 DEF SessionInv, Admission
    <2> QED BY <1>2, <1>5, <1>6, <1>7, <1>13, <2>1 DEF Admission, Sent
  <1>15. Tokens(s)'
    BY <1>1, <1>2, <1>5, <1>6, TokensKept DEF SessionInv
  <1>16. Orderly(s)'
    <2>1. session'[s].results = {} /\ session'[s].life = "none"
      BY <1>4, <1>5 DEF NewSession
    <2> QED BY <1>6, <1>13, <2>1 DEF Orderly
  <1>17. Truthful(s)'
    BY <1>10 DEF Truthful
  <1> QED BY <1>1, <1>3, <1>11, <1>12, <1>14, <1>15, <1>16, <1>17
          DEF Step, SessionInv, Settled

LEMMA StopSessionStep ==
    ASSUME Inv, NEW s \in Sessions, StopSession(s)
    PROVE  Step(s)
  <1>1. TypeOK /\ TypedAt(s) /\ SessionInv(s)
    BY TypesAt DEF Inv
  <1>2. UNCHANGED <<owner, session, reports, directory, trouble, admitted>>
    BY DEF StopSession, EntriesOnly
  <1>3. /\ entry' = [t \in Sessions |-> IF t = s THEN entry'[s] ELSE entry[t]]
        /\ entry'[s] = Stopped(entry[s])
    BY <1>1, EntryAt DEF StopSession
  <1>4. /\ IsEntry(entry'[s])
        /\ entry'[s].life = IF entry[s].life \in {"absent", "Ended", "Failed"}
                            THEN entry[s].life ELSE "Stopping"
        /\ entry[s].cancel => entry'[s].cancel
        /\ entry'[s].forced = entry[s].forced /\ entry'[s].done = entry[s].done
    BY <1>1, <1>3, StoppedIs DEF TypedAt
  <1>5. entry[s].done => entry'[s] = entry[s]
    <2>1. entry[s].done => IsTerminal(entry[s].life)
      BY <1>1 DEF SessionInv, Placed, Over
    <2> QED BY <1>3, <2>1 DEF Stopped
  <1>6. entry[s].done => reports'[s] = 0
    BY <1>1, <1>2 DEF SessionInv, Placed
  <1>7. entry'[s].forced => directory'.forced
    BY <1>1, <1>2, <1>4 DEF SessionInv, Placed
  <1>8. \/ entry'[s].life = entry[s].life
        \/ entry[s].life \in {"Starting", "Ready"} /\ entry'[s].life = "Stopping"
    BY <1>1, <1>4 DEF TypedAt, IsEntry, Lives
  <1>9. SessionInv(s)'
    BY <1>1, <1>2, <1>4, <1>6, <1>7, <1>8, EntryStep
  <1>10. Frame(s) /\ TypedAt(s)'
    BY <1>1, <1>2, <1>3, <1>4 DEF Frame, TypeOK, TypedAt
  <1> QED BY <1>4, <1>5, <1>9, <1>10 DEF Step, Settled

\* A step of the directory changes entries only.
LEMMA EntriesStep ==
    ASSUME Inv, EntriesOnly, directory' \in Directories,
           entry' = [s \in Sessions |-> entry'[s]],
           \A s \in Sessions :
              /\ IsEntry(entry'[s])
              /\ \/ entry'[s].life = entry[s].life
                 \/ entry[s].life \in {"Starting", "Ready"} /\ entry'[s].life = "Stopping"
              /\ entry[s].cancel => entry'[s].cancel
              /\ entry'[s].done = entry[s].done
              /\ entry'[s].forced => directory'.forced,
           Concluded'
    PROVE  Inv'
  <1>1. TypeOK'
    BY DEF Inv, TypeOK, EntriesOnly
  <1>2. ASSUME NEW s \in Sessions
        PROVE  SessionInv(s)'
    <2>1. TypedAt(s) /\ SessionInv(s)
      BY TypesAt DEF Inv
    <2>2. entry[s].done => reports'[s] = 0
      BY <2>1 DEF SessionInv, Placed, EntriesOnly
    <2>3. /\ owner'[s] = owner[s] /\ session'[s] = session[s] /\ trouble'[s] = trouble[s]
          /\ admitted'[s] = admitted[s]
      BY DEF EntriesOnly
    <2> QED BY <2>1, <2>2, <2>3, EntryStep
  <1> QED BY <1>1, <1>2 DEF Inv

\* Inner::stop() (mod.rs:209-232).
LEMMA StopAllStep ==
    ASSUME Inv, NEW force \in BOOLEAN, StopAll(force), directory.result = "none"
    PROVE  Inv'
  <1> DEFINE forced == directory.forced \/ force
  <1>1. TypeOK /\ \A s \in Sessions : TypedAt(s) /\ SessionInv(s)
    BY TypesAt DEF Inv
  <1>2. /\ directory' \in Directories /\ directory'.result = "none"
        /\ directory'.forced = forced
    <2>1. directory \in Directories
      BY <1>1 DEF TypeOK
    <2>2. forced \in BOOLEAN
      BY <2>1 DEF Directories
    <2> DEFINE a == [directory EXCEPT !.stopping = TRUE]
    <2>3. directory' = [a EXCEPT !.forced = forced]
      BY <2>1 DEF StopAll, Directories
    <2>4. a \in Directories /\ a.result = "none"
      BY <2>1 DEF Directories
    <2> HIDE DEF a, forced
    <2> QED BY <2>2, <2>3, <2>4 DEF Directories
  <1> HIDE DEF forced
  <1>3. entry' = [s \in Sessions |-> IF forced THEN Aborted(Stopped(entry[s]))
                                     ELSE Stopped(entry[s])]
    BY <1>2 DEF StopAll
  <1>4. ASSUME NEW s \in Sessions
        PROVE  /\ IsEntry(entry'[s])
               /\ \/ entry'[s].life = entry[s].life
                  \/ entry[s].life \in {"Starting", "Ready"} /\ entry'[s].life = "Stopping"
               /\ entry[s].cancel => entry'[s].cancel
               /\ entry'[s].done = entry[s].done
               /\ entry'[s].forced => directory'.forced
    <2> DEFINE e == entry[s]
               o == Stopped(e)
    <2>1. IsEntry(e) /\ (e.forced => directory.forced)
      BY <1>1 DEF TypedAt, SessionInv, Placed
    <2>2. /\ IsEntry(o) /\ (e.cancel => o.cancel) /\ o.forced = e.forced /\ o.done = e.done
          /\ o.life = IF e.life \in {"absent", "Ended", "Failed"} THEN e.life ELSE "Stopping"
      <3> HIDE DEF e
      <3> QED BY <2>1, StoppedIs
    <2>3. \/ o.life = e.life
          \/ e.life \in {"Starting", "Ready"} /\ o.life = "Stopping"
      BY <2>1, <2>2 DEF IsEntry, Lives
    <2>4. CASE ~forced
      <3>1. entry'[s] = o
        BY <1>3, <2>4
      <3>2. ~directory.forced
        BY <2>4 DEF forced
      <3> HIDE DEF o
      <3> QED BY <2>1, <2>2, <2>3, <3>1, <3>2
    <2>5. CASE forced
      <3>1. entry'[s] = Aborted(o)
        BY <1>3, <2>5
      <3>2. directory'.forced
        BY <1>2, <2>5
      <3> HIDE DEF o, e
      <3>3. /\ IsEntry(Aborted(o)) /\ Aborted(o).life = o.life
            /\ (o.cancel => Aborted(o).cancel) /\ Aborted(o).done = o.done
        BY <2>2, AbortedIs
      <3>4. /\ IsEntry(entry'[s])
            /\ entry'[s].life = e.life
               \/ (e.life \in {"Starting", "Ready"} /\ entry'[s].life = "Stopping")
            /\ (e.cancel => entry'[s].cancel) /\ entry'[s].done = e.done
        BY <2>2, <2>3, <3>1, <3>3
      <3> QED BY <3>2, <3>4 DEF e
    <2> QED BY <2>4, <2>5
  <1>5. entry' = [s \in Sessions |-> entry'[s]]
    BY <1>3
  <1>6. EntriesOnly
    BY DEF StopAll
  <1>7. Concluded'
    BY <1>2 DEF Concluded
  <1> QED BY <1>2, <1>4, <1>5, <1>6, <1>7, EntriesStep

\* finished() (mod.rs:177-207).
LEMMA FinishedStep ==
    ASSUME Inv, NEW late \in BOOLEAN, Finished(late)
    PROVE  Inv'
  <1> DEFINE forced == directory.forced \/ late
             clean  == ~forced /\ \A s \in Created : entry[s].life # "Failed"
                                                       /\ ~entry[s].incomplete
             result == IF ~AllDone THEN directory.result
                       ELSE IF clean THEN "ok" ELSE "incomplete"
  <1>1. TypeOK /\ \A s \in Sessions : TypedAt(s) /\ SessionInv(s)
    BY TypesAt DEF Inv
  <1>2. directory \in Directories /\ directory.stopping /\ directory.result = "none"
    BY <1>1 DEF TypeOK, Finished
  <1>3. forced \in BOOLEAN /\ result \in {"none", "ok", "incomplete"}
    BY <1>2 DEF Directories
  <1>4. directory' = [directory EXCEPT !.forced = forced, !.result = result]
    BY DEF Finished
  <1>5. /\ directory' \in Directories /\ directory'.stopping = directory.stopping
        /\ directory'.forced = forced /\ directory'.result = result
    <2> HIDE DEF forced, clean, result
    <2> DEFINE a == [directory EXCEPT !.forced = forced]
    <2>1. directory' = [a EXCEPT !.result = result]
      BY <1>4
    <2>2. a \in Directories /\ a.stopping = directory.stopping /\ a.forced = forced
      BY <1>2, <1>3 DEF Directories
    <2> HIDE DEF a
    <2> QED BY <1>3, <2>1, <2>2 DEF Directories
  <1>6. entry' = [s \in Sessions |-> IF late THEN Aborted(entry[s]) ELSE entry[s]]
    BY <1>1 DEF Finished, TypeOK
  <1>7. ASSUME NEW s \in Sessions
        PROVE  /\ IsEntry(entry'[s])
               /\ entry'[s].life = entry[s].life
               /\ entry[s].cancel => entry'[s].cancel
               /\ entry'[s].done = entry[s].done
               /\ entry'[s].forced => directory'.forced
    <2>1. IsEntry(entry[s]) /\ (entry[s].forced => directory.forced)
      BY <1>1 DEF TypedAt, SessionInv, Placed
    <2>2. CASE ~late
      BY <1>5, <1>6, <2>1, <2>2
    <2>3. CASE late
      BY <1>5, <1>6, <2>1, <2>3, AbortedIs
    <2> QED BY <2>2, <2>3
  <1>8. Concluded'
    <2> SUFFICES ASSUME result # "none"
                 PROVE  Concluded'
      BY <1>5 DEF Concluded
    <2>1. AllDone /\ (result = "ok" => clean)
      BY <1>2
    <2>2. AllDone'
      BY <1>7, <2>1 DEF AllDone, Created
    <2>3. ASSUME result = "ok", NEW s \in Created'
          PROVE  entry'[s].life = "Ended" /\ ~entry'[s].incomplete /\ ~entry'[s].forced
      <3>1. s \in Sessions /\ s \in Created /\ clean /\ entry'[s] = entry[s]
        BY <1>6, <1>7, <2>1, <2>3 DEF Created
      <3>2. entry[s].done /\ entry[s].life # "Failed" /\ ~entry[s].incomplete
            /\ ~directory.forced
        BY <2>1, <3>1 DEF AllDone
      <3>3. IsTerminal(entry[s].life) /\ ~entry[s].forced
        BY <1>1, <3>1, <3>2 DEF SessionInv, Placed, Over
      <3> QED BY <3>1, <3>2, <3>3 DEF IsTerminal
    <2> HIDE DEF result
    <2> QED BY <1>2, <1>5, <2>2, <2>3 DEF Concluded
  <1>9. EntriesOnly
    BY DEF Finished
  <1>10. entry' = [s \in Sessions |-> entry'[s]]
    BY <1>6
  <1> HIDE DEF forced, result
  <1> QED BY <1>5, <1>7, <1>8, <1>9, <1>10, EntriesStep

-----------------------------------------------------------------------------
(* The theorems *)

LEMMA InitInv == Init => Inv
  <1> SUFFICES ASSUME Init PROVE Inv
    OBVIOUS
  <1>1. "absent" \in Starts /\ "absent" \notin Turns /\ "absent" \notin Over
        /\ "absent" \in Pcs
    BY DEF Starts, Turns, Over, Pcs
  <1>2. NewOwner = [NewOwner EXCEPT !.pc = "absent"] /\ NewOwner.pc = "absent"
    BY DEF NewOwner
  <1>3. /\ NewOwner \in Owners /\ NewOwner.tokens = << >>
        /\ Range(NewOwner.tokens) = {} /\ Distinct(NewOwner.tokens)
        /\ NewOwner.replayStop = 0 /\ NewOwner.recordingStop = 0
        /\ ~NewOwner.stopSent /\ ~NewOwner.shutdownSent /\ ~NewOwner.shutdownCompleted
        /\ ~NewOwner.eventEnd /\ ~NewOwner.failed
    BY <1>1, <1>2, NewOwnerIs
  <1>4. /\ IsEntry(NewEntry) /\ NewEntry.life = "absent"
        /\ NewEntry.done = FALSE /\ NewEntry.forced = FALSE
    BY DEF IsEntry, NewEntry, Lives
  <1>5. /\ NewSession \in SessionStates /\ NewSession.life = "none" /\ NewSession.open = {}
        /\ NewSession.results = {} /\ NewSession.next = 1
    <2>1. 1 \in AllIds
      BY LastIdAssumption DEF AllIds
    <2>2. NewSession \in SessionStates
      BY <2>1 DEF NewSession, SessionStates
    <2> QED BY <2>2 DEF NewSession
  <1>6. TypeOK
    <2>1. entry = [s \in Sessions |-> entry[s]] /\ \A s \in Sessions : IsEntry(entry[s])
      BY <1>4 DEF Init
    <2>2. owner \in [Sessions -> Owners] /\ session \in [Sessions -> SessionStates]
      BY <1>3, <1>5 DEF Init
    <2>3. directory \in Directories
      BY DEF Init, Directories
    <2> QED BY <2>1, <2>2, <2>3 DEF Init, TypeOK
  <1>7. ASSUME NEW s \in Sessions
        PROVE  SessionInv(s)
    <2>1. /\ entry[s] = NewEntry /\ owner[s] = NewOwner /\ session[s] = NewSession
          /\ reports[s] = 0 /\ admitted[s] = 0
      BY DEF Init
    <2>2. Placed(s)
      BY <1>1, <1>2, <1>4, <1>5, <2>1 DEF Placed, IsTerminal, Over
    <2>3. Admission(s)
      BY <1>1, <1>2, <1>3, <1>5, <2>1 DEF Admission, Sent
    <2>4. Tokens(s)
      BY <1>1, <1>2, <1>3, <1>5, <2>1 DEF Tokens, Sent
    <2>5. Orderly(s)
      BY <1>2, <1>3, <1>5, <2>1 DEF Orderly
    <2>6. Truthful(s)
      BY <1>4, <2>1 DEF Truthful
    <2> QED BY <2>2, <2>3, <2>4, <2>5, <2>6 DEF SessionInv
  <1>8. Concluded
    BY DEF Init, Concluded
  <1> QED BY <1>6, <1>7, <1>8 DEF Inv

LEMMA StepKeeps ==
    ASSUME Inv, NEW s \in Sessions, Step(s)
    PROVE  Inv'
  BY LocalStep DEF Step

LEMMA NextInv == Inv /\ [Next]_vars => Inv'
  <1> SUFFICES ASSUME Inv, [Next]_vars PROVE Inv'
    OBVIOUS
  <1>0. TypeOK
    BY DEF Inv
  <1>1. ASSUME UNCHANGED <<entry, owner, session, reports, directory, trouble, admitted>>
        PROVE  Inv'
    <2>1. TypeOK'
      BY <1>0, <1>1 DEF TypeOK
    <2>2. ASSUME NEW s \in Sessions
          PROVE  SessionInv(s)'
      <3>1. SessionInv(s) /\ Same(s) /\ (directory.forced => directory'.forced)
        BY <1>1 DEF Inv, Same
      <3> QED BY <3>1, SameInv
    <2>3. Concluded'
      BY <1>1 DEF Inv, Concluded, AllDone, Created
    <2> QED BY <2>1, <2>2, <2>3 DEF Inv
  <1>2. CASE UNCHANGED vars
    BY <1>1, <1>2 DEF vars
  <1>3. ASSUME NEW c \in Callers, Check(c) \/ Send(c)
        PROVE  Inv'
    BY <1>1, <1>3 DEF Check, Send
  <1>4. ASSUME NEW s \in Sessions, Owner(s)
        PROVE  Inv'
    <2>1. CASE Prepare(s) \/ LaunchFails(s) \/ Launches(s) \/ BecomesReady(s)
      BY <2>1, PrepareStep, LaunchFailsStep, LaunchesStep, BecomesReadyStep, StepKeeps
    <2>2. CASE CheckCancel(s) \/ Take(s) \/ EndTake(s) \/ Receive(s)
      BY <2>2, CheckCancelStep, TakeStep, EndTakeStep, ReceiveStep, StepKeeps
    <2>3. CASE TakeEvent(s) \/ EndEvents(s) \/ Returns(s)
      BY <2>3, TakeEventStep, EndEventsStep, ReturnsStep, StepKeeps
    <2>4. CASE StopReplay(s) \/ StopWarp(s) \/ ShutDown(s) \/ CloseRecording(s) \/ Wait(s)
      BY <2>4, StopReplayStep, StopWarpStep, ShutDownStep, CloseRecordingStep, WaitStep,
         StepKeeps
    <2>5. CASE DropSession(s) \/ Done(s)
      BY <2>5, DropSessionStep, DoneStep, StepKeeps
    <2> QED BY <1>4, <2>1, <2>2, <2>3, <2>4, <2>5 DEF Owner
  <1>5. ASSUME NEW s \in Sessions, Inside(s)
        PROVE  Inv'
    <2>1. CASE Settle(s) \/ SessionEnds(s) \/ Crash(s)
      BY <2>1, SettleStep, SessionEndsStep, CrashStep, StepKeeps
    <2>2. CASE RecordingFails(s) \/ GameReports(s)
      BY <2>2, RecordingFailsStep, GameReportsStep, StepKeeps
    <2> QED BY <1>5, <2>1, <2>2 DEF Inside
  <1>6. ASSUME NEW s \in Sessions, RunReport(s) \/ Create(s) \/ StopSession(s)
        PROVE  Inv'
    BY <1>6, RunReportStep, CreateStep, StopSessionStep, StepKeeps
  <1>7. CASE Asked
    <2>1. directory.result = "none" /\ (StopAll(FALSE) \/ StopAll(TRUE))
      BY <1>7 DEF Asked
    <2> QED BY <2>1, StopAllStep
  <1>8. CASE ListenerEnds
    <2>1. directory.result = "none" /\ StopAll(TRUE)
      BY <1>8 DEF ListenerEnds
    <2> QED BY <2>1, StopAllStep
  <1>9. ASSUME NEW late \in BOOLEAN, Finished(late)
        PROVE  Inv'
    BY <1>9, FinishedStep
  <1> QED BY <1>2, <1>3, <1>4, <1>5, <1>6, <1>7, <1>8, <1>9 DEF Next

LEMMA InvAlways == SafetySpec => []Inv
  BY InitInv, NextInv, PTL DEF SafetySpec

(***************************************************************************)
(* The admission closes with the stop: its first command follows all that  *)
(* callers had accepted, and none of theirs comes after it, for every      *)
(* number of callers and whatever they send (entry.rs:119, 303-316).       *)
(***************************************************************************)
THEOREM AdmissionIsClosed == SafetySpec => []AdmissionCloses
  <1>1. Inv => AdmissionCloses
    BY DEF Inv, SessionInv, Admission, AdmissionCloses
  <1> QED BY <1>1, InvAlways, PTL

(***************************************************************************)
(* A session that was stopped after its start and not forced fails only if *)
(* something went wrong outside or its ids ran out; one that has ended was *)
(* confirmed by its game, or had not come up (entry.rs:282-439).           *)
(***************************************************************************)
THEOREM StatesAreTrue == SafetySpec => []StateIsTruthful
  <1>1. Inv => StateIsTruthful
    BY DEF Inv, SessionInv, Truthful, Excused, StateIsTruthful
  <1> QED BY <1>1, InvAlways, PTL

(***************************************************************************)
(* The server returns when nothing of a session is left, and returns Ok    *)
(* only if every session has ended by itself and every report has its      *)
(* result (mod.rs:177-207).                                                *)
(***************************************************************************)
THEOREM ResultsAreTrue == SafetySpec => []ResultIsTruthful
  <1>1. Inv => ResultIsTruthful
    <2> SUFFICES ASSUME Inv, directory.result # "none"
                 PROVE  /\ \A s \in Created : session[s].life \in {"none", "gone"}
                                                /\ reports[s] = 0
                        /\ directory.result = "ok" =>
                              \A s \in Created : entry[s].life = "Ended"
                                    /\ ~entry[s].incomplete /\ ~entry[s].forced
      BY DEF ResultIsTruthful
    <2>1. AllDone /\ (directory.result = "ok" =>
                        \A s \in Created : entry[s].life = "Ended"
                              /\ ~entry[s].incomplete /\ ~entry[s].forced)
      BY DEF Inv, Concluded
    <2>2. ASSUME NEW s \in Created
          PROVE  session[s].life \in {"none", "gone"} /\ reports[s] = 0
      <3>1. s \in Sessions /\ entry[s].done
        BY <2>1 DEF Created, AllDone
      <3> QED BY <3>1 DEF Inv, SessionInv, Placed, Over
    <2> QED BY <2>1, <2>2
  <1> QED BY <1>1, InvAlways, PTL

-----------------------------------------------------------------------------
(* Cursors *)

Whats ==
    [kind : {"lifecycle", "pending", "settled", "event", "report"},
     life : Lives \cup {""}, id : AllIds \cup {0}]

Activities == [position : Nat, size : Nat, what : Whats, pending : SUBSET AllIds]

\* What a snapshot said n entries after the floor.
KnownAt(store, n) == IF n = 0 THEN store.known ELSE store.entries[n].pending

(***************************************************************************)
(* The chain: each entry makes of what was pending before it what a        *)
(* snapshot at it says, from the floor to what is pending now.             *)
(***************************************************************************)
Chain(store, pending) ==
    /\ IsLog(store, Activities)
    /\ \A i \in 1 .. Len(store.entries) :
          KnownAt(store, i) = Applied(KnownAt(store, i - 1), store.entries[i])
    /\ pending = KnownAt(store, Len(store.entries))
    /\ pending \in SUBSET AllIds

\* A push that tells what it changed is one more link (activity.rs:31-48).
LEMMA ChainPush ==
    ASSUME NEW store, NEW known, Chain(store, known), NEW what \in Whats, NEW size \in Nat,
           NEW pending \in SUBSET AllIds,
           Applied(known, Pushes(store, what, size, pending)) = pending
    PROVE  Chain(Push(store, what, size, pending), pending)
  <1> DEFINE new   == Push(store, what, size, pending)
             added == Pushes(store, what, size, pending)
             len   == Len(store.entries)
  <1>1. /\ IsLog(store, Activities) /\ known = KnownAt(store, len)
        /\ \A i \in 1 .. len : KnownAt(store, i) = Applied(KnownAt(store, i - 1), store.entries[i])
    BY DEF Chain
  <1>2. /\ store.entries \in Seq(Activities) /\ len \in Nat
        /\ store.position \in Nat /\ store.floor \in Nat
    BY <1>1 DEF IsLog, LogOf
  <1>3. added \in Activities
    BY <1>2 DEF Pushes, Activities
  <1>4. IsLog(new, Activities)
    BY <1>1, <1>3, PushKeepsLog
  <1>5. PICK n : PushesAfter(store, what, size, pending, n)
    BY <1>1, PushIs
  <1> DEFINE kept == After(store.entries, n)
  <1>6. n \in 0 .. len
    BY <1>5 DEF PushesAfter
  <1>7. CASE size > Limit
    <2>1. new.entries = << >> /\ new.known = pending
      BY <1>5, <1>7 DEF PushesAfter
    <2> HIDE DEF new
    <2>2. Len(new.entries) = 0
      BY <2>1
    <2> QED BY <1>4, <2>1, <2>2 DEF Chain, KnownAt, new
  <1>8. CASE size <= Limit
    <2>1. /\ new.entries = Append(kept, added)
          /\ new.known = KnownAt(store, n)
      BY <1>5, <1>8 DEF PushesAfter, KnownAt
    <2>2. /\ kept \in Seq(Activities) /\ Len(kept) = len - n
          /\ \A i \in 1 .. len - n : kept[i] = store.entries[n + i]
      BY <1>2, <1>6, AfterIs
    <2> HIDE DEF kept, new, added
    <2>3. /\ Len(new.entries) = (len - n) + 1
          /\ \A i \in 1 .. len - n : new.entries[i] = kept[i]
          /\ new.entries[(len - n) + 1] = added
      BY <1>3, <2>1, <2>2, AppendIs
    <2> HIDE DEF len
    <2>4. ASSUME NEW i \in 0 .. len - n PROVE KnownAt(new, i) = KnownAt(store, n + i)
      <3>1. CASE i = 0
        <4>1. n + i = n
          BY <1>6, <3>1
        <4> QED BY <2>1, <3>1, <4>1 DEF KnownAt
      <3>2. CASE i # 0
        <4>1. i \in 1 .. len - n /\ n + i # 0
          BY <1>2, <1>6, <3>2
        <4>2. new.entries[i] = store.entries[n + i]
          BY <2>2, <2>3, <4>1
        <4> QED BY <3>2, <4>1, <4>2 DEF KnownAt
      <3> QED BY <3>1, <3>2
    <2>5. KnownAt(new, (len - n) + 1) = pending /\ n + (len - n) = len
          /\ KnownAt(new, len - n) = known
      <3>1. (len - n) + 1 # 0 /\ n + (len - n) = len /\ len - n \in 0 .. len - n
        BY <1>2, <1>6
      <3>2. added.pending = pending
        BY DEF added, Pushes
      <3>3. KnownAt(new, len - n) = KnownAt(store, n + (len - n))
        BY <2>4, <3>1
      <3> QED BY <1>1, <2>3, <3>1, <3>2, <3>3 DEF KnownAt, len
    <2>6. ASSUME NEW i \in 1 .. (len - n) + 1
          PROVE  KnownAt(new, i) = Applied(KnownAt(new, i - 1), new.entries[i])
      <3>1. CASE i = (len - n) + 1
        <4>1. i - 1 = len - n
          BY <1>2, <1>6, <3>1
        <4>2. new.entries[i] = added
          BY <2>3, <3>1
        <4>3. KnownAt(new, i) = pending /\ KnownAt(new, i - 1) = known
          BY <2>5, <3>1, <4>1
        <4>4. Applied(known, added) = pending
          BY DEF added
        <4> QED BY <4>2, <4>3, <4>4
      <3>2. CASE i # (len - n) + 1
        <4>1. /\ i \in 1 .. len - n /\ i \in 0 .. len - n /\ i - 1 \in 0 .. len - n
              /\ n + i \in 1 .. len /\ n + (i - 1) = (n + i) - 1
          BY <1>2, <1>6, <3>2
        <4>2. /\ KnownAt(new, i) = KnownAt(store, n + i)
              /\ KnownAt(new, i - 1) = KnownAt(store, (n + i) - 1)
          BY <2>4, <4>1
        <4>3. new.entries[i] = store.entries[n + i]
          BY <2>2, <2>3, <4>1
        <4>4. KnownAt(store, n + i) = Applied(KnownAt(store, (n + i) - 1), store.entries[n + i])
          BY <1>1, <4>1 DEF len
        <4> QED BY <4>2, <4>3, <4>4
      <3> QED BY <3>1, <3>2
    <2>7. IsLog(new, Activities)
      BY <1>4 DEF new
    <2>8. Chain(new, pending)
      BY <2>3, <2>5, <2>6, <2>7 DEF Chain
    <2> QED BY <2>8 DEF new
  <1> QED BY <1>7, <1>8, LimitAssumption

Chained(e) == Chain(e.store, e.pending)

LEMMA PushedChain ==
    ASSUME NEW e, IsEntry(e), NEW known, Chain(e.store, known), NEW what \in Whats,
           NEW size \in Nat, e.pending \in SUBSET AllIds,
           Applied(known, Pushes(e.store, what, size, e.pending)) = e.pending
    PROVE  Chained(Pushed(e, what, size))
  <1> DEFINE store == Push(e.store, what, size, e.pending)
  <1>1. Chain(store, e.pending)
    <2> DEFINE old == e.store
               pending == e.pending
    <2>1. /\ Chain(old, known) /\ pending \in SUBSET AllIds
          /\ Applied(known, Pushes(old, what, size, pending)) = pending
      OBVIOUS
    <2> HIDE DEF old, pending
    <2>2. Chain(Push(old, what, size, pending), pending)
      BY <2>1, ChainPush
    <2> QED BY <2>2 DEF old, pending
  <1>2. Pushed(e, what, size) = [e EXCEPT !.store = store]
    BY DEF Pushed
  <1> HIDE DEF store
  <1>3. Pushed(e, what, size).store = store /\ Pushed(e, what, size).pending = e.pending
    BY <1>2 DEF IsEntry
  <1> QED BY <1>1, <1>3 DEF Chained

\* What an entry of a kind makes of what was known.
LEMMA AppliedIs ==
    ASSUME NEW store, NEW what, NEW size, NEW pending, NEW known,
           IsTerminal(what.life) => what.kind \notin {"pending", "settled"}
    PROVE  LET new == Applied(known, Pushes(store, what, size, pending)) IN
           /\ what.kind = "pending" => new = known \cup {what.id}
           /\ what.kind = "settled" => new = known \ {what.id}
           /\ what.kind \notin {"pending", "settled"} =>
                 new = IF IsTerminal(what.life) THEN {} ELSE known
  <1> DEFINE activity == Pushes(store, what, size, pending)
  <1>1. activity.what = what
    BY DEF Pushes
  <1> HIDE DEF activity
  <1>2. /\ what.kind = "pending" => Applied(known, activity) = known \cup {what.id}
        /\ what.kind = "settled" => Applied(known, activity) = known \ {what.id}
        /\ what.kind \notin {"pending", "settled"} =>
              Applied(known, activity) = IF IsTerminal(what.life) THEN {} ELSE known
    BY <1>1 DEF Applied
  <1> QED BY <1>2 DEF activity

\* A transition, and what it clears (entry.rs:81-101).
LEMMA TransitionedChain ==
    ASSUME NEW e, IsEntry(e), Chained(e), NEW life \in Lives
    PROVE  Chained(Transitioned(e, life))
  <1>1. CASE IsTerminal(e.life)
    BY <1>1 DEF Transitioned
  <1>2. CASE ~IsTerminal(e.life)
    <2> DEFINE pending == IF IsTerminal(life) THEN {} ELSE e.pending
               moved   == [e EXCEPT !.life = life, !.pending = pending]
    <2>1. Transitioned(e, life) = Pushed(moved, Lifecycle(life), 1)
      BY <1>2 DEF Transitioned
    <2>2. moved = [life |-> life, pending |-> pending, store |-> e.store,
                   cancel |-> e.cancel, forced |-> e.forced,
                   reportCancel |-> e.reportCancel, incomplete |-> e.incomplete,
                   done |-> e.done]
      <3> DEFINE d == [e EXCEPT !.life = life]
      <3>1. d = [life |-> life, pending |-> e.pending, store |-> e.store,
                 cancel |-> e.cancel, forced |-> e.forced,
                 reportCancel |-> e.reportCancel, incomplete |-> e.incomplete,
                 done |-> e.done]
        BY DEF IsEntry
      <3>2. moved = [d EXCEPT !.pending = pending]
        BY DEF IsEntry
      <3> HIDE DEF pending, d
      <3> QED BY <3>1, <3>2
    <2>3. e.pending \in SUBSET AllIds /\ Chain(e.store, e.pending)
      BY DEF Chained, Chain
    <2>4. pending \in SUBSET AllIds
      BY <2>3
    <2>5. Lifecycle(life) \in Whats /\ Lifecycle(life).kind = "lifecycle"
          /\ Lifecycle(life).life = life
      BY DEF Lifecycle, Whats
    <2>6. Applied(e.pending, Pushes(e.store, Lifecycle(life), 1, pending)) = pending
      BY <2>5, AppliedIs
    <2> HIDE DEF pending, moved
    <2>7. IsEntry(moved) /\ moved.store = e.store /\ moved.pending = pending
      BY <2>2 DEF IsEntry
    <2>8. /\ Chain(moved.store, e.pending) /\ moved.pending \in SUBSET AllIds
          /\ Applied(e.pending, Pushes(moved.store, Lifecycle(life), 1, moved.pending))
               = moved.pending
      BY <2>3, <2>4, <2>6, <2>7
    <2> DEFINE known == e.pending
               what == Lifecycle(life)
    <2> HIDE DEF known, what
    <2>9. Chained(Pushed(moved, what, 1))
      <3>1. /\ Chain(moved.store, known) /\ what \in Whats
            /\ Applied(known, Pushes(moved.store, what, 1, moved.pending)) = moved.pending
        BY <2>5, <2>8 DEF known, what
      <3> QED BY <2>7, <2>8, <3>1, PushedChain
    <2> QED BY <2>1, <2>9 DEF what
  <1> QED BY <1>1, <1>2

\* An entry that is Chained stays so with a command more or less, and the activity about it.
LEMMA CommandChain ==
    ASSUME NEW e, IsEntry(e), Chained(e), NEW id \in AllIds, NEW size \in Nat,
           NEW kind \in {"pending", "settled"}, NEW pending,
           pending = IF kind = "pending" THEN e.pending \cup {id} ELSE e.pending \ {id}
    PROVE  Chained(Pushed([e EXCEPT !.pending = pending],
                          [kind |-> kind, life |-> "", id |-> id], size))
  <1> DEFINE moved == [e EXCEPT !.pending = pending]
             what == [kind |-> kind, life |-> "", id |-> id]
  <1>1. /\ IsEntry(moved) /\ moved.store = e.store /\ moved.pending = pending
    <2>1. moved = [life |-> e.life, pending |-> pending, store |-> e.store,
                   cancel |-> e.cancel, forced |-> e.forced, reportCancel |-> e.reportCancel,
                   incomplete |-> e.incomplete, done |-> e.done]
      BY DEF IsEntry
    <2> HIDE DEF moved
    <2> QED BY <2>1 DEF IsEntry
  <1>2. what \in Whats /\ what.kind = kind /\ what.id = id /\ ~IsTerminal(what.life)
    BY DEF Whats, IsTerminal
  <1>3. e.pending \in SUBSET AllIds /\ Chain(e.store, e.pending)
    BY DEF Chained, Chain
  <1>4. pending \in SUBSET AllIds
    BY <1>3
  <1> DEFINE known == e.pending
  <1> HIDE DEF moved, what
  <1>5. pending = IF kind = "pending" THEN known \cup {id} ELSE known \ {id}
    OBVIOUS
  <1> HIDE DEF known
  <1>6. Applied(known, Pushes(moved.store, what, size, moved.pending)) = moved.pending
    <2> DEFINE new == Applied(known, Pushes(moved.store, what, size, moved.pending))
    <2>1. /\ what.kind = "pending" => new = known \cup {what.id}
          /\ what.kind = "settled" => new = known \ {what.id}
      BY <1>2, AppliedIs
    <2> HIDE DEF new
    <2>2. new = moved.pending
      BY <1>1, <1>2, <1>5, <2>1
    <2> QED BY <2>2 DEF new
  <1>7. Chain(moved.store, known) /\ moved.pending \in SUBSET AllIds
    BY <1>1, <1>3, <1>4 DEF known
  <1>8. Chained(Pushed(moved, what, size))
    BY <1>1, <1>2, <1>6, <1>7, PushedChain
  <1> QED BY <1>8 DEF moved, what

\* An accepted command; a shutdown begins the stop (entry.rs:103-119).
LEMMA AcceptedEntryChain ==
    ASSUME NEW e, IsEntry(e), Chained(e), NEW id \in AllIds
    PROVE  Chained(AcceptedEntry(e, id))
  <1> DEFINE a == Accepted(e, id)
             pending == e.pending \cup {id}
  <1>1. a = Pushed([e EXCEPT !.pending = pending], [kind |-> "pending", life |-> "", id |-> id], 1)
    BY DEF Accepted
  <1> HIDE DEF a
  <1>2. Chained(a)
    <2>1. pending = IF "pending" = "pending" THEN e.pending \cup {id} ELSE e.pending \ {id}
      OBVIOUS
    <2> HIDE DEF pending
    <2>2. Chained(Pushed([e EXCEPT !.pending = pending],
                         [kind |-> "pending", life |-> "", id |-> id], 1))
      BY <2>1, CommandChain
    <2> QED BY <1>1, <2>2
  <1>3. IsEntry(a)
    BY AcceptedIs DEF a
  <1>4. Chained(Transitioned(a, "Stopping"))
    <2>1. "Stopping" \in Lives
      BY DEF Lives
    <2> QED BY <1>2, <1>3, <2>1, TransitionedChain
  <1> QED BY <1>2, <1>4 DEF AcceptedEntry, a

\* A command that is answered (entry.rs:335-395).
LEMMA SettledEntryChain ==
    ASSUME NEW e, IsEntry(e), Chained(e), NEW id \in AllIds, NEW size \in Nat
    PROVE  Chained(SettledEntry(e, id, size))
  <1> DEFINE pending == e.pending \ {id}
  <1>1. SettledEntry(e, id, size)
          = Pushed([e EXCEPT !.pending = pending], [kind |-> "settled", life |-> "", id |-> id], size)
    BY DEF SettledEntry
  <1>2. pending = IF "settled" = "pending" THEN e.pending \cup {id} ELSE e.pending \ {id}
    OBVIOUS
  <1> HIDE DEF pending
  <1>3. Chained(Pushed([e EXCEPT !.pending = pending],
                       [kind |-> "settled", life |-> "", id |-> id], size))
    BY <1>2, CommandChain
  <1> QED BY <1>1, <1>3

\* Activities that change nothing of what is pending.
LEMMA NewsChain ==
    ASSUME NEW e, IsEntry(e), Chained(e), NEW kind \in {"event", "report"}
    PROVE  Chained(Pushed(e, [kind |-> kind, life |-> "", id |-> 0], 1))
  <1> DEFINE what == [kind |-> kind, life |-> "", id |-> 0]
             known == e.pending
  <1>1. what \in Whats /\ what.kind \notin {"pending", "settled"} /\ ~IsTerminal(what.life)
    BY DEF Whats, IsTerminal
  <1>2. Chain(e.store, known) /\ e.pending \in SUBSET AllIds /\ known = e.pending
    BY DEF Chained, Chain
  <1> HIDE DEF what, known
  <1>3. Applied(known, Pushes(e.store, what, 1, e.pending)) = e.pending
    BY <1>1, <1>2, AppliedIs
  <1>4. Chained(Pushed(e, what, 1))
    BY <1>1, <1>2, <1>3, PushedChain
  <1> QED BY <1>4 DEF what

\* Every session's store is a chain.
Chains == \A s \in Sessions : Chained(entry[s])

LEMMA OneChain ==
    ASSUME TypeOK, Chains, NEW s \in Sessions, NEW e, entry' = [entry EXCEPT ![s] = e],
           Chained(e)
    PROVE  Chains'
  <1>1. \A t \in Sessions : entry'[t] = IF t = s THEN e ELSE entry[t]
    BY DEF TypeOK
  <1>2. ASSUME NEW t \in Sessions PROVE Chained(entry'[t])
    BY <1>1 DEF Chains
  <1> QED BY <1>2 DEF Chains, Chained

LEMMA ChainAt ==
    ASSUME TypeOK, Chains, NEW s \in Sessions
    PROVE  IsEntry(entry[s]) /\ Chained(entry[s])
  BY DEF TypeOK, Chains

\* The transitions of an owner (entry.rs:216-330).
LEMMA TransitionsChain ==
    ASSUME TypeOK, Chains, NEW s \in Sessions, NEW life \in Lives,
           entry' = [entry EXCEPT ![s] = Transitioned(entry[s], life)]
    PROVE  Chains'
  <1> DEFINE e == entry[s]
  <1>1. IsEntry(e) /\ Chained(e)
    BY ChainAt
  <1> HIDE DEF e
  <1>2. Chained(Transitioned(e, life))
    BY <1>1, TransitionedChain
  <1>3. entry' = [entry EXCEPT ![s] = Transitioned(e, life)]
    BY DEF e
  <1> QED BY <1>2, <1>3, OneChain

LEMMA StartFailedChain ==
    ASSUME TypeOK, Chains, NEW s \in Sessions, NEW isEnded \in BOOLEAN, StartFailed(s, isEnded)
    PROVE  Chains'
  <1> DEFINE life == IF entry[s].life = "Stopping" /\ isEnded /\ ~entry[s].forced
                     THEN "Ended" ELSE "Failed"
  <1>1. entry' = [entry EXCEPT ![s] = Transitioned(entry[s], life)]
    BY DEF StartFailed
  <1>2. life \in Lives
    BY DEF Lives
  <1> HIDE DEF life
  <1> QED BY <1>1, <1>2, TransitionsChain

\* What an owner accepts, for a caller or for the stop (entry.rs:103-119).
LEMMA AcceptsChain ==
    ASSUME TypeOK, Chains, NEW s \in Sessions, NEW kind, NEW after, Accepts(s, kind, after)
    PROVE  Chains'
  <1> DEFINE id == IdFor(session[s], kind)
             e  == entry[s]
  <1>1. id \in AllIds
    <2>1. session[s].next \in AllIds /\ LastId \in AllIds
      BY LastIdAssumption DEF TypeOK, SessionStates, AllIds
    <2> QED BY <2>1 DEF IdFor
  <1>2. entry' = [entry EXCEPT ![s] = AcceptedEntry(e, id)]
    BY DEF Accepts
  <1>3. IsEntry(e) /\ Chained(e)
    BY ChainAt
  <1> HIDE DEF id, e
  <1>4. Chained(AcceptedEntry(e, id))
    BY <1>1, <1>3, AcceptedEntryChain
  <1> QED BY <1>2, <1>4, OneChain

LEMMA ReceiveChain ==
    ASSUME TypeOK, Chains, NEW s \in Sessions, Receive(s)
    PROVE  Chains'
  <1> DEFINE id == owner[s].tokens[owner[s].at]
             e  == entry[s]
  <1>1. CASE UNCHANGED entry
    BY <1>1 DEF Chains, Chained
  <1>2. CASE ~(UNCHANGED entry)
    <2>1. PICK size \in OutputSizes \cup {1} : entry' = [entry EXCEPT ![s] = SettledEntry(e, id, size)]
      BY <1>2 DEF Receive
    <2>2. size \in Nat
      BY LimitAssumption DEF OutputSizes
    <2>3. id \in AllIds
      <3>1. owner[s].tokens \in Seq(AllIds) /\ owner[s].at \in Nat \ {0}
        BY DEF TypeOK, Owners
      <3>2. owner[s].at \in 1 .. Len(owner[s].tokens)
        BY <3>1 DEF Receive
      <3> QED BY <3>1, <3>2, ElementOfSeq
    <2>4. IsEntry(e) /\ Chained(e)
      BY ChainAt
    <2> HIDE DEF id, e
    <2>5. Chained(SettledEntry(e, id, size))
      BY <2>2, <2>3, <2>4, SettledEntryChain
    <2> QED BY <2>1, <2>5, OneChain
  <1> QED BY <1>1, <1>2

LEMMA TakeEventChain ==
    ASSUME TypeOK, Chains, NEW s \in Sessions, TakeEvent(s)
    PROVE  Chains'
  <1> DEFINE e == entry[s]
             f == Pushed(e, [kind |-> "event", life |-> "", id |-> 0], 1)
  <1>1. entry' = [entry EXCEPT ![s] = f]
    BY DEF TakeEvent
  <1>2. IsEntry(e) /\ Chained(e)
    BY ChainAt
  <1>3. Chained(f)
    <2> HIDE DEF e
    <2> QED BY <1>2, NewsChain
  <1> HIDE DEF f
  <1> QED BY <1>1, <1>3, OneChain

\* A report keeps what is pending (reports.rs).
LEMMA RunReportChain ==
    ASSUME TypeOK, Chains, NEW s \in Sessions, RunReport(s)
    PROVE  Chains'
  <1>1. PICK interrupted \in BOOLEAN :
            entry' = [entry EXCEPT ![s] = ReportedEntry(entry[s], interrupted)]
    BY DEF RunReport
  <1> DEFINE e == entry[s]
             incomplete == e.incomplete \/ interrupted
             moved == [e EXCEPT !.incomplete = incomplete]
             f == Pushed(moved, [kind |-> "report", life |-> "", id |-> 0], 1)
  <1>2. entry' = [entry EXCEPT ![s] = f]
    BY <1>1 DEF ReportedEntry
  <1>3. IsEntry(e) /\ Chained(e)
    BY ChainAt
  <1>4. IsEntry(moved) /\ Chained(moved)
    <2> HIDE DEF e
    <2>1. incomplete \in BOOLEAN
      BY <1>3 DEF IsEntry
    <2> HIDE DEF incomplete
    <2>2. moved = [life |-> e.life, pending |-> e.pending, store |-> e.store,
                   cancel |-> e.cancel, forced |-> e.forced, reportCancel |-> e.reportCancel,
                   incomplete |-> incomplete, done |-> e.done]
      BY <1>3 DEF IsEntry
    <2> HIDE DEF moved
    <2> QED BY <1>3, <2>1, <2>2 DEF IsEntry, Chained
  <1>5. Chained(f)
    <2> HIDE DEF moved
    <2> QED BY <1>4, NewsChain
  <1> HIDE DEF f
  <1> QED BY <1>2, <1>5, OneChain

\* Neither does the store change with the flags, nor what is pending.
LEMMA SameChain ==
    ASSUME NEW e, NEW f, Chained(e), f.store = e.store, f.pending = e.pending
    PROVE  Chained(f)
  BY DEF Chained

LEMMA DoneChain ==
    ASSUME TypeOK, Chains, NEW s \in Sessions, Done(s)
    PROVE  Chains'
  <1> DEFINE e == entry[s]
             f == [e EXCEPT !.done = TRUE]
  <1>1. IsEntry(e) /\ Chained(e)
    BY ChainAt
  <1>2. entry' = [entry EXCEPT ![s] = f]
    BY DEF Done
  <1>3. f.store = e.store /\ f.pending = e.pending
    BY <1>1 DEF IsEntry
  <1>4. Chained(f)
    <2> HIDE DEF e, f
    <2> QED BY <1>1, <1>3, SameChain
  <1> HIDE DEF f
  <1> QED BY <1>2, <1>4, OneChain

\* What a stop tells, and what it aborts (entry.rs:121-160).
LEMMA StoppedChain ==
    ASSUME NEW e, IsEntry(e), Chained(e)
    PROVE  IsEntry(Stopped(e)) /\ Chained(Stopped(e))
  <1>0. IsEntry(Stopped(e))
    BY StoppedIs
  <1>1. CASE IsTerminal(e.life) \/ e.life \in {"Stopping", "absent"}
    BY <1>0, <1>1 DEF Stopped
  <1>2. CASE ~(IsTerminal(e.life) \/ e.life \in {"Stopping", "absent"})
    <2> DEFINE cancel == e.cancel \/ e.life = "Starting"
               moved  == [e EXCEPT !.cancel = cancel, !.life = "Stopping"]
               what   == Lifecycle("Stopping")
    <2>1. Stopped(e) = Pushed(moved, what, 1)
      BY <1>2 DEF Stopped
    <2>2. cancel \in BOOLEAN
      BY DEF IsEntry
    <2>3. moved = [life |-> "Stopping", pending |-> e.pending, store |-> e.store,
                   cancel |-> cancel, forced |-> e.forced, reportCancel |-> e.reportCancel,
                   incomplete |-> e.incomplete, done |-> e.done]
      <3> DEFINE d == [e EXCEPT !.cancel = cancel]
      <3>1. d = [life |-> e.life, pending |-> e.pending, store |-> e.store,
                 cancel |-> cancel, forced |-> e.forced, reportCancel |-> e.reportCancel,
                 incomplete |-> e.incomplete, done |-> e.done]
        BY DEF IsEntry
      <3>2. moved = [d EXCEPT !.life = "Stopping"]
        BY DEF IsEntry
      <3> HIDE DEF d, cancel
      <3> QED BY <3>1, <3>2
    <2> HIDE DEF moved, cancel
    <2>4. IsEntry(moved) /\ moved.store = e.store /\ moved.pending = e.pending
      <3>1. "Stopping" \in Lives
        BY DEF Lives
      <3> QED BY <2>2, <2>3, <3>1 DEF IsEntry
    <2>5. /\ what \in Whats /\ what.kind \notin {"pending", "settled"}
          /\ ~IsTerminal(what.life)
      BY DEF Lifecycle, Whats, Lives, IsTerminal
    <2> HIDE DEF what
    <2>6. Chain(moved.store, moved.pending) /\ moved.pending \in SUBSET AllIds
      BY <2>4 DEF Chained, Chain
    <2> DEFINE known == moved.pending
    <2>7. Chain(moved.store, known) /\ known = moved.pending
      BY <2>6
    <2> HIDE DEF known
    <2>8. Applied(known, Pushes(moved.store, what, 1, moved.pending)) = moved.pending
      BY <2>5, <2>7, AppliedIs
    <2>9. Chained(Pushed(moved, what, 1))
      BY <2>4, <2>5, <2>6, <2>7, <2>8, PushedChain
    <2> QED BY <1>0, <2>1, <2>9
  <1> QED BY <1>1, <1>2

LEMMA AbortedChain ==
    ASSUME NEW e, IsEntry(e), Chained(e)
    PROVE  Chained(Aborted(e))
  <1>1. Aborted(e).store = e.store /\ Aborted(e).pending = e.pending
    <2>1. CASE e.done \/ e.life = "absent"
      BY <2>1 DEF Aborted
    <2>2. CASE ~(e.done \/ e.life = "absent")
      BY <2>2 DEF Aborted, IsEntry
    <2> QED BY <2>1, <2>2
  <1> QED BY <1>1, SameChain

LEMMA NewChain ==
    ASSUME NEW e, e.store = NewStore, e.pending = {}
    PROVE  Chained(e)
  <1>1. /\ IsLog(NewStore, Activities) /\ Len(NewStore.entries) = 0
        /\ KnownAt(NewStore, 0) = {}
    BY NewLog DEF NewStore, KnownAt
  <1>2. Chain(NewStore, {})
    BY <1>1 DEF Chain
  <1> QED BY <1>2 DEF Chained

LEMMA NextChains == Inv /\ Chains /\ [Next]_vars => Chains'
  <1> SUFFICES ASSUME Inv, Chains, [Next]_vars PROVE Chains'
    OBVIOUS
  <1>1. TypeOK
    BY DEF Inv
  <1>2. ASSUME UNCHANGED entry PROVE Chains'
    BY <1>2 DEF Chains, Chained
  <1>3. CASE UNCHANGED vars
    BY <1>2, <1>3 DEF vars
  <1>4. ASSUME NEW c \in Callers, Check(c) \/ Send(c) PROVE Chains'
    BY <1>2, <1>4 DEF Check, Send
  <1>5. ASSUME NEW s \in Sessions, Owner(s) PROVE Chains'
    <2>1. CASE Prepare(s) \/ LaunchFails(s)
      <3>1. \/ \E isEnded \in BOOLEAN : StartFailed(s, isEnded)
            \/ UNCHANGED entry
        BY <2>1 DEF Prepare, LaunchFails
      <3> QED BY <1>1, <1>2, <3>1, StartFailedChain
    <2>2. CASE BecomesReady(s)
      <3>1. CASE entry[s].life = "Starting"
        <4>1. entry' = [entry EXCEPT ![s] = Transitioned(entry[s], "Ready")]
          BY <2>2, <3>1 DEF BecomesReady
        <4>2. "Ready" \in Lives
          BY DEF Lives
        <4> QED BY <1>1, <4>1, <4>2, TransitionsChain
      <3>2. CASE entry[s].life # "Starting"
        <4>1. entry' = entry
          BY <1>1, <2>2, <3>2 DEF BecomesReady, TypeOK
        <4> QED BY <1>2, <4>1
      <3> QED BY <3>1, <3>2
    <2>3. CASE CheckCancel(s) \/ Returns(s)
      <3>1. \/ \E life \in {"Ended", "Failed"} :
                  entry' = [entry EXCEPT ![s] = Transitioned(entry[s], life)]
            \/ UNCHANGED entry
        BY <2>3 DEF CheckCancel, Returns
      <3>2. {"Ended", "Failed"} \subseteq Lives
        BY DEF Lives
      <3> QED BY <1>1, <1>2, <3>1, <3>2, TransitionsChain
    <2>4. CASE Take(s)
      <3>1. \/ \E kind \in Offered : \E after : Accepts(s, kind, after)
            \/ UNCHANGED entry
        BY <2>4 DEF Take
      <3> QED BY <1>1, <1>2, <3>1, AcceptsChain
    <2>5. CASE Receive(s) \/ TakeEvent(s) \/ Done(s)
      BY <1>1, <2>5, ReceiveChain, TakeEventChain, DoneChain
    <2>6. ASSUME NEW kind, RefusedStop(s, kind) PROVE Chains'
      <3>1. entry' = [entry EXCEPT ![s] = Transitioned(entry[s], "Failed")] /\ "Failed" \in Lives
        BY <2>6 DEF RefusedStop, Lives
      <3> QED BY <1>1, <3>1, TransitionsChain
    <2>7. CASE StopReplay(s) \/ StopWarp(s) \/ ShutDown(s) \/ CloseRecording(s)
      <3>1. \/ \E kind \in ServedKinds :
                  (\E after : Accepts(s, kind, after)) \/ RefusedStop(s, kind)
            \/ UNCHANGED entry
        BY <2>7 DEF StopReplay, StopWarp, ShutDown, CloseRecording, ServedKinds
      <3> QED BY <1>1, <1>2, <2>6, <3>1, AcceptsChain
    <2>8. CASE Launches(s) \/ EndTake(s) \/ EndEvents(s) \/ Wait(s) \/ DropSession(s)
      BY <1>2, <2>8 DEF Launches, EndTake, EndEvents, Wait, DropSession
    <2> QED BY <1>5, <2>1, <2>2, <2>3, <2>4, <2>5, <2>7, <2>8 DEF Owner
  <1>6. ASSUME NEW s \in Sessions, RunReport(s) PROVE Chains'
    BY <1>1, <1>6, RunReportChain
  <1>7. ASSUME NEW s \in Sessions, Inside(s) PROVE Chains'
    BY <1>2, <1>7 DEF Inside, Settle, SessionEnds, Crash, RecordingFails, GameReports, SessionOnly
  <1>8. ASSUME NEW s \in Sessions, Create(s) PROVE Chains'
    <2> DEFINE e == [NewEntry EXCEPT !.life = "Starting"]
    <2>1. e.store = NewStore /\ e.pending = {}
      BY DEF NewEntry
    <2>2. entry' = [entry EXCEPT ![s] = e]
      BY <1>8 DEF Create
    <2> HIDE DEF e
    <2>3. Chained(e)
      BY <2>1, NewChain
    <2> QED BY <1>1, <2>2, <2>3, OneChain
  <1>9. ASSUME NEW s \in Sessions, StopSession(s) PROVE Chains'
    <2> DEFINE e == entry[s]
    <2>1. entry' = [entry EXCEPT ![s] = Stopped(e)]
      BY <1>9 DEF StopSession
    <2>2. IsEntry(e) /\ Chained(e)
      BY <1>1, ChainAt
    <2> HIDE DEF e
    <2>3. Chained(Stopped(e))
      BY <2>2, StoppedChain
    <2> QED BY <1>1, <2>1, <2>3, OneChain
  <1>10. ASSUME NEW force \in BOOLEAN, StopAll(force) PROVE Chains'
    <2>1. \/ entry' = [s \in Sessions |-> Aborted(Stopped(entry[s]))]
          \/ entry' = [s \in Sessions |-> Stopped(entry[s])]
      BY <1>10 DEF StopAll
    <2>2. ASSUME NEW s \in Sessions PROVE Chained(entry'[s])
      <3> DEFINE e == entry[s]
                 f == Stopped(e)
      <3>1. IsEntry(e) /\ Chained(e)
        BY <1>1, ChainAt
      <3>2. IsEntry(f) /\ Chained(f)
        <4> HIDE DEF e
        <4> QED BY <3>1, StoppedChain
      <3>3. entry'[s] = f \/ entry'[s] = Aborted(f)
        BY <2>1
      <3> HIDE DEF f
      <3> QED BY <3>2, <3>3, AbortedChain
    <2> QED BY <2>2 DEF Chains, Chained
  <1>11. CASE Asked \/ ListenerEnds
    <2>1. \E force \in BOOLEAN : StopAll(force)
      BY <1>11 DEF Asked, ListenerEnds
    <2> QED BY <1>10, <2>1
  <1>12. ASSUME NEW late \in BOOLEAN, Finished(late) PROVE Chains'
    <2>1. entry' = entry \/ entry' = [s \in Sessions |-> Aborted(entry[s])]
      BY <1>12 DEF Finished
    <2>2. CASE entry' = [s \in Sessions |-> Aborted(entry[s])]
      <3>1. ASSUME NEW s \in Sessions PROVE Chained(entry'[s])
        <4> DEFINE e == entry[s]
        <4>1. IsEntry(e) /\ Chained(e)
          BY <1>1, ChainAt
        <4>2. entry'[s] = Aborted(e)
          BY <2>2
        <4> HIDE DEF e
        <4> QED BY <4>1, <4>2, AbortedChain
      <3> QED BY <3>1 DEF Chains, Chained
    <2> QED BY <1>2, <2>1, <2>2
  <1> QED BY <1>3, <1>4, <1>5, <1>6, <1>7, <1>8, <1>9, <1>11, <1>12 DEF Next

LEMMA ChainsAlways == SafetySpec => []Chains
  <1>1. Init => Chains
    <2> SUFFICES ASSUME Init, NEW s \in Sessions PROVE Chained(entry[s])
      BY DEF Chains
    <2> DEFINE e == entry[s]
    <2>1. e.store = NewStore /\ e.pending = {}
      BY DEF Init, NewEntry
    <2> HIDE DEF e
    <2>2. Chained(e)
      BY <2>1, NewChain
    <2> QED BY <2>2 DEF e
  <1> QED BY <1>1, NextChains, InvAlways, PTL DEF SafetySpec

\* What a client makes of what it knew and of a poll.
AllApplied(known, seq) == FoldLeft(Applied, known, seq)

\* The states h[0] .. h[n] that the fold of what was known goes through.
LEMMA AppliedFold ==
    ASSUME NEW known, NEW n \in Nat, NEW seq, DOMAIN seq = 1 .. n
    PROVE  \E h : /\ h[0] = known
                  /\ \A i \in 1 .. n : h[i] = Applied(h[i - 1], seq[i])
                  /\ AllApplied(known, seq) = h[n]
<1>. DEFINE Is(g, k) == g = [s \in SUBSET (1 .. k) |->
                                IF s = {} THEN known
                                ELSE LET x == Max(s) IN Applied(g[s \ {x}], seq[x])]
            Good == {k \in Nat : \E g : Is(g, k)}
            it == CHOOSE g : Is(g, n)
            h == [i \in 0 .. n |-> it[1 .. i]]
<1>1. AllApplied(known, seq) = it[1 .. n]
  BY DEF AllApplied, FoldLeft, MapThenFoldSet
<1>2. 0 \in Good
  <2>1. Is([s \in SUBSET (1 .. 0) |-> known], 0)
    OBVIOUS
  <2> QED
    BY <2>1
<1>3. ASSUME NEW k \in Nat, k \in Good PROVE k + 1 \in Good
  <2>1. PICK f : Is(f, k)
    BY <1>3
  <2>. DEFINE g == [s \in SUBSET (1 .. k + 1) |->
                       IF k + 1 \in s THEN Applied(f[s \ {k + 1}], seq[k + 1]) ELSE f[s]]
  <2>2. ASSUME NEW s \in SUBSET (1 .. k + 1)
        PROVE  g[s] = IF s = {} THEN known
                      ELSE LET x == Max(s) IN Applied(g[s \ {x}], seq[x])
    <3>1. CASE k + 1 \in s
      <4>1. Max(s) = k + 1
        BY <3>1, MaxOfRange
      <4>2. s \ {k + 1} \in SUBSET (1 .. k + 1) /\ s # {}
        BY <3>1
      <4>3. g[s \ {k + 1}] = f[s \ {k + 1}]
        BY <4>2
      <4> QED
        BY <3>1, <4>1, <4>2, <4>3
    <3>2. CASE k + 1 \notin s
      <4>1. s \in SUBSET (1 .. k)
        BY <3>2
      <4>2. g[s] = f[s]
        BY <3>2
      <4>3. CASE s = {}
        BY <2>1, <4>1, <4>2, <4>3
      <4>4. CASE s # {}
        <5>. DEFINE x == Max(s)
        <5>1. f[s] = Applied(f[s \ {x}], seq[x])
          BY <2>1, <4>1, <4>4
        <5>2. s \ {x} \in SUBSET (1 .. k + 1) /\ k + 1 \notin s \ {x}
          BY <3>2
        <5>3. g[s \ {x}] = f[s \ {x}]
          BY <5>2
        <5> QED
          BY <4>2, <4>4, <5>1, <5>3
      <4> QED
        BY <4>3, <4>4
    <3> QED
      BY <3>1, <3>2
  <2>3. Is(g, k + 1)
    BY <2>2
  <2>. HIDE DEF g, Is
  <2>4. \E e : Is(e, k + 1)
    BY <2>3
  <2> QED
    BY <2>4
<1>4. Nat \subseteq Good
  <2>. HIDE DEF Good
  <2> QED
    BY <1>2, <1>3, NatsIn
<1>5. Is(it, n)
  <2>. HIDE DEF Is
  <2>1. \E g : Is(g, n)
    BY <1>4
  <2> QED
    BY <2>1
<1>6. \A s \in SUBSET (1 .. n) :
         it[s] = IF s = {} THEN known ELSE LET x == Max(s) IN Applied(it[s \ {x}], seq[x])
  <2>. HIDE DEF it
  <2> QED
    BY <1>5
<1>. HIDE DEF it, Is
<1>7. h[0] = known
  <2>1. 1 .. 0 = {} /\ {} \in SUBSET (1 .. n) /\ h[0] = it[1 .. 0]
    OBVIOUS
  <2> QED
    BY <1>6, <2>1
<1>8. ASSUME NEW i \in 1 .. n PROVE h[i] = Applied(h[i - 1], seq[i])
  <2>1. 1 .. i \in SUBSET (1 .. n) /\ i \in 1 .. i
    OBVIOUS
  <2>2. (1 .. i) \ {i} = 1 .. i - 1
    OBVIOUS
  <2>3. Max(1 .. i) = i
    <3>1. 1 .. i \subseteq Nat /\ \A y \in 1 .. i : y <= i
      OBVIOUS
    <3> QED
      BY <2>1, <3>1, MaxIs
  <2>4. it[1 .. i] = Applied(it[1 .. i - 1], seq[i])
    BY <1>6, <2>1, <2>2, <2>3
  <2> QED
    BY <2>4
<1>9. h[n] = it[1 .. n]
  OBVIOUS
<1>. HIDE DEF h
<1> QED
  BY <1>1, <1>7, <1>8, <1>9

\* The same, named.
AppliedBy(known, n, seq, h) ==
    /\ h[0] = known
    /\ \A i \in 1 .. n : h[i] = Applied(h[i - 1], seq[i])
    /\ AllApplied(known, seq) = h[n]

LEMMA AppliedFoldBy ==
    ASSUME NEW known, NEW n \in Nat, NEW seq, DOMAIN seq = 1 .. n
    PROVE  \E h : AppliedBy(known, n, seq, h)
<1>1. \E h : /\ h[0] = known
             /\ \A i \in 1 .. n : h[i] = Applied(h[i - 1], seq[i])
             /\ AllApplied(known, seq) = h[n]
  BY ONLY AppliedFold, n \in Nat, DOMAIN seq = 1 .. n
<1> QED
  BY <1>1 DEF AppliedBy

(***************************************************************************)
(* A client that has a snapshot and polls from its cursor later applies    *)
(* the activity since then, and has the commands that are pending now, or  *)
(* is told of a gap; what is kept stays within its bytes, for every number *)
(* of sessions, callers and commands and whatever is lost to make room     *)
(* (entry.rs:81-119, activity.rs:31-73).                                   *)
(***************************************************************************)
THEOREM CursorsKeepUp == SafetySpec => []CursorsAgree
  <1>1. Chains => CursorsAgree
    <2> SUFFICES ASSUME Chains, NEW s \in Sessions
                 PROVE  LET store == entry[s].store IN
                        /\ Bytes(store.entries) <= Limit
                        /\ \A cursor \in 0 .. store.position :
                              ~IsGap(store, cursor) =>
                                \E snapshot \in Snapshots(store) :
                                    /\ snapshot.position = cursor
                                    /\ FoldLeft(Applied, snapshot.pending, News(store, cursor))
                                         = entry[s].pending
      BY DEF CursorsAgree
    <2> DEFINE store   == entry[s].store
               pending == entry[s].pending
               len     == Len(store.entries)
    <2>1. Chain(store, pending)
      BY DEF Chains, Chained
    <2> HIDE DEF store, pending
    <2>2. /\ IsLog(store, Activities) /\ pending = KnownAt(store, len)
          /\ \A i \in 1 .. len :
                KnownAt(store, i) = Applied(KnownAt(store, i - 1), store.entries[i])
      BY <2>1 DEF Chain
    <2>3. /\ store.entries \in Seq(Activities) /\ len \in Nat /\ store.floor \in Nat
          /\ store.position = store.floor + len /\ Bytes(store.entries) <= Limit
          /\ \A i \in 1 .. len : store.entries[i].position = store.floor + i
      BY <2>2 DEF IsLog, LogOf
    <2>4. ASSUME NEW cursor \in 0 .. store.position, ~IsGap(store, cursor)
          PROVE  \E snapshot \in Snapshots(store) :
                    /\ snapshot.position = cursor
                    /\ FoldLeft(Applied, snapshot.pending, News(store, cursor)) = pending
      <3> DEFINE k == cursor - store.floor
                 news == News(store, cursor)
                 snapshot == [position |-> cursor, pending |-> KnownAt(store, k)]
      <3>1. k \in 0 .. len /\ cursor = store.floor + k /\ cursor \in Nat
            /\ store.floor <= cursor /\ cursor <= store.position
        BY <2>3, <2>4 DEF IsGap
      <3>2. /\ news \in Seq(Activities) /\ Len(news) = len - k
            /\ \A i \in 1 .. len - k : news[i] = store.entries[k + i]
        <4>1. news = After(store.entries, k)
          BY <2>2, <3>1, NewsIs
        <4> HIDE DEF news, k
        <4> QED BY <2>3, <3>1, <4>1, AfterIs
      <3>3. snapshot \in Snapshots(store)
        <4>1. CASE k = 0
          <5>1. snapshot = [position |-> store.floor, pending |-> store.known]
            <6>1. cursor = store.floor
              BY <2>3, <3>1, <4>1
            <6>2. KnownAt(store, k) = store.known
              BY <4>1 DEF KnownAt
            <6> QED BY <6>1, <6>2
          <5> HIDE DEF snapshot
          <5> QED BY <5>1 DEF Snapshots
        <4>2. CASE k # 0
          <5>1. k \in 1 .. len
            BY <3>1, <4>2
          <5>2. snapshot = [position |-> store.entries[k].position,
                            pending |-> store.entries[k].pending]
            BY <2>3, <3>1, <4>2, <5>1 DEF KnownAt
          <5>3. store.entries[k] \in Range(store.entries)
            BY <2>3, <5>1 DEF Range
          <5> QED BY <5>2, <5>3 DEF Snapshots
        <4> QED BY <4>1, <4>2
      <3>4. AllApplied(KnownAt(store, k), news) = pending
        <4> DEFINE n == len - k
                   known == KnownAt(store, k)
        <4>1. n \in Nat /\ DOMAIN news = 1 .. n
          BY <2>3, <3>1, <3>2
        <4> HIDE DEF news, k, len, n, known
        <4>2. PICK h : AppliedBy(known, n, news, h)
          BY <4>1, AppliedFoldBy
        <4>3. /\ h[0] = known /\ \A i \in 1 .. n : h[i] = Applied(h[i - 1], news[i])
              /\ AllApplied(known, news) = h[n]
          BY <4>2 DEF AppliedBy
        <4> DEFINE Good == {i \in Nat : i <= n => h[i] = KnownAt(store, k + i)}
        <4>4. 0 \in Good
          <5>1. k + 0 = k
            BY <3>1
          <5> QED BY <4>3, <5>1 DEF known
        <4>5. ASSUME NEW i \in Nat, i \in Good PROVE i + 1 \in Good
          <5>1. SUFFICES ASSUME i + 1 <= n PROVE h[i + 1] = KnownAt(store, k + (i + 1))
            OBVIOUS
          <5>2. /\ i + 1 \in 1 .. n /\ (i + 1) - 1 = i /\ i <= n
                /\ k + (i + 1) \in 1 .. len /\ (k + (i + 1)) - 1 = k + i
            BY <2>3, <3>1, <4>1, <5>1 DEF n
          <5>3. h[i + 1] = Applied(h[i], news[i + 1]) /\ h[i] = KnownAt(store, k + i)
            BY <4>3, <4>5, <5>2
          <5>4. news[i + 1] = store.entries[k + (i + 1)]
            BY <3>2, <5>2 DEF n
          <5>5. KnownAt(store, k + (i + 1))
                  = Applied(KnownAt(store, k + i), store.entries[k + (i + 1)])
            BY <2>2, <5>2
          <5> QED BY <5>3, <5>4, <5>5
        <4> HIDE DEF Good
        <4>6. n \in Good
          BY <4>1, <4>4, <4>5, NatsIn
        <4>7. k + n = len
          BY <2>3, <3>1 DEF n
        <4>8. h[n] = KnownAt(store, len)
          BY <4>1, <4>6, <4>7 DEF Good
        <4> QED BY <2>2, <4>3, <4>8 DEF known, len
      <3>5. snapshot.position = cursor /\ snapshot.pending = KnownAt(store, k)
        OBVIOUS
      <3> HIDE DEF snapshot, k, news
      <3>6. FoldLeft(Applied, snapshot.pending, news) = pending
        BY <3>4, <3>5 DEF AllApplied
      <3> QED BY <3>3, <3>5, <3>6 DEF news
    <2> QED BY <2>3, <2>4 DEF store, pending
  <1> QED BY <1>1, ChainsAlways, PTL
=============================================================================
