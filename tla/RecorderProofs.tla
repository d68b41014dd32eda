--------------------------- MODULE RecorderProofs ---------------------------
(***************************************************************************)
(* The safety of the recorder and its worker, for every number of commands *)
(* and recordings, every order of calls and every failure of the disk:     *)
(* every reply finds its transition, a late failure hits the recording it  *)
(* belongs to, no recording is lost silently, and a footer means a         *)
(* complete recording.                                                     *)
(*                                                                         *)
(* The types come first, with what each call of the coordinator and each   *)
(* step of the worker does to them, as lemmas that are cited instead of the *)
(* definitions.  None of the properties is inductive.  Protocol says       *)
(* what may be under way between the recorder and its worker in each state *)
(* of the recorder: which operations wait, in which order, which replies,  *)
(* and whose file the worker has open.                                     *)
(***************************************************************************)
EXTENDS Recorder, FiniteSetTheorems, SequenceTheorems, WellFoundedInduction, TLAPS

-----------------------------------------------------------------------------
(* The types *)

Paths    == 0 .. LastId - 1
Outcomes == Settled \cup {"open"}
Entries  == [id : Ids, outcome : Outcomes]
Ops      == [op : {"start", "append", "stop", "end"}, path : Paths, lines : Seq(Entries)]
Sections == [start : Paths, stop : Paths, sent : Seq(Entries)]
ReplySet  == [kind : {"started", "stopped", "failed", "ended"}, path : Paths, ok : BOOLEAN]
Footers  == [outcome : {"none", "stopped", "session_ended"}, count : Nat]
FileSet  == [path : Paths, lines : Seq(Entries), footer : Footers]

Recorders == [state : {"idle", "starting", "active", "stopping", "panicked"},
              id : Paths, path : Paths, entries : Seq(Entries),
              operations : Seq(Ops), over : BOOLEAN,
              sections : Seq(Sections), lost : Seq(Paths)]

Workers == [active : Nat, count : Nat, replies : Seq(ReplySet), ended : BOOLEAN]

\* The types of the recorder, its worker and the files.
RecorderTypeOK ==
    /\ recorder \in Recorders
    /\ worker \in Workers
    /\ files \in Seq(FileSet)
    /\ worker.active <= Len(files)
    /\ active \subseteq Ids
    /\ wire \in Seq(Ids)

\* How many entries are flushed: all have their outcome, and the next has none.
LEMMA ReadyCountIs ==
    ASSUME NEW entries \in Seq(Entries)
    PROVE  /\ ReadyCount(entries) \in 0 .. Len(entries)
           /\ \A i \in 1 .. ReadyCount(entries) : entries[i].outcome # "open"
           /\ ReadyCount(entries) < Len(entries) =>
                 entries[ReadyCount(entries) + 1].outcome = "open"
<1>. DEFINE Fits(n) == /\ \A i \in 1 .. n : entries[i].outcome # "open"
                       /\ n < Len(entries) => entries[n + 1].outcome = "open"
            open == {i \in 1 .. Len(entries) : entries[i].outcome = "open"}
<1>. Len(entries) \in Nat
  OBVIOUS
<1>1. \E n \in 0 .. Len(entries) : Fits(n)
  <2>1. CASE open = {}
    BY <2>1
  <2>2. CASE open # {}
    <3>. DEFINE less == {ss \in Nat \X Nat : ss[1] < ss[2]}
    <3>1. IsWellFoundedOn(less, Nat)
      BY NatLessThanWellFounded DEF OpToRel
    <3>. HIDE DEF less
    <3>a. open \subseteq Nat
      OBVIOUS
    <3>. HIDE DEF open
    <3>2. PICK x \in open : \A y \in open : ~ (<<y, x>> \in less)
      BY <2>2, <3>1, <3>a, WFMin, Zenon
    <3>. USE DEF less, open
    <3>c. ASSUME NEW y \in open, y < x PROVE FALSE
      <4>1. <<y, x>> \in Nat \X Nat /\ <<y, x>>[1] < <<y, x>>[2]
        BY <3>c
      <4>. QED
        BY <4>1, <3>2 DEF less
    <3>3. Fits(x - 1) /\ x - 1 \in 0 .. Len(entries)
      BY <3>c
    <3> QED
      BY <3>3
  <2> QED
    BY <2>1, <2>2
<1> QED
  BY <1>1 DEF ReadyCount

\* An answer settles entries, and loses or reorders none.
LEMMA AnsweredIs ==
    ASSUME NEW entries \in Seq(Entries), NEW id \in Ids, NEW outcome \in Settled
    PROVE  /\ Answered(entries, id, outcome) \in Seq(Entries)
           /\ Len(Answered(entries, id, outcome)) = Len(entries)
           /\ \A i \in 1 .. Len(entries) :
                 Answered(entries, id, outcome)[i] =
                     IF entries[i].id = id THEN [id |-> id, outcome |-> outcome] ELSE entries[i]
<1>. DEFINE settled == Answered(entries, id, outcome)
<1>1. /\ DOMAIN entries = 1 .. Len(entries) /\ Len(entries) \in Nat
      /\ \A i \in 1 .. Len(entries) : entries[i] \in Entries
  OBVIOUS
<1>2. \A i \in 1 .. Len(entries) :
        settled[i] = IF entries[i].id = id THEN [id |-> id, outcome |-> outcome] ELSE entries[i]
  BY <1>1 DEF Answered, Entries
<1>3. settled \in [1 .. Len(entries) -> Entries]
  BY <1>1, <1>2 DEF Answered, Entries, Outcomes
<1>4. settled \in Seq(Entries) /\ Len(settled) = Len(entries)
  BY <1>1, <1>3, SeqDef
<1> QED
  BY <1>2, <1>4

-----------------------------------------------------------------------------
(* The calls of the coordinator keep the type of the recorder *)

\* A sequence with one element replaced, or none when there is no such place.
LEMMA ReplacedInSeq ==
    ASSUME NEW S, NEW s \in Seq(S), NEW k \in Nat, NEW e, k \in 1 .. Len(s) => e \in S
    PROVE  /\ [s EXCEPT ![k] = e] \in Seq(S)
           /\ Len([s EXCEPT ![k] = e]) = Len(s)
           /\ \A i \in 1 .. Len(s) :
                 [s EXCEPT ![k] = e][i] = IF i = k THEN e ELSE s[i]
<1>1. CASE k \in 1 .. Len(s)
  BY <1>1, ExceptSeq
<1>2. CASE k \notin 1 .. Len(s)
  <2>1. DOMAIN s = 1 .. Len(s) /\ s = [i \in 1 .. Len(s) |-> s[i]]
    BY LenProperties
  <2>2. [s EXCEPT ![k] = e] = s
    BY <1>2, <2>1
  <2> QED
    BY <1>2, <2>2
<1> QED
  BY <1>1, <1>2

LEMMA ControlType ==
    ASSUME NEW r \in Recorders, NEW id \in NormalIds, NEW kind
    PROVE  Control(r, id, kind) \in Recorders
<1>1. id \in Paths /\ << >> \in Seq(Entries)
  BY LastIdAssumption DEF Paths, NormalIds
<1>2. /\ Operation("start", id, << >>) \in Ops
      /\ Operation("stop", r.path, << >>) \in Ops
  BY <1>1 DEF Operation, Ops, Recorders
<1>3. /\ Append(r.operations, Operation("start", id, << >>)) \in Seq(Ops)
      /\ Append(r.operations, Operation("stop", r.path, << >>)) \in Seq(Ops)
  BY <1>2, AppendProperties DEF Recorders
<1> QED
  BY <1>1, <1>3 DEF Control, Recorders

LEMMA RecordType ==
    ASSUME NEW r \in Recorders, NEW id \in Ids, NEW kind
    PROVE  Record(r, id, kind) \in Recorders
<1>. DEFINE last == Len(r.sections)
            sections == [r.sections EXCEPT ![last].sent = Append(@, Entry(id))]
<1>1. Entry(id) \in Entries
  BY DEF Entry, Entries, Outcomes
<1>2. Append(r.entries, Entry(id)) \in Seq(Entries)
  BY <1>1, AppendProperties DEF Recorders
<1>3. r.sections \in Seq(Sections) /\ last \in Nat
  BY DEF Recorders
<1>4. sections \in Seq(Sections)
  <2>1. last \in 1 .. last =>
          [r.sections[last] EXCEPT !.sent = Append(@, Entry(id))] \in Sections
    <3>1. SUFFICES ASSUME last \in 1 .. last
                   PROVE  [r.sections[last] EXCEPT !.sent = Append(@, Entry(id))] \in Sections
      OBVIOUS
    <3>2. r.sections[last] \in Sections
      BY <1>3, <3>1
    <3>3. Append(r.sections[last].sent, Entry(id)) \in Seq(Entries)
      BY <3>2, <1>1, AppendProperties DEF Sections
    <3> QED
      BY <3>2, <3>3 DEF Sections
  <2>2. sections = [r.sections EXCEPT ![last] = [r.sections[last] EXCEPT
                                         !.sent = Append(r.sections[last].sent, Entry(id))]]
    OBVIOUS
  <2> QED
    BY SMTT(30), <1>3, <2>1, <2>2, ReplacedInSeq
<1> QED
  BY <1>2, <1>4 DEF Record, Recorders

LEMMA WitnessedType ==
    ASSUME NEW sections \in Seq(Sections), NEW id \in Ids, NEW outcome \in Settled
    PROVE  /\ Witnessed(sections, id, outcome) \in Seq(Sections)
           /\ Len(Witnessed(sections, id, outcome)) = Len(sections)
           /\ \A s \in 1 .. Len(sections) :
                 /\ Witnessed(sections, id, outcome)[s].start = sections[s].start
                 /\ Witnessed(sections, id, outcome)[s].stop = sections[s].stop
                 /\ Witnessed(sections, id, outcome)[s].sent
                       = Answered(sections[s].sent, id, outcome)
<1>. DEFINE new == Witnessed(sections, id, outcome)
<1>1. /\ DOMAIN sections = 1 .. Len(sections) /\ Len(sections) \in Nat
      /\ \A s \in 1 .. Len(sections) : sections[s] \in Sections
  OBVIOUS
<1>2. \A s \in 1 .. Len(sections) : Answered(sections[s].sent, id, outcome) \in Seq(Entries)
  BY <1>1, AnsweredIs DEF Sections
<1>3. \A s \in 1 .. Len(sections) :
        /\ new[s] = [sections[s] EXCEPT !.sent = Answered(sections[s].sent, id, outcome)]
        /\ new[s] \in Sections
  BY <1>1, <1>2 DEF Witnessed, Sections
<1>4. new \in [1 .. Len(sections) -> Sections]
  BY <1>1, <1>3 DEF Witnessed
<1>5. new \in Seq(Sections) /\ Len(new) = Len(sections)
  BY <1>1, <1>4, SeqDef
<1> QED
  BY <1>1, <1>3, <1>5 DEF Sections

\* What terminal() flushes and what it keeps.
LEMMA FlushIs ==
    ASSUME NEW entries \in Seq(Entries), NEW n \in 0 .. Len(entries)
    PROVE  /\ SubSeq(entries, 1, n) \in Seq(Entries)
           /\ Len(SubSeq(entries, 1, n)) = n
           /\ \A j \in 1 .. n : SubSeq(entries, 1, n)[j] = entries[j]
           /\ SubSeq(entries, n + 1, Len(entries)) \in Seq(Entries)
           /\ Len(SubSeq(entries, n + 1, Len(entries))) = Len(entries) - n
           /\ \A j \in 1 .. Len(entries) - n :
                 SubSeq(entries, n + 1, Len(entries))[j] = entries[n + j]
<1>1. Len(entries) \in Nat /\ \A i \in 1 .. Len(entries) : entries[i] \in Entries
  OBVIOUS
<1>2. \A i \in 1 .. n : entries[i] \in Entries
  BY <1>1
<1>3. \A i \in n + 1 .. Len(entries) : entries[i] \in Entries
  BY <1>1
<1>4. /\ SubSeq(entries, 1, n) \in Seq(Entries)
      /\ Len(SubSeq(entries, 1, n)) = IF 1 <= n THEN n - 1 + 1 ELSE 0
      /\ \A j \in 1 .. n - 1 + 1 : SubSeq(entries, 1, n)[j] = entries[1 + j - 1]
  BY <1>2, SubSeqProperties
<1>5. /\ SubSeq(entries, n + 1, Len(entries)) \in Seq(Entries)
      /\ Len(SubSeq(entries, n + 1, Len(entries))) =
            IF n + 1 <= Len(entries) THEN Len(entries) - (n + 1) + 1 ELSE 0
      /\ \A j \in 1 .. Len(entries) - (n + 1) + 1 :
            SubSeq(entries, n + 1, Len(entries))[j] = entries[n + 1 + j - 1]
  BY <1>1, <1>3, SubSeqProperties
<1> QED
  BY <1>1, <1>4, <1>5

LEMMA TerminalType ==
    ASSUME NEW r \in Recorders, NEW id \in Ids, NEW outcome \in Settled
    PROVE  Terminal(r, id, outcome) \in Recorders
<1>. DEFINE entries == Answered(r.entries, id, outcome)
            n == ReadyCount(entries)
            op == Operation("append", r.path, SubSeq(entries, 1, n))
<1>1. entries \in Seq(Entries)
  BY AnsweredIs DEF Recorders
<1>2. n \in 0 .. Len(entries)
  BY <1>1, ReadyCountIs
<1>3. SubSeq(entries, 1, n) \in Seq(Entries) /\ SubSeq(entries, n + 1, Len(entries)) \in Seq(Entries)
  BY <1>1, <1>2, FlushIs
<1>4. op \in Ops
  BY <1>3 DEF Operation, Ops, Recorders
<1>5. Append(r.operations, op) \in Seq(Ops) /\ r.operations \in Seq(Ops)
  BY <1>4, AppendProperties DEF Recorders
<1>6. Witnessed(r.sections, id, outcome) \in Seq(Sections)
  BY WitnessedType DEF Recorders
<1> QED
  BY <1>3, <1>5, <1>6 DEF Terminal, Recorders

LEMMA EndType ==
    ASSUME NEW r \in Recorders
    PROVE  EndRecorder(r) \in Recorders
<1>1. Operation("end", r.path, r.entries) \in Ops
  BY DEF Operation, Ops, Recorders
<1>2. Append(r.operations, Operation("end", r.path, r.entries)) \in Seq(Ops)
  BY <1>1, AppendProperties DEF Recorders
<1>3. << >> \in Seq(Entries)
  OBVIOUS
<1> QED
  BY <1>2, <1>3 DEF EndRecorder, Recorders

\* What reply() does, case by case.
LEMMA RepliedIs ==
    ASSUME NEW r, NEW reply \in ReplySet
    PROVE  \/ /\ reply.kind = "started" /\ r.state = "starting" /\ reply.ok
              /\ Replied(r, reply) = Started(r)
           \/ /\ reply.kind = "started" /\ r.state = "starting" /\ ~reply.ok
              /\ Replied(r, reply) = [r EXCEPT !.state = "idle", !.id = 0]
           \/ /\ reply.kind = "stopped" /\ r.state = "stopping"
              /\ Replied(r, reply) = Stopped(r, reply.ok)
           \/ reply.kind = "failed" /\ Replied(r, reply) = Failed(r, reply.path)
           \/ reply.kind = "ended" /\ Replied(r, reply) = r
           \/ /\ \/ reply.kind = "started" /\ r.state # "starting"
                 \/ reply.kind = "stopped" /\ r.state # "stopping"
              /\ Replied(r, reply) = [r EXCEPT !.state = "panicked"]
<1>1. CASE reply.kind = "started" /\ r.state = "starting" /\ reply.ok
  BY <1>1 DEF Replied, ReplySet
<1>2. CASE reply.kind = "started" /\ r.state = "starting" /\ ~reply.ok
  BY <1>2 DEF Replied, ReplySet
<1>3. CASE reply.kind = "stopped" /\ r.state = "stopping"
  BY <1>3 DEF Replied
<1>4. CASE reply.kind = "failed"
  BY <1>4 DEF Replied
<1>5. CASE reply.kind = "ended"
  BY <1>5 DEF Replied
<1>6. CASE \/ reply.kind = "started" /\ r.state # "starting"
           \/ reply.kind = "stopped" /\ r.state # "stopping"
  BY <1>6 DEF Replied
<1> QED
  BY <1>1, <1>2, <1>3, <1>4, <1>5, <1>6 DEF ReplySet

LEMMA RepliedType ==
    ASSUME NEW r \in Recorders, NEW reply \in ReplySet
    PROVE  Replied(r, reply) \in Recorders
<1>. DEFINE last == Len(r.sections)
            stopped == [r.sections EXCEPT ![last].stop = r.id]
            section == [start |-> r.id, stop |-> 0, sent |-> << >>]
<1>1. /\ r.sections \in Seq(Sections) /\ last \in Nat /\ r.lost \in Seq(Paths)
      /\ r.id \in Paths /\ r.path \in Paths /\ reply.path \in Paths
      /\ 0 \in Paths /\ << >> \in Seq(Entries)
  BY LastIdAssumption DEF Recorders, ReplySet, Paths
<1>2. Append(r.lost, r.path) \in Seq(Paths) /\ Append(r.lost, reply.path) \in Seq(Paths)
  BY <1>1, AppendProperties
<1>3. section \in Sections
  BY <1>1 DEF Sections
<1>4. Append(r.sections, section) \in Seq(Sections)
  BY <1>1, <1>3, AppendProperties
<1>5. stopped \in Seq(Sections)
  <2>3. last \in 1 .. last => r.sections[last] \in Sections
    BY <1>1
  <2>1. last \in 1 .. last => [r.sections[last] EXCEPT !.stop = r.id] \in Sections
    BY <1>1, <2>3 DEF Sections
  <2>2. stopped = [r.sections EXCEPT ![last] = [r.sections[last] EXCEPT !.stop = r.id]]
    OBVIOUS
  <2> QED
    BY <1>1, <2>1, <2>2, ReplacedInSeq
<1>6. Started(r) \in Recorders
  BY <1>1, <1>4 DEF Started, Recorders
<1>7. Stopped(r, reply.ok) \in Recorders
  BY <1>1, <1>2, <1>5 DEF Stopped, Recorders
<1>8. Failed(r, reply.path) \in Recorders
  BY <1>1, <1>2 DEF Failed, Recorders
<1>9. [r EXCEPT !.state = "idle", !.id = 0] \in Recorders /\ [r EXCEPT !.state = "panicked"] \in Recorders
  BY <1>1 DEF Recorders
<1> QED
  BY <1>6, <1>7, <1>8, <1>9, RepliedIs

-----------------------------------------------------------------------------
(* The worker *)

\* Where the worker writes is a file, and a file written to is one.
LEMMA FileOf ==
    ASSUME RecorderTypeOK, worker.active # 0
    PROVE  /\ worker.active \in 1 .. Len(files)
           /\ files[worker.active] \in FileSet
<1>1. worker.active \in 1 .. Len(files)
  BY DEF RecorderTypeOK, Workers
<1> QED
  BY <1>1 DEF RecorderTypeOK

LEMMA WrittenType ==
    ASSUME NEW file \in FileSet, NEW lines \in Seq(Entries)
    PROVE  /\ Written(file, lines) \in FileSet
           /\ Written(file, lines).path = file.path
           /\ Written(file, lines).footer = file.footer
           /\ Written(file, lines).lines = file.lines \o lines
BY ConcatProperties DEF Written, FileSet

LEMMA FootedType ==
    ASSUME NEW file \in FileSet, NEW count \in Nat,
           NEW outcome \in {"stopped", "session_ended"}
    PROVE  /\ Footed(file, outcome, count) \in FileSet
           /\ Footed(file, outcome, count).path = file.path
           /\ Footed(file, outcome, count).lines = file.lines
           /\ Footed(file, outcome, count).footer = [outcome |-> outcome, count |-> count]
           /\ Footed(file, outcome, count).footer # NoFooter
BY DEF Footed, FileSet, Footers, NoFooter

\* The operation the worker takes, and what remains of the queue.
LEMMA TakesIs ==
    ASSUME RecorderTypeOK, NEW op, Takes(op)
    PROVE  /\ recorder' = [recorder EXCEPT !.operations = Tail(Operations)]
           /\ recorder' \in Recorders
           /\ ~worker.ended /\ Operations # << >>
           /\ Operations[1] \in Ops /\ Operations[1] = Head(Operations) /\ Operations[1].op = op
           /\ Operations' \in Seq(Ops)
           /\ Len(Operations') = Len(Operations) - 1
           /\ \A i \in 1 .. Len(Operations') : Operations'[i] = Operations[i + 1]
<1>1. recorder \in Recorders /\ Operations \in Seq(Ops) /\ Operations # << >> /\ ~worker.ended
  BY DEF RecorderTypeOK, Takes, Operations, Recorders
<1>2. /\ Tail(Operations) \in Seq(Ops) /\ Len(Tail(Operations)) = Len(Operations) - 1
      /\ \A i \in 1 .. Len(Tail(Operations)) : Tail(Operations)[i] = Operations[i + 1]
  BY <1>1, HeadTailProperties
<1>3. Operations[1] \in Ops /\ Operations[1] = Head(Operations) /\ Operations[1].op = op
  BY <1>1 DEF Takes
<1>4. /\ recorder' = [recorder EXCEPT !.operations = Tail(Operations)]
      /\ recorder' \in Recorders /\ Operations' = Tail(Operations)
  BY <1>1, <1>2 DEF Takes, Operations, Recorders
<1> QED
  BY <1>1, <1>2, <1>3, <1>4

\* One more reply.
LEMMA SendsIs ==
    ASSUME RecorderTypeOK, NEW reply \in ReplySet
    PROVE  /\ Sends(<<reply>>) \in Seq(ReplySet)
           /\ Len(Sends(<<reply>>)) = Len(worker.replies) + 1
           /\ \A i \in 1 .. Len(worker.replies) : Sends(<<reply>>)[i] = worker.replies[i]
           /\ Sends(<<reply>>)[Len(worker.replies) + 1] = reply
<1>1. worker.replies \in Seq(ReplySet) /\ <<reply>> \in Seq(ReplySet)
  BY DEF RecorderTypeOK, Workers
<1>2. Sends(<<reply>>) = Append(worker.replies, reply)
  BY <1>1, AppendIsConcat DEF Sends
<1>3. /\ Append(worker.replies, reply) \in Seq(ReplySet)
      /\ Len(Append(worker.replies, reply)) = Len(worker.replies) + 1
      /\ \A i \in 1 .. Len(worker.replies) : Append(worker.replies, reply)[i] = worker.replies[i]
      /\ Append(worker.replies, reply)[Len(worker.replies) + 1] = reply
  BY <1>1, AppendProperties
<1> QED
  BY <1>2, <1>3

LEMMA ReplyType ==
    ASSUME NEW path \in Paths, NEW ok \in BOOLEAN,
           NEW kind \in {"started", "stopped", "failed", "ended"}
    PROVE  /\ Reply(kind, path, ok) \in ReplySet
           /\ Reply(kind, path, ok).kind = kind
           /\ Reply(kind, path, ok).path = path
           /\ Reply(kind, path, ok).ok = ok
BY DEF Reply, ReplySet

LEMMA EndedType == Reply("ended", 0, TRUE) \in ReplySet
BY LastIdAssumption DEF Reply, ReplySet, Paths

\* The step leaves the files as they are but for file f.
OnlyFile(f, file) ==
    /\ files' \in Seq(FileSet) /\ Len(files') = Len(files)
    /\ \A g \in 1 .. Len(files) : files'[g] = IF g = f THEN file ELSE files[g]

\* The step adds a file, for that path.
AddsFile(path) ==
    /\ files' \in Seq(FileSet) /\ Len(files') = Len(files) + 1
    /\ \A g \in 1 .. Len(files) : files'[g] = files[g]
    /\ files'[Len(files) + 1] = NewFile(path)

\* The worker answers, and has nothing else to say.
Says(reply) ==
    /\ worker'.replies \in Seq(ReplySet)
    /\ Len(worker'.replies) = Len(worker.replies) + 1
    /\ \A i \in 1 .. Len(worker.replies) : worker'.replies[i] = worker.replies[i]
    /\ worker'.replies[Len(worker.replies) + 1] = reply

LEMMA SaysIs ==
    ASSUME RecorderTypeOK, NEW reply \in ReplySet, worker'.replies = Sends(<<reply>>)
    PROVE  Says(reply)
<1>. DEFINE sent == Sends(<<reply>>)
<1>1. /\ sent \in Seq(ReplySet)
      /\ Len(sent) = Len(worker.replies) + 1
      /\ \A i \in 1 .. Len(worker.replies) : sent[i] = worker.replies[i]
      /\ sent[Len(worker.replies) + 1] = reply
  BY SendsIs
<1>2. worker'.replies = sent
  OBVIOUS
<1>. HIDE DEF sent
<1> QED
  BY <1>1, <1>2 DEF Says

LEMMA WorkerStartIs ==
    ASSUME RecorderTypeOK, WorkerStart, UNCHANGED baseVars
    PROVE  LET path == Operations[1].path IN
           /\ RecorderTypeOK' /\ ~worker'.ended
           /\ \/ /\ AddsFile(path) /\ Says(Reply("started", path, TRUE))
                 /\ worker'.active = Len(files) + 1 /\ worker'.count = 0
              \/ /\ AddsFile(path) \/ UNCHANGED files
                 /\ Says(Reply("started", path, FALSE))
                 /\ worker'.active = worker.active /\ worker'.count = worker.count
<1>. DEFINE path    == Operations[1].path
            created == Append(files, NewFile(path))
<1>1. /\ recorder' \in Recorders /\ ~worker.ended
      /\ Operations[1] \in Ops /\ Operations[1] = Head(Operations)
  BY TakesIs DEF WorkerStart
<1>2. path \in Paths /\ NewFile(path) \in FileSet
  BY <1>1 DEF Ops, NewFile, NoFooter, FileSet, Footers
<1>3. /\ worker \in Workers /\ files \in Seq(FileSet) /\ worker.active <= Len(files)
      /\ Len(files) \in Nat
  BY DEF RecorderTypeOK
<1>4. /\ created \in Seq(FileSet) /\ Len(created) = Len(files) + 1
      /\ \A g \in 1 .. Len(files) : created[g] = files[g]
      /\ created[Len(files) + 1] = NewFile(path)
  BY <1>2, <1>3, AppendProperties
<1>5. active' \subseteq Ids /\ wire' \in Seq(Ids)
  BY DEF RecorderTypeOK, baseVars
<1>6. CASE /\ files' = created
           /\ worker' = [worker EXCEPT !.active = Len(created), !.count = 0,
                                       !.replies = Sends(<<Reply("started", path, TRUE)>>)]
  <2>1. Reply("started", path, TRUE) \in ReplySet
    BY <1>2, ReplyType
  <2>2. /\ worker' \in Workers /\ worker'.active = Len(files) + 1 /\ worker'.count = 0
        /\ worker'.replies = Sends(<<Reply("started", path, TRUE)>>) /\ ~worker'.ended
    <3>1. Sends(<<Reply("started", path, TRUE)>>) \in Seq(ReplySet)
      BY <2>1, SendsIs
    <3>2. Len(created) \in Nat /\ Len(created) = Len(files) + 1
      BY <1>3, <1>4
    <3>. HIDE DEF created
    <3> QED
      BY <1>1, <1>3, <1>6, <3>1, <3>2 DEF Workers
  <2>3. Says(Reply("started", path, TRUE))
    BY <2>1, <2>2, SaysIs
  <2>4. AddsFile(path)
    BY <1>4, <1>6 DEF AddsFile
  <2>5. RecorderTypeOK'
    BY <1>1, <1>3, <1>4, <1>5, <1>6, <2>2 DEF RecorderTypeOK
  <2> QED
    BY <2>2, <2>3, <2>4, <2>5
<1>7. CASE /\ files' \in {files, created}
           /\ worker' = [worker EXCEPT !.replies = Sends(<<Reply("started", path, FALSE)>>)]
  <2>1. Reply("started", path, FALSE) \in ReplySet
    BY <1>2, ReplyType
  <2>2. /\ worker' \in Workers /\ worker'.active = worker.active /\ worker'.count = worker.count
        /\ worker'.replies = Sends(<<Reply("started", path, FALSE)>>) /\ ~worker'.ended
    <3>1. Sends(<<Reply("started", path, FALSE)>>) \in Seq(ReplySet)
      BY <2>1, SendsIs
    <3> QED
      BY <1>1, <1>3, <1>7, <3>1 DEF Workers
  <2>3. Says(Reply("started", path, FALSE))
    BY <2>1, <2>2, SaysIs
  <2>4. /\ AddsFile(path) \/ UNCHANGED files
        /\ files' \in Seq(FileSet) /\ Len(files') >= Len(files)
    BY SMTT(30), <1>3, <1>4, <1>7 DEF AddsFile
  <2>5. RecorderTypeOK'
    <3>1. worker'.active <= Len(files')
      BY <1>3, <2>2, <2>4 DEF Workers
    <3> QED
      BY <1>1, <1>5, <2>2, <2>4, <3>1 DEF RecorderTypeOK
  <2> QED
    BY <2>2, <2>3, <2>4, <2>5
<1> QED
  BY <1>1, <1>6, <1>7 DEF WorkerStart

\* What a torn append leaves of the file is still a beginning of it.
LEMMA TornIs ==
    ASSUME RecorderTypeOK, worker.active # 0, NEW lines \in Seq(Entries),
           files' \in Torn(worker.active, lines)
    PROVE  \E file \in FileSet :
              /\ OnlyFile(worker.active, file)
              /\ file.path = files[worker.active].path
              /\ file.footer = files[worker.active].footer
<1>. DEFINE f == worker.active
<1>1. f \in 1 .. Len(files) /\ files[f] \in FileSet
  BY FileOf
<1>2. PICK n \in 0 .. Len(lines) :
         files' = [files EXCEPT ![f] = Written(files[f], SubSeq(lines, 1, n))]
  BY DEF Torn
<1>3. SubSeq(lines, 1, n) \in Seq(Entries)
  BY FlushIs
<1>. DEFINE file == Written(files[f], SubSeq(lines, 1, n))
<1>4. file \in FileSet /\ file.path = files[f].path /\ file.footer = files[f].footer
  BY <1>1, <1>3, WrittenType
<1>5. files \in Seq(FileSet)
  BY DEF RecorderTypeOK
<1>6. OnlyFile(f, file)
  BY <1>1, <1>2, <1>4, <1>5, ExceptSeq DEF OnlyFile
<1> QED
  BY <1>4, <1>6

LEMMA WorkerAppendIs ==
    ASSUME RecorderTypeOK, WorkerAppend, UNCHANGED baseVars
    PROVE  LET f     == worker.active
               lines == Operations[1].lines
           IN
           /\ RecorderTypeOK' /\ ~worker'.ended
           /\ \/ f = 0 /\ UNCHANGED <<worker, files>>
              \/ /\ f # 0 /\ OnlyFile(f, Written(files[f], lines))
                 /\ worker'.active = f /\ worker'.replies = worker.replies
                 /\ worker'.count = worker.count + Len(lines)
              \/ /\ f # 0 /\ worker'.active = 0
                 /\ Says(Reply("failed", files[f].path, FALSE))
                 /\ \E file \in FileSet : /\ OnlyFile(f, file)
                                          /\ file.path = files[f].path
                                          /\ file.footer = files[f].footer
<1>. DEFINE f     == worker.active
            lines == Operations[1].lines
<1>1. /\ recorder' \in Recorders /\ ~worker.ended
      /\ Operations[1] \in Ops /\ Operations[1] = Head(Operations)
  BY TakesIs DEF WorkerAppend
<1>2. lines \in Seq(Entries) /\ Len(lines) \in Nat
  BY <1>1 DEF Ops
<1>3. /\ worker \in Workers /\ files \in Seq(FileSet) /\ f <= Len(files)
      /\ active' \subseteq Ids /\ wire' \in Seq(Ids)
  BY DEF RecorderTypeOK, baseVars
<1>4. CASE f = 0 /\ UNCHANGED <<worker, files>>
  BY <1>1, <1>3, <1>4 DEF RecorderTypeOK
<1>5. CASE /\ f # 0
           /\ files' = [files EXCEPT ![f] = Written(files[f], lines)]
           /\ worker' = [worker EXCEPT !.count = worker.count + Len(lines)]
  <2>1. f \in 1 .. Len(files) /\ Written(files[f], lines) \in FileSet
    BY <1>2, <1>5, FileOf, WrittenType
  <2>2. OnlyFile(f, Written(files[f], lines))
    BY <1>3, <1>5, <2>1, ExceptSeq DEF OnlyFile
  <2>3. /\ worker' \in Workers /\ worker'.active = f /\ worker'.replies = worker.replies
        /\ worker'.count = worker.count + Len(lines) /\ ~worker'.ended
    <3>. DEFINE count == worker.count + Len(lines)
    <3>1. count \in Nat
      BY SMTT(30), <1>2, <1>3 DEF Workers
    <3>2. worker' = [worker EXCEPT !.count = count]
      BY <1>5
    <3>. HIDE DEF count
    <3>3. /\ worker' \in Workers /\ worker'.active = f /\ worker'.replies = worker.replies
          /\ worker'.count = count /\ ~worker'.ended
      BY <1>1, <1>3, <3>1, <3>2 DEF Workers
    <3> QED
      BY <3>3 DEF count
  <2> QED
    BY <1>1, <1>3, <1>5, <2>2, <2>3 DEF RecorderTypeOK, OnlyFile
<1>6. CASE /\ f # 0 /\ files' \in Torn(f, lines)
           /\ worker' = [worker EXCEPT !.active = 0,
                            !.replies = Sends(<<Reply("failed", files[f].path, FALSE)>>)]
  <2>1. files[f].path \in Paths
    BY <1>6, FileOf DEF FileSet
  <2>2. Reply("failed", files[f].path, FALSE) \in ReplySet
    BY <2>1, ReplyType
  <2>3. /\ worker' \in Workers /\ worker'.active = 0 /\ ~worker'.ended
        /\ worker'.replies = Sends(<<Reply("failed", files[f].path, FALSE)>>)
    <3>1. Sends(<<Reply("failed", files[f].path, FALSE)>>) \in Seq(ReplySet)
      BY <2>2, SendsIs
    <3> QED
      BY <1>1, <1>3, <1>6, <3>1 DEF Workers
  <2>4. Says(Reply("failed", files[f].path, FALSE))
    BY <2>2, <2>3, SaysIs
  <2>5. PICK file \in FileSet : /\ OnlyFile(f, file)
                                /\ file.path = files[f].path
                                /\ file.footer = files[f].footer
    BY <1>2, <1>6, TornIs
  <2>6. files' \in Seq(FileSet) /\ worker'.active <= Len(files')
    BY <2>3, <2>5 DEF OnlyFile
  <2> QED
    BY <1>1, <1>3, <1>6, <2>3, <2>4, <2>5, <2>6 DEF RecorderTypeOK
<1> QED
  BY <1>1, <1>4, <1>5, <1>6 DEF WorkerAppend

LEMMA WorkerStopIs ==
    ASSUME RecorderTypeOK, WorkerStop, UNCHANGED baseVars
    PROVE  LET f    == worker.active
               path == Operations[1].path
           IN
           /\ RecorderTypeOK' /\ ~worker'.ended /\ worker'.active = 0
           /\ \/ /\ f # 0 /\ OnlyFile(f, Footed(files[f], "stopped", worker.count))
                 /\ \E ok \in BOOLEAN : Says(Reply("stopped", path, ok))
              \/ UNCHANGED files /\ Says(Reply("stopped", path, FALSE))
<1>. DEFINE f    == worker.active
            path == Operations[1].path
            footed == [files EXCEPT ![f] = Footed(files[f], "stopped", worker.count)]
            Answer(ok) ==
               worker' = [worker EXCEPT !.active = 0,
                                        !.replies = Sends(<<Reply("stopped", path, ok)>>)]
<1>1. /\ recorder' \in Recorders /\ ~worker.ended
      /\ Operations[1] \in Ops /\ Operations[1] = Head(Operations)
  BY TakesIs DEF WorkerStop
<1>2. path \in Paths
  BY <1>1 DEF Ops
<1>3. /\ worker \in Workers /\ files \in Seq(FileSet) /\ f <= Len(files)
      /\ active' \subseteq Ids /\ wire' \in Seq(Ids)
  BY DEF RecorderTypeOK, baseVars
<1>4. \E ok \in BOOLEAN :
        /\ Answer(ok)
        /\ \/ f # 0 /\ files' = footed
           \/ UNCHANGED files /\ ~ok
  <2>1. \/ f # 0 /\ files' = footed /\ Answer(TRUE)
        \/ f # 0 /\ files' \in {files, footed} /\ Answer(FALSE)
        \/ f = 0 /\ UNCHANGED files /\ Answer(FALSE)
    BY <1>1 DEF WorkerStop
  <2> QED
    BY <2>1
<1>5. PICK ok \in BOOLEAN :
        /\ Answer(ok)
        /\ \/ f # 0 /\ files' = footed
           \/ UNCHANGED files /\ ~ok
  BY <1>4
<1>6. Reply("stopped", path, ok) \in ReplySet
  BY <1>2, ReplyType
<1>7. /\ worker' \in Workers /\ worker'.active = 0 /\ ~worker'.ended
      /\ worker'.replies = Sends(<<Reply("stopped", path, ok)>>)
  <2>1. Sends(<<Reply("stopped", path, ok)>>) \in Seq(ReplySet)
    BY <1>6, SendsIs
  <2> QED
    BY <1>1, <1>3, <1>5, <2>1 DEF Workers
<1>8. Says(Reply("stopped", path, ok))
  BY <1>6, <1>7, SaysIs
<1>9. /\ files' \in Seq(FileSet)
      /\ f # 0 /\ files' = footed => OnlyFile(f, Footed(files[f], "stopped", worker.count))
  <2>1. CASE f # 0 /\ files' = footed
    <3>1. /\ f \in 1 .. Len(files) /\ files[f] \in FileSet
          /\ Footed(files[f], "stopped", worker.count) \in FileSet
      BY <1>3, <2>1, FileOf, FootedType DEF Workers
    <3> QED
      BY <1>3, <2>1, <3>1, ExceptSeq DEF OnlyFile
  <2> QED
    BY <1>3, <1>5, <2>1
<1>10. RecorderTypeOK'
  BY <1>1, <1>3, <1>7, <1>9 DEF RecorderTypeOK
<1>11. CASE f # 0 /\ files' = footed
  BY <1>7, <1>8, <1>9, <1>10, <1>11
<1>12. CASE UNCHANGED files /\ ~ok
  BY <1>7, <1>8, <1>10, <1>12
<1> QED
  BY <1>5, <1>11, <1>12

\* Two more replies, the second of which says that the worker has ended.
SaysAndEnds(reply) ==
    /\ worker'.replies \in Seq(ReplySet)
    /\ Len(worker'.replies) = Len(worker.replies) + 2
    /\ \A i \in 1 .. Len(worker.replies) : worker'.replies[i] = worker.replies[i]
    /\ worker'.replies[Len(worker.replies) + 1] = reply
    /\ worker'.replies[Len(worker.replies) + 2] = Reply("ended", 0, TRUE)

LEMMA SaysAndEndsIs ==
    ASSUME RecorderTypeOK, NEW reply \in ReplySet,
           worker'.replies = Sends(<<reply>> \o <<Reply("ended", 0, TRUE)>>)
    PROVE  SaysAndEnds(reply)
<1>. DEFINE ended == Reply("ended", 0, TRUE)
            both  == <<reply>> \o <<ended>>
<1>1. ended \in ReplySet
  BY EndedType
<1>. HIDE DEF ended
<1>2. both \in Seq(ReplySet) /\ Len(both) = 2 /\ both[1] = reply /\ both[2] = ended
  BY <1>1
<1>3. worker.replies \in Seq(ReplySet) /\ worker'.replies = worker.replies \o both
  BY DEF RecorderTypeOK, Workers, Sends, ended
<1>. HIDE DEF both
<1>4. /\ worker.replies \o both \in Seq(ReplySet)
      /\ Len(worker.replies \o both) = Len(worker.replies) + Len(both)
      /\ \A i \in 1 .. Len(worker.replies) + Len(both) :
            (worker.replies \o both)[i] = IF i <= Len(worker.replies) THEN worker.replies[i]
                                          ELSE both[i - Len(worker.replies)]
  BY <1>2, <1>3, ConcatProperties
<1>5. Len(worker.replies) \in Nat
  BY <1>3
<1>6. SaysAndEnds(reply) <=> /\ worker'.replies \in Seq(ReplySet)
                             /\ Len(worker'.replies) = Len(worker.replies) + 2
                             /\ \A i \in 1 .. Len(worker.replies) :
                                   worker'.replies[i] = worker.replies[i]
                             /\ worker'.replies[Len(worker.replies) + 1] = reply
                             /\ worker'.replies[Len(worker.replies) + 2] = ended
  BY DEF SaysAndEnds, ended
<1>7. /\ \A i \in 1 .. Len(worker.replies) : (worker.replies \o both)[i] = worker.replies[i]
      /\ (worker.replies \o both)[Len(worker.replies) + 1] = reply
      /\ (worker.replies \o both)[Len(worker.replies) + 2] = ended
  <2>1. \A i \in 1 .. Len(worker.replies) : (worker.replies \o both)[i] = worker.replies[i]
    BY <1>2, <1>4, <1>5
  <2>2. Len(worker.replies) + 1 \in 1 .. Len(worker.replies) + Len(both)
    BY <1>2, <1>5
  <2>3. Len(worker.replies) + 2 \in 1 .. Len(worker.replies) + Len(both)
    BY <1>2, <1>5
  <2>4. (worker.replies \o both)[Len(worker.replies) + 1] = both[1]
    BY <1>4, <1>5, <2>2
  <2>5. (worker.replies \o both)[Len(worker.replies) + 2] = both[2]
    BY <1>4, <1>5, <2>3
  <2> QED
    BY <1>2, <2>1, <2>4, <2>5
<1> QED
  BY <1>2, <1>3, <1>4, <1>6, <1>7

LEMMA WorkerEndIs ==
    ASSUME RecorderTypeOK, WorkerEnd, UNCHANGED baseVars
    PROVE  LET f     == worker.active
               lines == Operations[1].lines
           IN
           /\ RecorderTypeOK' /\ worker'.ended /\ worker'.active = 0
           /\ \/ /\ f = 0 /\ UNCHANGED files
                 /\ Says(Reply("ended", 0, TRUE))
              \/ /\ f # 0
                 /\ OnlyFile(f, Footed(Written(files[f], lines), "session_ended",
                                       worker.count + Len(lines)))
                 /\ \/ Says(Reply("ended", 0, TRUE))
                    \/ SaysAndEnds(Reply("failed", files[f].path, FALSE))
              \/ /\ f # 0 /\ SaysAndEnds(Reply("failed", files[f].path, FALSE))
                 /\ \E file \in FileSet : /\ OnlyFile(f, file)
                                          /\ file.path = files[f].path
                                          /\ file.footer = files[f].footer
<1>. DEFINE f     == worker.active
            lines == Operations[1].lines
            last  == Footed(Written(files[f], lines), "session_ended", worker.count + Len(lines))
            whole == [files EXCEPT ![f] = last]
            failed == Reply("failed", files[f].path, FALSE)
            ended  == Reply("ended", 0, TRUE)
            Finish(replies) ==
                worker' = [worker EXCEPT !.active = 0, !.ended = TRUE,
                                         !.replies = Sends(replies \o <<ended>>)]
<1>1. /\ recorder' \in Recorders /\ ~worker.ended
      /\ Operations[1] \in Ops /\ Operations[1] = Head(Operations)
  BY TakesIs DEF WorkerEnd
<1>2. lines \in Seq(Entries) /\ Len(lines) \in Nat /\ ended \in ReplySet
  <2>1. lines \in Seq(Entries)
    BY <1>1 DEF Ops
  <2>2. Len(lines) \in Nat
    BY <2>1, LenProperties
  <2>3. ended \in ReplySet
    BY EndedType
  <2> QED
    BY <2>1, <2>2, <2>3
<1>3. /\ worker \in Workers /\ files \in Seq(FileSet) /\ f <= Len(files)
      /\ active' \subseteq Ids /\ wire' \in Seq(Ids)
  BY DEF RecorderTypeOK, baseVars
<1>4. \/ f = 0 /\ UNCHANGED files /\ Finish(<< >>)
      \/ f # 0 /\ files' = whole /\ (Finish(<< >>) \/ Finish(<<failed>>))
      \/ f # 0 /\ files' \in Torn(f, lines) /\ Finish(<<failed>>)
  BY <1>1 DEF WorkerEnd
<1>5. ASSUME f # 0 PROVE failed \in ReplySet
  <2>1. files[f].path \in Paths
    BY <1>5, FileOf DEF FileSet
  <2> QED
    BY <2>1, ReplyType
<1>6. ASSUME Finish(<< >>)
      PROVE  worker' \in Workers /\ worker'.active = 0 /\ worker'.ended /\ Says(ended)
  <2>1. << >> \o <<ended>> = <<ended>>
    BY <1>2, ConcatEmptySeq
  <2>2. Sends(<<ended>>) \in Seq(ReplySet)
    BY <1>2, SendsIs
  <2>. HIDE DEF ended
  <2>3. worker' = [worker EXCEPT !.active = 0, !.ended = TRUE, !.replies = Sends(<<ended>>)]
    BY <1>6, <2>1
  <2>4. /\ worker' \in Workers /\ worker'.active = 0 /\ worker'.ended
        /\ worker'.replies = Sends(<<ended>>)
    BY <1>3, <2>2, <2>3 DEF Workers
  <2> QED
    BY <1>2, <2>4, SaysIs
<1>7. ASSUME f # 0, Finish(<<failed>>)
      PROVE  worker' \in Workers /\ worker'.active = 0 /\ worker'.ended /\ SaysAndEnds(failed)
  <2>. DEFINE both == <<failed>> \o <<ended>>
  <2>1. failed \in ReplySet
    BY <1>5, <1>7
  <2>6. <<failed>> \in Seq(ReplySet) /\ <<ended>> \in Seq(ReplySet)
    <3>. HIDE DEF failed, ended
    <3> QED
      BY <1>2, <2>1
  <2>2. both \in Seq(ReplySet)
    BY <2>6, ConcatProperties
  <2>3. Sends(both) \in Seq(ReplySet)
    BY <1>3, <2>2, ConcatProperties DEF Sends, Workers
  <2>4. worker' = [worker EXCEPT !.active = 0, !.ended = TRUE, !.replies = Sends(both)]
    BY <1>7
  <2>. HIDE DEF both
  <2>5. /\ worker' \in Workers /\ worker'.active = 0 /\ worker'.ended
        /\ worker'.replies = Sends(both)
    BY <1>3, <2>3, <2>4 DEF Workers
  <2> QED
    BY <2>1, <2>5, SaysAndEndsIs DEF both
<1>8. ASSUME f # 0, files' = whole PROVE OnlyFile(f, last)
  <2>1. f \in 1 .. Len(files) /\ files[f] \in FileSet
    BY <1>8, FileOf
  <2>2. worker.count + Len(lines) \in Nat
    BY SMTT(30), <1>2, <1>3 DEF Workers
  <2>3. last \in FileSet
    BY <1>2, <2>1, <2>2, WrittenType, FootedType
  <2>. HIDE DEF last
  <2> QED
    BY <1>3, <1>8, <2>1, <2>3, ExceptSeq DEF OnlyFile
<1>9. CASE f = 0 /\ UNCHANGED files /\ Finish(<< >>)
  <2>1. RecorderTypeOK'
    BY <1>1, <1>3, <1>6, <1>9 DEF RecorderTypeOK
  <2> QED
    BY <1>6, <1>9, <2>1
<1>10. CASE f # 0 /\ files' = whole /\ (Finish(<< >>) \/ Finish(<<failed>>))
  <2>1. OnlyFile(f, last)
    BY <1>8, <1>10
  <2>2. /\ worker' \in Workers /\ worker'.active = 0 /\ worker'.ended
        /\ Says(ended) \/ SaysAndEnds(failed)
    BY <1>6, <1>7, <1>10
  <2>3. RecorderTypeOK'
    BY <1>1, <1>3, <2>1, <2>2 DEF RecorderTypeOK, OnlyFile
  <2> QED
    BY <1>10, <2>1, <2>2, <2>3
<1>11. CASE f # 0 /\ files' \in Torn(f, lines) /\ Finish(<<failed>>)
  <2>1. PICK file \in FileSet : /\ OnlyFile(f, file)
                                /\ file.path = files[f].path
                                /\ file.footer = files[f].footer
    BY <1>2, <1>11, TornIs
  <2>2. worker' \in Workers /\ worker'.active = 0 /\ worker'.ended /\ SaysAndEnds(failed)
    BY <1>7, <1>11
  <2>3. RecorderTypeOK'
    BY <1>1, <1>3, <2>1, <2>2 DEF RecorderTypeOK, OnlyFile
  <2> QED
    BY <1>11, <2>1, <2>2, <2>3
<1> QED
  BY <1>4, <1>9, <1>10, <1>11

-----------------------------------------------------------------------------
(* The specification *)

\* The recorder starts with its type.
LEMMA RecorderTypeInit == RecorderInit => RecorderTypeOK
<1>. SUFFICES ASSUME RecorderInit PROVE RecorderTypeOK
  OBVIOUS
<1>1. NewRecorder \in Recorders
  BY LastIdAssumption DEF NewRecorder, Recorders, Paths
<1>2. NewWorker \in Workers
  BY DEF NewWorker, Workers
<1> QED
  BY <1>1, <1>2 DEF RecorderInit, RecorderTypeOK, NewWorker

\* A call leaves the worker and the files alone.
LEMMA CallType ==
    ASSUME RecorderTypeOK, recorder' \in Recorders, UNCHANGED <<worker, files>>,
           active' \subseteq Ids, wire' \in Seq(Ids)
    PROVE  RecorderTypeOK'
BY DEF RecorderTypeOK

LEMMA PollReplyIs ==
    ASSUME RecorderTypeOK, PollReply
    PROVE  /\ RecorderTypeOK'
           /\ worker.replies # << >> /\ worker.replies[1] \in ReplySet
           /\ recorder' = Replied(recorder, worker.replies[1])
           /\ worker'.replies \in Seq(ReplySet)
           /\ Len(worker'.replies) = Len(worker.replies) - 1
           /\ \A i \in 1 .. Len(worker'.replies) : worker'.replies[i] = worker.replies[i + 1]
           /\ worker'.active = worker.active /\ worker'.count = worker.count
           /\ worker'.ended = worker.ended
           /\ UNCHANGED <<files, active, wire>>
<1>1. /\ recorder \in Recorders /\ worker \in Workers /\ worker.replies \in Seq(ReplySet)
      /\ worker.replies # << >>
  BY DEF RecorderTypeOK, PollReply, Workers
<1>2. /\ worker.replies[1] \in ReplySet /\ worker.replies[1] = Head(worker.replies)
      /\ Tail(worker.replies) \in Seq(ReplySet)
      /\ Len(Tail(worker.replies)) = Len(worker.replies) - 1
      /\ \A i \in 1 .. Len(Tail(worker.replies)) :
            Tail(worker.replies)[i] = worker.replies[i + 1]
  BY <1>1, HeadTailProperties
<1>3. recorder' = Replied(recorder, worker.replies[1]) /\ recorder' \in Recorders
  BY <1>1, <1>2, RepliedType DEF PollReply
<1>4. worker' = [worker EXCEPT !.replies = Tail(worker.replies)]
  BY DEF PollReply
<1>5. /\ worker' \in Workers /\ worker'.replies = Tail(worker.replies)
      /\ worker'.active = worker.active /\ worker'.count = worker.count
      /\ worker'.ended = worker.ended
  BY <1>1, <1>2, <1>4 DEF Workers
<1>6. UNCHANGED <<files, active, wire>>
  BY DEF PollReply, baseVars
<1>7. RecorderTypeOK'
  BY <1>3, <1>5, <1>6 DEF RecorderTypeOK
<1> QED
  BY <1>1, <1>2, <1>3, <1>5, <1>6, <1>7

\* The type invariant is inductive.
LEMMA RecorderTypeStep ==
    RecorderTypeOK /\ [RecorderNext]_<<recorderVars, baseVars>> => RecorderTypeOK'
<1>. SUFFICES ASSUME RecorderTypeOK, [RecorderNext]_<<recorderVars, baseVars>>
              PROVE  RecorderTypeOK'
  OBVIOUS
<1>1. recorder \in Recorders /\ active \subseteq Ids /\ wire \in Seq(Ids)
  BY DEF RecorderTypeOK
<1>2. ASSUME NEW id \in NormalIds, NEW kind \in RecordKinds, NEW pending \in BOOLEAN,
             CallControl(id, kind, pending)
      PROVE  RecorderTypeOK'
  <2>1. recorder' \in Recorders
    BY <1>1, <1>2, ControlType DEF CallControl
  <2> QED
    BY <1>1, <1>2, <2>1, CallType DEF CallControl, baseVars
<1>3. ASSUME NEW id \in Ids, NEW kind, CallSend(id, kind)
      PROVE  RecorderTypeOK'
  <2>1. recorder' \in Recorders
    BY <1>1, <1>3, RecordType DEF CallSend
  <2>2. wire' \in Seq(Ids) /\ active' \subseteq Ids
    BY <1>1, <1>3, AppendProperties DEF CallSend, MaySend
  <2> QED
    BY <1>3, <2>1, <2>2, CallType DEF CallSend, MaySend
<1>4. ASSUME NEW id \in Ids, NEW kind, CallSendFailed(id, kind)
      PROVE  RecorderTypeOK'
  <2>1. "io" \in Settled /\ Record(recorder, id, kind) \in Recorders
    BY <1>1, RecordType DEF Settled
  <2>2. recorder' \in Recorders
    BY <1>4, <2>1, TerminalType DEF CallSendFailed
  <2>3. wire' \in Seq(Ids) /\ active' \subseteq Ids
    BY <1>1, <1>4, AppendProperties DEF CallSendFailed, MaySend
  <2> QED
    BY <1>4, <2>2, <2>3, CallType DEF CallSendFailed, MaySend
<1>5. ASSUME NEW id \in Ids, NEW outcome \in Answers, CallTerminal(id, outcome)
      PROVE  RecorderTypeOK'
  <2>1. recorder' \in Recorders
    BY <1>1, <1>5, TerminalType DEF CallTerminal, Settled
  <2> QED
    BY <1>1, <1>5, <2>1, CallType DEF CallTerminal
<1>6. CASE PollReply
  BY <1>6, PollReplyIs
<1>7. CASE CallEnd
  <2>1. recorder' \in Recorders
    BY <1>1, <1>7, EndType DEF CallEnd
  <2> QED
    BY <1>1, <1>7, <2>1, CallType DEF CallEnd, baseVars
<1>8. CASE Work /\ UNCHANGED baseVars
  BY <1>8, WorkerStartIs, WorkerAppendIs, WorkerStopIs, WorkerEndIs DEF Work
<1>9. CASE UNCHANGED <<recorderVars, baseVars>>
  BY <1>9 DEF RecorderTypeOK, recorderVars, baseVars
<1> QED
  BY <1>2, <1>3, <1>4, <1>5, <1>6, <1>7, <1>8, <1>9 DEF RecorderNext

(***************************************************************************)
(* Type correctness of the recorder: whatever the coordinator calls and    *)
(* whatever the disk does, recorder, worker and files keep their types,    *)
(* and the worker writes into a file that exists.                          *)
(***************************************************************************)
THEOREM RecorderTypeCorrect == RecorderSpec => []RecorderTypeOK
BY RecorderTypeInit, RecorderTypeStep, PTL DEF RecorderSpec

-----------------------------------------------------------------------------
(* What is under way between the recorder and its worker *)

Asked == 1 .. Len(Operations)
Said  == 1 .. Len(worker.replies)

IsSaid(kind) == \E i \in Said : worker.replies[i].kind = kind
IsAsked(op)  == \E i \in Asked : Operations[i].op = op

\* The path of the recording that is active or about to be.
Current == IF recorder.state = "starting" THEN recorder.id ELSE recorder.path

\* The worker has answered the start, and how.
Acknowledged == worker.replies # << >> /\ worker.replies[1].kind = "started"

\* A recording is active for the worker's part.
Opened == \/ recorder.state = "starting" /\ Acknowledged /\ worker.replies[1].ok
          \/ recorder.state \in {"active", "stopping"}

\* "end" is the last operation, and the worker ends with it.
EndIsLast ==
    /\ recorder.over /\ ~worker.ended =>
          Operations # << >> /\ Operations[Len(Operations)].op = "end"
    /\ worker.ended => recorder.over /\ Operations = << >>
    /\ \A i \in Asked :
          Operations[i].op = "end" => i = Len(Operations) /\ recorder.over

\* A start or a stop waits only in its transition, nothing but "end" behind it.
OperationsMatch ==
    \A i \in Asked :
        /\ Operations[i].op \in {"start", "stop"} =>
              /\ \A j \in Asked : i < j => Operations[j].op = "end"
              /\ Operations[i].path = Current
              /\ Operations[i].lines = << >>
        /\ Operations[i].op = "start" =>
              /\ recorder.state = "starting"
              /\ worker.replies = << >> /\ worker.active = 0
        /\ Operations[i].op = "stop" =>
              /\ recorder.state = "stopping"
              /\ ~IsSaid("stopped")

\* An answer waits only in its transition; a failure only for a recording
\* that is opened, which the worker then has closed.
RepliesAreDue ==
    \A i \in Said :
        LET reply == worker.replies[i] IN
        /\ reply.kind = "started" => i = 1 /\ recorder.state = "starting"
        /\ reply.kind = "stopped" =>
              /\ recorder.state = "stopping" /\ worker.active = 0
              /\ \A j \in Said : i < j => worker.replies[j].kind = "ended"
        /\ reply.kind = "failed" =>
              /\ Opened /\ worker.active = 0 /\ reply.path = Current
              /\ \A j \in Said : i < j => worker.replies[j].kind \in {"stopped", "ended"}
        /\ reply.kind = "ended" => i = Len(worker.replies) /\ worker.ended

\* A transition ends: its operation or its answer is on the way.
TransitionsEnd ==
    /\ recorder.state # "panicked"
    /\ recorder.state = "starting" => Acknowledged \/ IsAsked("start")
    /\ recorder.state = "stopping" => IsSaid("stopped") \/ IsAsked("stop")
    /\ Transitioning(recorder) => active = {}

\* The file the worker has open is the one of the current recording.
WorkerMatches ==
    worker.active # 0 =>
        /\ Opened /\ ~worker.ended
        /\ files[worker.active].path = Current
        /\ files[worker.active].footer = NoFooter

Protocol == /\ EndIsLast
            /\ OperationsMatch
            /\ RepliesAreDue
            /\ TransitionsEnd
            /\ WorkerMatches

-----------------------------------------------------------------------------
(* What the calls change *)

\* The recorder sends one more operation.
Asks(op) ==
    /\ Len(Operations') = Len(Operations) + 1
    /\ \A i \in Asked : Operations'[i] = Operations[i]
    /\ Operations'[Len(Operations) + 1] = op

\* The sections keep their paths.
SameSections ==
    /\ Len(recorder'.sections) = Len(recorder.sections)
    /\ \A s \in 1 .. Len(recorder.sections) :
          recorder'.sections[s].start = recorder.sections[s].start

LEMMA AsksIs ==
    ASSUME RecorderTypeOK, NEW op \in Ops, Operations' = Append(Operations, op)
    PROVE  Asks(op)
<1>1. Operations \in Seq(Ops)
  BY DEF RecorderTypeOK, Recorders, Operations
<1>2. /\ Len(Append(Operations, op)) = Len(Operations) + 1
      /\ \A i \in 1 .. Len(Operations) : Append(Operations, op)[i] = Operations[i]
      /\ Append(Operations, op)[Len(Operations) + 1] = op
  BY <1>1, AppendProperties
<1> QED
  BY <1>2 DEF Asks, Asked

LEMMA ControlIs ==
    ASSUME RecorderTypeOK, NEW id \in NormalIds, NEW kind \in RecordKinds,
           NEW pending \in BOOLEAN, CallControl(id, kind, pending)
    PROVE  /\ active = {} /\ ~recorder.over /\ recorder'.id = id
           /\ UNCHANGED <<worker, files, active, wire, recorder.path, recorder.entries,
                          recorder.over, recorder.sections, recorder.lost>>
           /\ \/ /\ recorder.state = "idle" /\ recorder'.state = "starting"
                 /\ Asks(Operation("start", id, << >>))
              \/ /\ recorder.state = "active" /\ recorder'.state = "stopping"
                 /\ Asks(Operation("stop", recorder.path, << >>))
<1>1. recorder \in Recorders
  BY DEF RecorderTypeOK
<1>2. /\ active = {} /\ ~recorder.over /\ UNCHANGED <<worker, files, active, wire>>
      /\ recorder' = Control(recorder, id, kind)
      /\ \/ kind = "recordingStart" /\ recorder.state = "idle"
         \/ kind = "recordingStop" /\ recorder.state = "active"
  BY DEF CallControl, MayControl, baseVars
<1>3. CASE kind = "recordingStart" /\ recorder.state = "idle"
  <2>. DEFINE op == Operation("start", id, << >>)
  <2>1. op \in Ops
    BY LastIdAssumption DEF Operation, Ops, Paths, NormalIds
  <2>2. recorder' = [recorder EXCEPT !.state = "starting", !.id = id,
                                     !.operations = Append(Operations, op)]
    BY <1>2, <1>3 DEF Control, Operations
  <2>. HIDE DEF op
  <2>3. Operations' = Append(Operations, op)
    BY <1>1, <2>2 DEF Operations, Recorders
  <2>4. Asks(op)
    BY <2>1, <2>3, AsksIs
  <2> QED
    BY <1>1, <1>2, <1>3, <2>2, <2>4 DEF Recorders, op
<1>4. CASE kind = "recordingStop" /\ recorder.state = "active"
  <2>. DEFINE op == Operation("stop", recorder.path, << >>)
  <2>1. op \in Ops
    BY <1>1 DEF Operation, Ops, Recorders
  <2>2. recorder' = [recorder EXCEPT !.state = "stopping", !.id = id,
                                     !.operations = Append(Operations, op)]
    BY <1>2, <1>4 DEF Control, Operations
  <2>. HIDE DEF op
  <2>3. Operations' = Append(Operations, op)
    BY <1>1, <2>2 DEF Operations, Recorders
  <2>4. Asks(op)
    BY <2>1, <2>3, AsksIs
  <2> QED
    BY <1>1, <1>2, <1>4, <2>2, <2>4 DEF Recorders, op
<1> QED
  BY <1>2, <1>3, <1>4

\* Recording a command changes no path and sends nothing to the worker.
LEMMA RecordIs ==
    ASSUME NEW r \in Recorders, NEW id \in Ids, NEW kind
    PROVE  LET q == Record(r, id, kind) IN
           /\ q.state = r.state /\ q.id = r.id /\ q.path = r.path /\ q.over = r.over
           /\ q.lost = r.lost /\ q.operations = r.operations
           /\ Len(q.sections) = Len(r.sections)
           /\ \A s \in 1 .. Len(r.sections) : q.sections[s].start = r.sections[s].start
<1>. DEFINE last == Len(r.sections)
            section  == [r.sections[last] EXCEPT !.sent = Append(r.sections[last].sent, Entry(id))]
            sections == [r.sections EXCEPT ![last] = section]
            recorded == [r EXCEPT !.entries = Append(r.entries, Entry(id)), !.sections = sections]
<1>1. Record(r, id, kind) = IF r.state = "active" /\ IsRecordable(kind) THEN recorded ELSE r
  BY DEF Record
<1>2. r.sections \in Seq(Sections) /\ last \in Nat
  BY DEF Recorders
<1>3. /\ Len(sections) = last
      /\ \A s \in 1 .. last : sections[s].start = r.sections[s].start
  <2>1. last \in 1 .. last => section \in Sections /\ section.start = r.sections[last].start
    <3>1. SUFFICES ASSUME last \in 1 .. last
                   PROVE  section \in Sections /\ section.start = r.sections[last].start
      OBVIOUS
    <3>2. r.sections[last] \in Sections
      BY <1>2, <3>1
    <3>3. Append(r.sections[last].sent, Entry(id)) \in Seq(Entries)
      BY <3>2, AppendProperties DEF Sections, Entry, Entries, Outcomes
    <3> QED
      BY <3>2, <3>3 DEF Sections
  <2>. HIDE DEF section
  <2>2. /\ Len(sections) = last
        /\ \A s \in 1 .. last : sections[s] = IF s = last THEN section ELSE r.sections[s]
    BY <1>2, <2>1, ReplacedInSeq
  <2> QED
    BY <1>2, <2>1, <2>2
<1>. HIDE DEF sections, last
<1>4. /\ recorded.state = r.state /\ recorded.id = r.id /\ recorded.path = r.path
      /\ recorded.over = r.over /\ recorded.lost = r.lost
      /\ recorded.operations = r.operations /\ recorded.sections = sections
  BY DEF Recorders
<1> QED
  BY <1>1, <1>3, <1>4 DEF last

\* An answer changes no path; it may send one append to the worker.
LEMMA TerminalIs ==
    ASSUME NEW r \in Recorders, NEW id \in Ids, NEW outcome \in Settled
    PROVE  LET q       == Terminal(r, id, outcome)
               entries == Answered(r.entries, id, outcome)
               n       == ReadyCount(entries)
           IN
           /\ q.state = r.state /\ q.id = r.id /\ q.path = r.path /\ q.over = r.over
           /\ q.lost = r.lost
           /\ q.sections = Witnessed(r.sections, id, outcome)
           /\ q.entries = SubSeq(entries, n + 1, Len(entries))
           /\ \/ n = 0 /\ q.operations = r.operations
              \/ /\ n # 0
                 /\ q.operations = Append(r.operations,
                                          Operation("append", r.path, SubSeq(entries, 1, n)))
                 /\ Operation("append", r.path, SubSeq(entries, 1, n)) \in Ops
<1>. DEFINE entries == Answered(r.entries, id, outcome)
            n == ReadyCount(entries)
            op == Operation("append", r.path, SubSeq(entries, 1, n))
            kept == SubSeq(entries, n + 1, Len(entries))
            operations == IF n = 0 THEN r.operations ELSE Append(r.operations, op)
            sections == Witnessed(r.sections, id, outcome)
<1>1. entries \in Seq(Entries)
  BY AnsweredIs DEF Recorders
<1>2. n \in 0 .. Len(entries)
  BY <1>1, ReadyCountIs
<1>3. SubSeq(entries, 1, n) \in Seq(Entries)
  BY <1>1, <1>2, FlushIs
<1>4. op \in Ops
  BY <1>3 DEF Operation, Ops, Recorders
<1>5. Terminal(r, id, outcome) = [r EXCEPT !.entries = kept, !.operations = operations,
                                           !.sections = sections]
  BY DEF Terminal
<1>. HIDE DEF kept, operations, sections
<1>6. LET q == Terminal(r, id, outcome) IN
      /\ q.state = r.state /\ q.id = r.id /\ q.path = r.path /\ q.over = r.over
      /\ q.lost = r.lost /\ q.sections = sections /\ q.entries = kept
      /\ q.operations = operations
  BY <1>5 DEF Recorders
<1> QED
  BY <1>4, <1>6 DEF kept, operations, sections

\* The calls that record a command or what became of it: no transition is
\* under way, and the worker may be asked to append.
SameCourse ==
    /\ ~recorder.over /\ ~Transitioning(recorder)
    /\ UNCHANGED <<worker, files, recorder.state, recorder.id, recorder.path,
                   recorder.over, recorder.lost>>
    /\ SameSections
    /\ \/ UNCHANGED Operations
       \/ \E op \in Ops : Asks(op) /\ op.op = "append"

LEMMA AppendsIs ==
    ASSUME RecorderTypeOK, NEW lines,
           Operation("append", recorder.path, lines) \in Ops,
           Operations' = Append(Operations, Operation("append", recorder.path, lines))
    PROVE  \E op \in Ops : Asks(op) /\ op.op = "append"
<1>1. Operation("append", recorder.path, lines).op = "append"
  BY DEF Operation
<1> QED
  BY <1>1, AsksIs

LEMMA SendIs ==
    ASSUME RecorderTypeOK, NEW id \in Ids, NEW kind, CallSend(id, kind)
    PROVE  SameCourse
<1>1. /\ recorder \in Recorders /\ recorder' = Record(recorder, id, kind)
      /\ ~recorder.over /\ ~Transitioning(recorder) /\ UNCHANGED <<worker, files>>
  BY DEF RecorderTypeOK, CallSend, MaySend
<1> QED
  BY <1>1, RecordIs DEF SameCourse, SameSections, Operations

LEMMA AnswerIs ==
    ASSUME RecorderTypeOK, NEW r \in Recorders, NEW id \in Ids, NEW outcome \in Settled,
           ~recorder.over, ~Transitioning(recorder), UNCHANGED <<worker, files>>,
           r.state = recorder.state, r.id = recorder.id, r.path = recorder.path,
           r.over = recorder.over, r.lost = recorder.lost,
           r.operations = recorder.operations,
           Len(r.sections) = Len(recorder.sections),
           \A s \in 1 .. Len(recorder.sections) :
              r.sections[s].start = recorder.sections[s].start,
           recorder' = Terminal(r, id, outcome)
    PROVE  SameCourse
<1>1. /\ r.sections \in Seq(Sections)
      /\ recorder'.sections = Witnessed(r.sections, id, outcome)
      /\ recorder'.state = r.state /\ recorder'.id = r.id /\ recorder'.path = r.path
      /\ recorder'.over = r.over /\ recorder'.lost = r.lost
  BY TerminalIs DEF Recorders
<1>2. SameSections
  BY <1>1, WitnessedType DEF SameSections
<1>3. UNCHANGED Operations \/ \E op \in Ops : Asks(op) /\ op.op = "append"
  <2>. DEFINE entries == Answered(r.entries, id, outcome)
              n       == ReadyCount(entries)
              lines   == SubSeq(entries, 1, n)
  <2>1. \/ Operations' = Operations
        \/ /\ Operations' = Append(Operations, Operation("append", recorder.path, lines))
           /\ Operation("append", recorder.path, lines) \in Ops
    BY TerminalIs DEF Operations
  <2>. HIDE DEF lines
  <2> QED
    BY <2>1, AppendsIs
<1> QED
  BY <1>1, <1>2, <1>3 DEF SameCourse

LEMMA SendFailedIs ==
    ASSUME RecorderTypeOK, NEW id \in Ids, NEW kind, CallSendFailed(id, kind)
    PROVE  SameCourse
<1>. DEFINE r == Record(recorder, id, kind)
<1>1. /\ recorder \in Recorders /\ recorder' = Terminal(r, id, "io")
      /\ ~recorder.over /\ ~Transitioning(recorder) /\ UNCHANGED <<worker, files>>
  BY DEF RecorderTypeOK, CallSendFailed, MaySend
<1>2. r \in Recorders /\ "io" \in Settled
  BY <1>1, RecordType DEF Settled
<1>3. /\ r.state = recorder.state /\ r.id = recorder.id /\ r.path = recorder.path
      /\ r.over = recorder.over /\ r.lost = recorder.lost
      /\ r.operations = recorder.operations
      /\ Len(r.sections) = Len(recorder.sections)
      /\ \A s \in 1 .. Len(recorder.sections) :
            r.sections[s].start = recorder.sections[s].start
  BY <1>1, RecordIs
<1>. HIDE DEF r
<1> QED
  BY <1>1, <1>2, <1>3, AnswerIs

LEMMA CallTerminalIs ==
    ASSUME RecorderTypeOK, TransitionsEnd, NEW id \in Ids, NEW outcome \in Answers,
           CallTerminal(id, outcome)
    PROVE  SameCourse
<1>1. /\ recorder \in Recorders /\ recorder' = Terminal(recorder, id, outcome)
      /\ ~recorder.over /\ ~Transitioning(recorder) /\ UNCHANGED <<worker, files>>
  BY DEF RecorderTypeOK, CallTerminal, TransitionsEnd
<1>2. outcome \in Settled
  BY DEF Settled
<1> QED
  BY <1>1, <1>2, AnswerIs

LEMMA EndIs ==
    ASSUME RecorderTypeOK, CallEnd
    PROVE  /\ ~recorder.over /\ recorder'.over
           /\ UNCHANGED <<worker, files, active, wire, recorder.state, recorder.id,
                          recorder.path, recorder.sections, recorder.lost>>
           /\ recorder'.entries = << >>
           /\ Operation("end", recorder.path, recorder.entries) \in Ops
           /\ Asks(Operation("end", recorder.path, recorder.entries))
<1>. DEFINE op == Operation("end", recorder.path, recorder.entries)
<1>1. recorder \in Recorders /\ ~recorder.over /\ UNCHANGED <<worker, files, active, wire>>
  BY DEF RecorderTypeOK, CallEnd, baseVars
<1>2. op \in Ops
  BY <1>1 DEF Operation, Ops, Recorders
<1>3. recorder' = [recorder EXCEPT !.entries = << >>, !.over = TRUE,
                                   !.operations = Append(Operations, op)]
  BY DEF CallEnd, EndRecorder, Operations
<1>. HIDE DEF op
<1>4. /\ recorder'.over /\ recorder'.entries = << >> /\ Operations' = Append(Operations, op)
      /\ UNCHANGED <<recorder.state, recorder.id, recorder.path, recorder.sections,
                     recorder.lost>>
  BY <1>1, <1>3 DEF Recorders, Operations
<1>5. Asks(op)
  BY <1>2, <1>4, AsksIs
<1> QED
  BY <1>1, <1>2, <1>4, <1>5 DEF op

-----------------------------------------------------------------------------
(* Protocol, call by call and step by step *)

LEMMA CourseKeepsProtocol ==
    ASSUME RecorderTypeOK, RecorderTypeOK', Protocol, SameCourse
    PROVE  Protocol'
<1>1. /\ Operations \in Seq(Ops) /\ Operations' \in Seq(Ops)
      /\ Len(Operations) \in Nat /\ Len(Operations') \in Nat
  BY DEF RecorderTypeOK, Recorders, Operations
<1>2. /\ UNCHANGED <<worker, files, recorder.state, recorder.id, recorder.path, recorder.over>>
      /\ ~recorder.over /\ ~Transitioning(recorder) /\ ~Transitioning(recorder)'
      /\ Current' = Current /\ Opened' = Opened /\ Acknowledged' = Acknowledged
      /\ Said' = Said
      /\ \A kind : IsSaid(kind)' = IsSaid(kind)
  BY DEF SameCourse, Transitioning, Current, Opened, Acknowledged, Said, IsSaid
<1>3. \A i \in Asked' : (i \in Asked /\ Operations'[i] = Operations[i])
                          \/ Operations'[i].op = "append"
  BY <1>1 DEF SameCourse, Asks, Asked
<1>4. \A i \in Asked : Operations[i].op \notin {"start", "stop", "end"}
  BY <1>2 DEF Protocol, OperationsMatch, EndIsLast, Transitioning
<1>5. EndIsLast'
  <2>1. ~worker.ended
    BY <1>2 DEF Protocol, EndIsLast
  <2> QED
    BY <1>2, <1>3, <1>4, <2>1 DEF EndIsLast
<1>6. OperationsMatch'
  BY <1>3, <1>4 DEF OperationsMatch
<1>7. RepliesAreDue'
  BY <1>2 DEF Protocol, RepliesAreDue
<1>8. TransitionsEnd'
  BY <1>2 DEF Protocol, TransitionsEnd, Transitioning
<1>9. WorkerMatches'
  BY <1>2 DEF Protocol, WorkerMatches
<1> QED
  BY <1>5, <1>6, <1>7, <1>8, <1>9 DEF Protocol

LEMMA ControlKeepsProtocol ==
    ASSUME RecorderTypeOK, RecorderTypeOK', Protocol,
           NEW id \in NormalIds, NEW kind \in RecordKinds, NEW pending \in BOOLEAN,
           CallControl(id, kind, pending)
    PROVE  Protocol'
<1>1. /\ Operations \in Seq(Ops) /\ Operations' \in Seq(Ops)
      /\ Len(Operations) \in Nat /\ Len(Operations') \in Nat
      /\ worker.replies \in Seq(ReplySet) /\ Len(worker.replies) \in Nat
  BY SMTT(30) DEF RecorderTypeOK, Recorders, Operations, Workers
<1>2. /\ active = {} /\ ~recorder.over /\ recorder'.id = id
      /\ UNCHANGED <<worker, files, active, recorder.path, recorder.over>>
      /\ \/ /\ recorder.state = "idle" /\ recorder'.state = "starting"
            /\ Asks(Operation("start", id, << >>))
         \/ /\ recorder.state = "active" /\ recorder'.state = "stopping"
            /\ Asks(Operation("stop", recorder.path, << >>))
  BY ControlIs
<1>3. \A i \in Asked : Operations[i].op \notin {"start", "stop", "end"}
  BY <1>2 DEF Protocol, OperationsMatch, EndIsLast
<1>4. \A i \in Said : worker.replies[i].kind \notin {"started", "stopped", "ended"}
  BY <1>2 DEF Protocol, RepliesAreDue, EndIsLast
<1>5. Said' = Said /\ \A k : IsSaid(k)' = IsSaid(k)
  BY <1>2 DEF Said, IsSaid
<1>6. CASE /\ recorder.state = "idle" /\ recorder'.state = "starting"
           /\ Asks(Operation("start", id, << >>))
  <2>1. /\ Len(Operations') = Len(Operations) + 1
        /\ \A i \in Asked : Operations'[i] = Operations[i]
        /\ Operations'[Len(Operations) + 1].op = "start"
        /\ Operations'[Len(Operations) + 1].path = id
        /\ Operations'[Len(Operations) + 1].lines = << >>
    BY <1>6 DEF Asks, Operation
  <2>2. /\ Asked' = Asked \cup {Len(Operations) + 1}
        /\ Len(Operations) + 1 \notin Asked
    BY <1>1, <2>1 DEF Asked
  <2>3. worker.active = 0 /\ worker.replies = << >>
    <3>1. worker.active = 0
      BY <1>6 DEF Protocol, WorkerMatches, Opened
    <3>2. \A i \in Said : worker.replies[i].kind \in {"started", "stopped", "failed", "ended"}
      <4>1. \A i \in Said : worker.replies[i] \in ReplySet
        BY <1>1, ElementOfSeq DEF Said
      <4> QED
        BY <4>1 DEF ReplySet
    <3>3. \A i \in Said : worker.replies[i].kind # "failed"
      BY <1>6 DEF Protocol, RepliesAreDue, Opened
    <3>4. \A i \in Said : FALSE
      BY <1>4, <3>2, <3>3
    <3> QED
      BY <1>1, <3>1, <3>4 DEF Said
  <2>4. EndIsLast'
    BY <1>2, <1>3, <2>1, <2>2 DEF Protocol, EndIsLast
  <2>5. OperationsMatch'
    BY <1>1, <1>2, <1>3, <1>6, <2>1, <2>2, <2>3 DEF OperationsMatch, Current, Asked
  <2>6. RepliesAreDue'
    BY <1>2, <2>3 DEF RepliesAreDue, Said
  <2>7. TransitionsEnd'
    BY <1>2, <1>6, <2>1, <2>2 DEF TransitionsEnd, IsAsked
  <2>8. WorkerMatches'
    BY <1>2, <2>3 DEF WorkerMatches
  <2> QED
    BY <2>4, <2>5, <2>6, <2>7, <2>8 DEF Protocol
<1>7. CASE /\ recorder.state = "active" /\ recorder'.state = "stopping"
           /\ Asks(Operation("stop", recorder.path, << >>))
  <2>1. /\ Len(Operations') = Len(Operations) + 1
        /\ \A i \in Asked : Operations'[i] = Operations[i]
        /\ Operations'[Len(Operations) + 1].op = "stop"
        /\ Operations'[Len(Operations) + 1].path = recorder.path
        /\ Operations'[Len(Operations) + 1].lines = << >>
    BY <1>7 DEF Asks, Operation
  <2>2. /\ Asked' = Asked \cup {Len(Operations) + 1}
        /\ Len(Operations) + 1 \notin Asked
    BY <1>1, <2>1 DEF Asked
  <2>3. Current' = Current /\ Opened /\ Opened'
    BY <1>2, <1>7 DEF Current, Opened
  <2>4. EndIsLast'
    BY <1>2, <1>3, <2>1, <2>2 DEF Protocol, EndIsLast
  <2>5. OperationsMatch'
    BY <1>1, <1>2, <1>3, <1>4, <1>5, <1>7, <2>1, <2>2
       DEF OperationsMatch, Current, Asked, IsSaid
  <2>6. RepliesAreDue'
    BY <1>2, <1>4, <1>5, <2>3 DEF Protocol, RepliesAreDue
  <2>7. TransitionsEnd'
    BY <1>2, <1>7, <2>1, <2>2 DEF TransitionsEnd, IsAsked
  <2>8. WorkerMatches'
    BY <1>2, <2>3 DEF Protocol, WorkerMatches
  <2> QED
    BY <2>4, <2>5, <2>6, <2>7, <2>8 DEF Protocol
<1> QED
  BY <1>2, <1>6, <1>7

LEMMA EndKeepsProtocol ==
    ASSUME RecorderTypeOK, RecorderTypeOK', Protocol, CallEnd
    PROVE  Protocol'
<1>1. /\ Operations \in Seq(Ops) /\ Operations' \in Seq(Ops)
      /\ Len(Operations) \in Nat /\ Len(Operations') \in Nat
  BY DEF RecorderTypeOK, Recorders, Operations
<1>2. /\ ~recorder.over /\ recorder'.over
      /\ UNCHANGED <<worker, files, active, recorder.state, recorder.id, recorder.path>>
  BY EndIs
<1>3. /\ Len(Operations') = Len(Operations) + 1
      /\ \A i \in Asked : Operations'[i] = Operations[i]
      /\ Operations'[Len(Operations) + 1].op = "end"
  BY EndIs DEF Asks, Operation
<1>4. /\ Asked' = Asked \cup {Len(Operations) + 1}
      /\ Len(Operations) + 1 \notin Asked /\ Operations' # << >>
  BY <1>1, <1>3 DEF Asked
<1>5. /\ Said' = Said /\ Current' = Current /\ Opened' = Opened
      /\ Acknowledged' = Acknowledged /\ \A kind : IsSaid(kind)' = IsSaid(kind)
  BY <1>2 DEF Said, IsSaid, Current, Opened, Acknowledged
<1>6. \A op : IsAsked(op) => IsAsked(op)'
  BY <1>3, <1>4 DEF IsAsked
<1>7. EndIsLast'
  BY <1>2, <1>3, <1>4 DEF Protocol, EndIsLast
<1>8. OperationsMatch'
  BY <1>2, <1>3, <1>4, <1>5 DEF Protocol, OperationsMatch
<1>9. RepliesAreDue'
  BY <1>2, <1>5 DEF Protocol, RepliesAreDue
<1>10. TransitionsEnd'
  BY <1>2, <1>5, <1>6 DEF Protocol, TransitionsEnd, Transitioning
<1>11. WorkerMatches'
  BY <1>2, <1>5 DEF Protocol, WorkerMatches
<1> QED
  BY <1>7, <1>8, <1>9, <1>10, <1>11 DEF Protocol

\* Every reply that arrives is one the recorder waits for.
LEMMA ReplyIsDue ==
    ASSUME RecorderTypeOK, Protocol, PollReply
    PROVE  LET reply == worker.replies[1] IN
           /\ reply.kind = "started" => recorder.state = "starting"
           /\ reply.kind = "stopped" => recorder.state = "stopping"
           /\ reply.kind = "failed" =>
                 recorder.state \in {"active", "stopping"} /\ reply.path = recorder.path
           /\ reply.kind = "ended" =>
                 /\ recorder.state \notin {"starting", "stopping"}
                 /\ Len(worker.replies) = 1
<1>1. /\ worker.replies \in Seq(ReplySet) /\ Len(worker.replies) \in Nat
      /\ worker.replies # << >> /\ 1 \in Said
  BY PollReplyIs DEF RecorderTypeOK, Workers, Said
<1>2. RepliesAreDue /\ TransitionsEnd /\ OperationsMatch /\ EndIsLast
  BY DEF Protocol
<1>3. /\ worker.replies[1].kind = "started" => recorder.state = "starting"
      /\ worker.replies[1].kind = "stopped" => recorder.state = "stopping"
  BY <1>1, <1>2 DEF RepliesAreDue
<1>4. ASSUME worker.replies[1].kind = "failed"
      PROVE  recorder.state \in {"active", "stopping"} /\ worker.replies[1].path = recorder.path
  BY <1>1, <1>2, <1>4 DEF RepliesAreDue, Opened, Acknowledged, Current
<1>5. ASSUME worker.replies[1].kind = "ended"
      PROVE  recorder.state \notin {"starting", "stopping"} /\ Len(worker.replies) = 1
  <2>1. worker.ended /\ Operations = << >> /\ Len(worker.replies) = 1
    BY <1>1, <1>2, <1>5 DEF RepliesAreDue, EndIsLast
  <2>2. \A op : ~IsAsked(op)
    BY <2>1 DEF IsAsked, Asked
  <2>3. ~Acknowledged /\ ~IsSaid("stopped")
    BY <1>5, <2>1 DEF Acknowledged, IsSaid, Said
  <2> QED
    BY <1>2, <2>1, <2>2, <2>3 DEF TransitionsEnd
<1> QED
  BY <1>3, <1>4, <1>5

\* What reply() leaves of the recorder, for a reply that is due.
LEMMA PollIs ==
    ASSUME RecorderTypeOK, Protocol, PollReply
    PROVE  LET reply == worker.replies[1] IN
           /\ UNCHANGED <<Operations, recorder.over>>
           /\ \/ /\ reply.kind = "started" /\ recorder.state = "starting" /\ reply.ok
                 /\ recorder' = Started(recorder)
                 /\ recorder'.state = "active" /\ recorder'.path = recorder.id
                 /\ recorder'.entries = recorder.entries /\ recorder'.lost = recorder.lost
              \/ /\ reply.kind = "started" /\ recorder.state = "starting" /\ ~reply.ok
                 /\ recorder'.state = "idle" /\ recorder'.path = recorder.path
                 /\ recorder'.entries = recorder.entries /\ recorder'.lost = recorder.lost
                 /\ recorder'.sections = recorder.sections
              \/ /\ reply.kind = "stopped" /\ recorder.state = "stopping"
                 /\ recorder' = Stopped(recorder, reply.ok)
                 /\ recorder'.state = "idle" /\ recorder'.path = recorder.path
                 /\ recorder'.entries = recorder.entries
                 /\ recorder'.lost = IF reply.ok THEN recorder.lost
                                     ELSE Append(recorder.lost, recorder.path)
              \/ /\ reply.kind = "failed" /\ recorder.state \in {"active", "stopping"}
                 /\ recorder'.state = IF recorder.state = "active" THEN "idle" ELSE recorder.state
                 /\ recorder'.path = recorder.path
                 /\ recorder'.entries = << >>
                 /\ recorder'.lost = Append(recorder.lost, recorder.path)
                 /\ recorder'.sections = recorder.sections
              \/ /\ reply.kind = "ended" /\ recorder.state \notin {"starting", "stopping"}
                 /\ Len(worker.replies) = 1 /\ recorder' = recorder
<1>. DEFINE reply == worker.replies[1]
<1>1. recorder \in Recorders /\ reply \in ReplySet /\ recorder' = Replied(recorder, reply)
  BY PollReplyIs DEF RecorderTypeOK
<1>2. /\ reply.kind = "started" => recorder.state = "starting"
      /\ reply.kind = "stopped" => recorder.state = "stopping"
      /\ reply.kind = "failed" =>
            recorder.state \in {"active", "stopping"} /\ reply.path = recorder.path
      /\ reply.kind = "ended" =>
            /\ recorder.state \notin {"starting", "stopping"}
            /\ Len(worker.replies) = 1
  BY ReplyIsDue
<1>. HIDE DEF reply
<1>3. CASE /\ reply.kind = "started" /\ recorder.state = "starting" /\ reply.ok
           /\ recorder' = Started(recorder)
  BY <1>1, <1>3 DEF Started, Recorders, Operations, reply
<1>4. CASE /\ reply.kind = "started" /\ recorder.state = "starting" /\ ~reply.ok
           /\ recorder' = [recorder EXCEPT !.state = "idle", !.id = 0]
  BY <1>1, <1>4 DEF Recorders, Operations, reply
<1>5. CASE /\ reply.kind = "stopped" /\ recorder.state = "stopping"
           /\ recorder' = Stopped(recorder, reply.ok)
  BY <1>1, <1>5 DEF Stopped, Recorders, Operations, reply
<1>6. CASE reply.kind = "failed" /\ recorder' = Failed(recorder, reply.path)
  BY <1>1, <1>2, <1>6 DEF Failed, Recorders, Operations, reply
<1>7. CASE reply.kind = "ended" /\ recorder' = recorder
  BY <1>2, <1>7 DEF Operations, reply
<1> QED
  BY <1>1, <1>2, <1>3, <1>4, <1>5, <1>6, <1>7, RepliedIs

LEMMA PollKeepsProtocol ==
    ASSUME RecorderTypeOK, RecorderTypeOK', Protocol, PollReply
    PROVE  Protocol'
<1>. DEFINE reply == worker.replies[1]
<1>1. /\ worker.replies \in Seq(ReplySet) /\ Len(worker.replies) \in Nat /\ 1 \in Said
      /\ worker.replies # << >> /\ reply \in ReplySet
      /\ worker'.replies \in Seq(ReplySet) /\ Len(worker'.replies) = Len(worker.replies) - 1
      /\ \A i \in Said' : i + 1 \in Said /\ worker'.replies[i] = worker.replies[i + 1]
      /\ worker'.active = worker.active /\ worker'.ended = worker.ended
      /\ UNCHANGED <<files, active, wire>>
  BY PollReplyIs DEF RecorderTypeOK, Workers, Said
<1>2. UNCHANGED <<Operations, recorder.over>> /\ Asked' = Asked /\ \A op : IsAsked(op)' = IsAsked(op)
  BY PollIs DEF Asked, IsAsked
<1>3. /\ \A i \in Said : i = 1 \/ (i - 1 \in Said' /\ worker'.replies[i - 1] = worker.replies[i])
      /\ worker'.replies # << >> => 1 \in Said'
      /\ Said = 1 .. Len(worker.replies) /\ Said' = 1 .. Len(worker.replies) - 1
  BY <1>1 DEF Said
<1>. HIDE DEF reply
<1>4. EndIsLast'
  BY <1>1, <1>2 DEF Protocol, EndIsLast
<1>14. RepliesAreDue
  BY DEF Protocol
<1>7. ASSUME NEW i \in Said' PROVE worker'.replies[i].kind # "started"
  <2>1. i + 1 \in Said /\ i + 1 # 1 /\ worker'.replies[i] = worker.replies[i + 1]
    BY <1>1, <1>3
  <2>2. worker.replies[i + 1].kind # "started"
    BY <1>14, <2>1 DEF RepliesAreDue
  <2> QED
    BY <2>1, <2>2
<1>5. ~Acknowledged'
  BY <1>3, <1>7 DEF Acknowledged
<1>6. ASSUME NEW i \in Said', worker'.replies[i].kind = "ended"
      PROVE  i = Len(worker'.replies) /\ worker'.ended
  <2>1. i + 1 \in Said /\ worker.replies[i + 1].kind = "ended" /\ i \in Int
    BY <1>1, <1>3, <1>6
  <2>2. i + 1 = Len(worker.replies) /\ worker.ended
    BY <1>14, <2>1 DEF RepliesAreDue
  <2> QED
    BY <1>1, <2>1, <2>2
<1>8. ASSUME NEW i \in Said', worker'.replies[i].kind = "stopped"
      PROVE  /\ recorder.state = "stopping" /\ worker'.active = 0
             /\ \A j \in Said' : i < j => worker'.replies[j].kind = "ended"
  <2>1. i + 1 \in Said /\ worker.replies[i + 1].kind = "stopped" /\ i \in Int
    BY <1>1, <1>3, <1>8
  <2>2. /\ recorder.state = "stopping" /\ worker.active = 0
        /\ \A j \in Said : i + 1 < j => worker.replies[j].kind = "ended"
    BY <1>14, <2>1 DEF RepliesAreDue
  <2>3. ASSUME NEW j \in Said', i < j PROVE worker'.replies[j].kind = "ended"
    <3>1. j + 1 \in Said /\ i + 1 < j + 1 /\ worker'.replies[j] = worker.replies[j + 1]
      BY <1>1, <1>3, <2>1, <2>3
    <3> QED
      BY <2>2, <3>1
  <2> QED
    BY <1>1, <2>2, <2>3
<1>15. ASSUME NEW i \in Said', worker'.replies[i].kind = "failed"
       PROVE  /\ Opened /\ worker'.active = 0 /\ worker'.replies[i].path = Current
              /\ \A j \in Said' : i < j => worker'.replies[j].kind \in {"stopped", "ended"}
  <2>1. /\ i + 1 \in Said /\ worker.replies[i + 1].kind = "failed" /\ i \in Int
        /\ worker'.replies[i] = worker.replies[i + 1]
    BY SMTT(30), <1>1, <1>3, <1>15
  <2>2. /\ Opened /\ worker.active = 0 /\ worker.replies[i + 1].path = Current
        /\ \A j \in Said : i + 1 < j => worker.replies[j].kind \in {"stopped", "ended"}
    BY <1>14, <2>1 DEF RepliesAreDue
  <2>3. ASSUME NEW j \in Said', i < j PROVE worker'.replies[j].kind \in {"stopped", "ended"}
    <3>1. j + 1 \in Said /\ i + 1 < j + 1 /\ worker'.replies[j] = worker.replies[j + 1]
      BY <1>1, <1>3, <2>1, <2>3
    <3> QED
      BY <2>2, <3>1
  <2> QED
    BY <1>1, <2>1, <2>2, <2>3
<1>16. /\ Acknowledged <=> reply.kind = "started"
       /\ reply.kind = "stopped" => IsSaid("stopped")
       /\ reply.kind = "stopped" =>
             worker.active = 0 /\ \A i \in Said' : worker'.replies[i].kind = "ended"
       /\ reply.kind = "failed" =>
             /\ Opened /\ worker.active = 0
             /\ \A i \in Said' : worker'.replies[i].kind \in {"stopped", "ended"}
       /\ reply.kind = "ended" => Len(worker.replies) = 1 /\ worker.ended
  <2>1. /\ reply.kind = "stopped" =>
              worker.active = 0 /\ \A j \in Said : 1 < j => worker.replies[j].kind = "ended"
        /\ reply.kind = "failed" =>
              /\ Opened /\ worker.active = 0
              /\ \A j \in Said : 1 < j => worker.replies[j].kind \in {"stopped", "ended"}
        /\ reply.kind = "ended" => Len(worker.replies) = 1 /\ worker.ended
    BY <1>1, <1>14 DEF RepliesAreDue, reply
  <2>2. ASSUME NEW i \in Said'
        PROVE  i + 1 \in Said /\ 1 < i + 1 /\ worker'.replies[i] = worker.replies[i + 1]
    BY <1>1, <1>3
  <2>3. (Acknowledged <=> reply.kind = "started") /\ (reply.kind = "stopped" => IsSaid("stopped"))
    BY <1>1 DEF Acknowledged, IsSaid, reply
  <2> QED
    BY <2>1, <2>2, <2>3
<1>9. CASE /\ reply.kind = "started" /\ recorder.state = "starting" /\ reply.ok
           /\ recorder'.state = "active" /\ recorder'.path = recorder.id
  <2>1. Opened /\ Opened' /\ Current' = Current
    BY <1>1, <1>9, <1>16 DEF Opened, Current, reply
  <2>2. \A i \in Asked : Operations[i].op \notin {"start", "stop"}
    BY <1>1, <1>9 DEF Protocol, OperationsMatch
  <2>3. OperationsMatch'
    BY <1>2, <2>2 DEF OperationsMatch
  <2>4. RepliesAreDue'
    BY <1>6, <1>7, <1>8, <1>9, <1>15, <2>1 DEF RepliesAreDue
  <2>5. TransitionsEnd'
    BY <1>9 DEF TransitionsEnd, Transitioning
  <2>6. WorkerMatches'
    BY <1>1, <2>1 DEF Protocol, WorkerMatches
  <2> QED
    BY <1>4, <2>3, <2>4, <2>5, <2>6 DEF Protocol
<1>10. CASE /\ reply.kind = "started" /\ recorder.state = "starting" /\ ~reply.ok
            /\ recorder'.state = "idle"
  <2>1. ~Opened /\ worker.active = 0
    BY <1>10 DEF Opened, Protocol, WorkerMatches, reply
  <2>2. \A i \in Asked : Operations[i].op \notin {"start", "stop"}
    BY <1>1, <1>10 DEF Protocol, OperationsMatch
  <2>3. OperationsMatch'
    BY <1>2, <2>2 DEF OperationsMatch
  <2>4. RepliesAreDue'
    BY <1>6, <1>7, <1>8, <1>10, <1>15, <2>1 DEF RepliesAreDue
  <2>5. TransitionsEnd'
    BY <1>10 DEF TransitionsEnd, Transitioning
  <2>6. WorkerMatches'
    BY <1>1, <2>1 DEF WorkerMatches
  <2> QED
    BY <1>4, <2>3, <2>4, <2>5, <2>6 DEF Protocol
<1>11. CASE /\ reply.kind = "stopped" /\ recorder.state = "stopping"
            /\ recorder'.state = "idle"
  <2>1. worker.active = 0 /\ \A i \in Said' : worker'.replies[i].kind = "ended"
    BY <1>11, <1>16
  <2>2. \A i \in Asked : Operations[i].op \notin {"start", "stop"}
    BY <1>1, <1>11, <1>16 DEF Protocol, OperationsMatch
  <2>3. OperationsMatch'
    BY <1>2, <2>2 DEF OperationsMatch
  <2>4. RepliesAreDue'
    BY <1>6, <2>1 DEF RepliesAreDue
  <2>5. TransitionsEnd'
    BY <1>11 DEF TransitionsEnd, Transitioning
  <2>6. WorkerMatches'
    BY <1>1, <2>1 DEF WorkerMatches
  <2> QED
    BY <1>4, <2>3, <2>4, <2>5, <2>6 DEF Protocol
<1>12. CASE /\ reply.kind = "failed" /\ recorder.state \in {"active", "stopping"}
            /\ recorder'.state = IF recorder.state = "active" THEN "idle" ELSE recorder.state
            /\ recorder'.path = recorder.path
  <2>1. /\ worker.active = 0
        /\ \A i \in Said' : worker'.replies[i].kind \in {"stopped", "ended"}
    BY <1>12, <1>16
  <2>2. IsSaid("stopped")' <=> IsSaid("stopped")
    <3>1. ASSUME NEW i \in Said', worker'.replies[i].kind = "stopped" PROVE IsSaid("stopped")
      BY <1>1, <3>1 DEF IsSaid
    <3>2. ASSUME NEW i \in Said, worker.replies[i].kind = "stopped"
          PROVE  \E k \in Said' : worker'.replies[k].kind = "stopped"
      <4>1. i # 1
        BY <1>12, <3>2 DEF reply
      <4> QED
        BY <1>3, <3>2, <4>1
    <3> QED
      BY <3>1, <3>2 DEF IsSaid
  <2>3. \A i \in Asked : /\ Operations[i].op # "start"
                         /\ Operations[i].op = "stop" => recorder.state = "stopping"
    BY <1>12 DEF Protocol, OperationsMatch
  <2>4. OperationsMatch'
    BY <1>2, <1>12, <2>2, <2>3 DEF Protocol, OperationsMatch, Current
  <2>5. RepliesAreDue'
    BY <1>6, <1>8, <1>12, <2>1 DEF RepliesAreDue
  <2>6. TransitionsEnd'
    BY <1>1, <1>2, <1>12, <2>2 DEF Protocol, TransitionsEnd, Transitioning
  <2>7. WorkerMatches'
    BY <1>1, <2>1 DEF WorkerMatches
  <2> QED
    BY <1>4, <2>4, <2>5, <2>6, <2>7 DEF Protocol
<1>13. CASE /\ reply.kind = "ended" /\ Len(worker.replies) = 1 /\ recorder' = recorder
            /\ recorder.state \notin {"starting", "stopping"}
  <2>1. worker'.replies = << >> /\ Said' = {} /\ worker.ended
    BY <1>1, <1>3, <1>13, <1>16
  <2>2. Operations = << >> /\ Asked' = {} /\ worker.active = 0
    BY <1>1, <1>2, <2>1 DEF Protocol, EndIsLast, WorkerMatches, Asked
  <2>3. OperationsMatch' /\ RepliesAreDue'
    BY <2>1, <2>2 DEF OperationsMatch, RepliesAreDue
  <2>4. TransitionsEnd'
    BY <1>13 DEF TransitionsEnd, Transitioning, Protocol
  <2>5. WorkerMatches'
    BY <1>1, <2>2 DEF WorkerMatches
  <2> QED
    BY <1>4, <2>3, <2>4, <2>5 DEF Protocol
<1> QED
  BY <1>9, <1>10, <1>11, <1>12, <1>13, PollIs DEF reply

\* What the worker's taking an operation leaves of the queue.
LEMMA TakenIs ==
    ASSUME RecorderTypeOK, Protocol, NEW op, Takes(op)
    PROVE  /\ Operations # << >> /\ 1 \in Asked /\ Operations[1].op = op /\ ~worker.ended
           /\ Len(Operations') = Len(Operations) - 1
           /\ Operations' = << >> <=> Len(Operations) = 1
           /\ \A i \in Asked' : /\ i + 1 \in Asked /\ 1 < i + 1
                                /\ Operations'[i] = Operations[i + 1]
           /\ \A i \in Asked : i = 1 \/ (i - 1 \in Asked' /\ Operations'[i - 1] = Operations[i])
           /\ UNCHANGED <<recorder.state, recorder.id, recorder.path, recorder.over, Current,
                          recorder.sections, recorder.lost, recorder.entries>>
           /\ Len(Operations) \in Nat /\ Operations[1] \in Ops
           /\ Asked' = 1 .. Len(Operations) - 1 /\ Asked = 1 .. Len(Operations)
<1>1. /\ recorder \in Recorders /\ recorder' \in Recorders /\ Operations \in Seq(Ops)
      /\ Operations # << >> /\ Operations[1].op = op /\ ~worker.ended
      /\ recorder' = [recorder EXCEPT !.operations = Tail(Operations)]
      /\ Operations' \in Seq(Ops) /\ Len(Operations') = Len(Operations) - 1
      /\ \A i \in 1 .. Len(Operations') : Operations'[i] = Operations[i + 1]
      /\ Operations[1] \in Ops
  BY TakesIs DEF RecorderTypeOK, Recorders, Operations
<1>2. Len(Operations) \in Nat /\ Len(Operations') \in Nat /\ Len(Operations) # 0
  BY <1>1
<1>3. /\ Asked' = 1 .. Len(Operations) - 1 /\ Asked = 1 .. Len(Operations)
      /\ Operations' = << >> <=> Len(Operations) = 1
  BY <1>1, <1>2 DEF Asked
<1>4. UNCHANGED <<recorder.state, recorder.id, recorder.path, recorder.over,
                  recorder.sections, recorder.lost, recorder.entries>>
  BY <1>1 DEF Recorders
<1>5. UNCHANGED Current
  BY <1>4 DEF Current
<1> QED
  BY <1>1, <1>2, <1>3, <1>4, <1>5

\* The queue behind the operation taken keeps its shape.
LEMMA QueueIs ==
    ASSUME RecorderTypeOK, RecorderTypeOK', Protocol, NEW op, Takes(op),
           op # "end", ~worker'.ended
    PROVE  /\ EndIsLast'
           /\ \A i \in Asked' :
                 Operations'[i].op \in {"start", "stop"} =>
                    /\ op = "append"
                    /\ \A j \in Asked' : i < j => Operations'[j].op = "end"
                    /\ Operations'[i].path = Current
                    /\ Operations'[i].lines = << >>
<1>1. /\ Operations # << >> /\ 1 \in Asked /\ Operations[1].op = op /\ ~worker.ended
      /\ Len(Operations') = Len(Operations) - 1
      /\ Operations' = << >> <=> Len(Operations) = 1
      /\ \A i \in Asked' : /\ i + 1 \in Asked /\ 1 < i + 1
                           /\ Operations'[i] = Operations[i + 1]
      /\ UNCHANGED recorder.over
      /\ Len(Operations) \in Nat /\ Operations[1] \in Ops
      /\ Asked' = 1 .. Len(Operations) - 1 /\ Asked = 1 .. Len(Operations)
  BY TakenIs
<1>2. EndIsLast'
  <2>1. ASSUME recorder'.over
        PROVE  Operations' # << >> /\ Operations'[Len(Operations')].op = "end"
    <3>1. Operations[Len(Operations)].op = "end"
      BY <1>1, <2>1 DEF Protocol, EndIsLast
    <3>2. Len(Operations) # 1
      BY <1>1, <3>1
    <3>3. Len(Operations') \in Asked' /\ Len(Operations') + 1 = Len(Operations)
      BY <1>1, <3>2
    <3> QED
      BY <1>1, <3>1, <3>2, <3>3
  <2>2. ASSUME NEW i \in Asked', Operations'[i].op = "end"
        PROVE  i = Len(Operations') /\ recorder'.over
    <3>1. i + 1 \in Asked /\ Operations[i + 1].op = "end" /\ i \in Int
      BY <1>1, <2>2
    <3>2. i + 1 = Len(Operations) /\ recorder.over
      BY <3>1 DEF Protocol, EndIsLast
    <3> QED
      BY <1>1, <3>1, <3>2
  <2> QED
    BY <2>1, <2>2 DEF EndIsLast
<1>3. ASSUME NEW i \in Asked', Operations'[i].op \in {"start", "stop"}
      PROVE  /\ op = "append"
             /\ \A j \in Asked' : i < j => Operations'[j].op = "end"
             /\ Operations'[i].path = Current
             /\ Operations'[i].lines = << >>
  <2>1. i + 1 \in Asked /\ Operations'[i] = Operations[i + 1] /\ 1 < i + 1 /\ i \in Int
    BY <1>1, <1>3
  <2>2. /\ \A j \in Asked : i + 1 < j => Operations[j].op = "end"
        /\ Operations[i + 1].path = Current
        /\ Operations[i + 1].lines = << >>
    BY <1>3, <2>1 DEF Protocol, OperationsMatch
  <2>3. op \notin {"start", "stop"}
    BY <1>1, <1>3, <2>1 DEF Protocol, OperationsMatch
  <2>4. ASSUME NEW j \in Asked', i < j PROVE Operations'[j].op = "end"
    <3>1. j + 1 \in Asked /\ i + 1 < j + 1 /\ Operations'[j] = Operations[j + 1]
      BY <1>1, <2>1, <2>4
    <3> QED
      BY <2>2, <3>1
  <2>5. op = "append"
    BY <1>1, <2>3 DEF Ops
  <2> QED
    BY <2>1, <2>2, <2>4, <2>5
<1> QED
  BY <1>2, <1>3

\* One more reply leaves the ones before it, and the answer to a start.
LEMMA SaysKeeps ==
    ASSUME RecorderTypeOK, NEW reply, Says(reply)
    PROVE  /\ Said = 1 .. Len(worker.replies) /\ Said' = 1 .. Len(worker.replies) + 1
           /\ Said' = Said \cup {Len(worker.replies) + 1} /\ Len(worker.replies) \in Nat
           /\ Len(worker'.replies) = Len(worker.replies) + 1
           /\ \A i \in Said : worker'.replies[i] = worker.replies[i]
           /\ worker'.replies[Len(worker.replies) + 1] = reply
           /\ Acknowledged => Acknowledged' /\ worker'.replies[1] = worker.replies[1]
           /\ worker'.replies # << >>
           /\ \A kind : IsSaid(kind)' <=> IsSaid(kind) \/ reply.kind = kind
<1>1. worker.replies \in Seq(ReplySet) /\ Len(worker.replies) \in Nat
  BY DEF RecorderTypeOK, Workers
<1>2. /\ Len(worker'.replies) = Len(worker.replies) + 1
      /\ \A i \in 1 .. Len(worker.replies) : worker'.replies[i] = worker.replies[i]
      /\ worker'.replies[Len(worker.replies) + 1] = reply
      /\ worker'.replies \in Seq(ReplySet)
  BY DEF Says
<1>3. /\ Said = 1 .. Len(worker.replies) /\ Said' = 1 .. Len(worker.replies) + 1
      /\ Said' = Said \cup {Len(worker.replies) + 1}
  BY <1>1, <1>2 DEF Said
<1>4. worker'.replies # << >> /\ (worker.replies # << >> => 1 \in Said)
  BY <1>1, <1>2, <1>3
<1>5. \A kind : IsSaid(kind)' <=> IsSaid(kind) \/ reply.kind = kind
  BY <1>1, <1>2, <1>3 DEF IsSaid
<1> QED
  BY <1>1, <1>2, <1>3, <1>4, <1>5 DEF Acknowledged

LEMMA StartKeepsProtocol ==
    ASSUME RecorderTypeOK, RecorderTypeOK', Protocol, WorkerStart, UNCHANGED baseVars
    PROVE  Protocol'
<1>. DEFINE path == Operations[1].path
<1>1. /\ Takes("start") /\ Operations[1].op = "start" /\ 1 \in Asked /\ Operations[1] \in Ops
      /\ UNCHANGED <<recorder.state, recorder.id, recorder.path, recorder.over, Current>>
      /\ \A i \in Asked' : Operations'[i] = Operations[i + 1] /\ i + 1 \in Asked /\ 1 < i + 1
  BY TakenIs DEF WorkerStart
<1>2. /\ worker.replies = << >> /\ worker.active = 0
      /\ recorder.state = "starting" /\ path = Current
      /\ \A j \in Asked : 1 < j => Operations[j].op = "end"
  BY <1>1 DEF Protocol, OperationsMatch
<1>3. /\ ~worker'.ended
      /\ \/ /\ AddsFile(path) /\ Says(Reply("started", path, TRUE))
            /\ worker'.active = Len(files) + 1
         \/ /\ Says(Reply("started", path, FALSE))
            /\ worker'.active = 0
  BY <1>2, WorkerStartIs
<1>4. EndIsLast'
  BY <1>1, <1>3, QueueIs
<1>5. OperationsMatch'
  BY <1>1, <1>2 DEF OperationsMatch
<1>6. /\ Acknowledged' /\ Said' = {1} /\ worker'.replies[1].kind = "started"
      /\ worker'.active # 0 => AddsFile(path) /\ worker'.replies[1].ok
                                /\ worker'.active = Len(files) + 1
  <2>1. /\ path \in Paths
        /\ Reply("started", path, TRUE).kind = "started" /\ Reply("started", path, TRUE).ok
        /\ Reply("started", path, FALSE).kind = "started"
    BY <1>1 DEF Ops, Reply
  <2>2. PICK reply : Says(reply) /\ reply.kind = "started"
                     /\ (worker'.active # 0 => AddsFile(path) /\ reply.ok
                                               /\ worker'.active = Len(files) + 1)
    BY <1>3, <2>1
  <2>3. Said' = 1 .. 1 /\ worker'.replies[1] = reply /\ worker'.replies # << >>
    BY <1>2, <2>2, SaysKeeps
  <2> QED
    BY <2>2, <2>3 DEF Acknowledged
<1>7. RepliesAreDue'
  BY <1>1, <1>2, <1>6 DEF RepliesAreDue
<1>8. TransitionsEnd'
  BY <1>1, <1>2, <1>6 DEF Protocol, TransitionsEnd, Transitioning, baseVars
<1>9. WorkerMatches'
  <2>1. ASSUME worker'.active # 0
        PROVE  files'[worker'.active].path = path /\ files'[worker'.active].footer = NoFooter
    BY <1>6, <2>1 DEF AddsFile, NewFile
  <2> QED
    BY <1>1, <1>2, <1>3, <1>6, <2>1 DEF WorkerMatches, Opened
<1> QED
  BY <1>4, <1>5, <1>7, <1>8, <1>9 DEF Protocol

\* While the worker has a file open, no failure and no end waits, nor a stop's answer.
LEMMA OpenSaid ==
    ASSUME RecorderTypeOK, Protocol, worker.active # 0
    PROVE  /\ \A i \in Said : worker.replies[i].kind = "started" /\ i = 1
           /\ Opened /\ ~worker.ended /\ files[worker.active].path = Current
           /\ files[worker.active].footer = NoFooter
<1>1. Opened /\ ~worker.ended /\ files[worker.active].path = Current
      /\ files[worker.active].footer = NoFooter
  BY DEF Protocol, WorkerMatches
<1>2. ASSUME NEW i \in Said PROVE worker.replies[i].kind = "started" /\ i = 1
  <2>1. worker.replies \in Seq(ReplySet)
    BY DEF RecorderTypeOK, Workers
  <2>2. worker.replies[i] \in ReplySet
    BY <2>1, ElementOfSeq DEF Said
  <2>3. worker.replies[i].kind \in {"started", "stopped", "failed", "ended"}
    BY <2>2 DEF ReplySet
  <2> QED
    BY <1>1, <2>3 DEF Protocol, RepliesAreDue
<1> QED
  BY <1>1, <1>2

LEMMA AppendKeepsProtocol ==
    ASSUME RecorderTypeOK, RecorderTypeOK', Protocol, WorkerAppend, UNCHANGED baseVars
    PROVE  Protocol'
<1>. DEFINE f     == worker.active
            lines == Operations[1].lines
<1>1. /\ Takes("append") /\ Operations[1].op = "append" /\ ~worker.ended
      /\ UNCHANGED <<recorder.state, recorder.id, recorder.path, recorder.over, Current>>
      /\ \A i \in Asked' : Operations'[i] = Operations[i + 1] /\ i + 1 \in Asked
      /\ \A i \in Asked : i = 1 \/ (i - 1 \in Asked' /\ Operations'[i - 1] = Operations[i])
  BY TakenIs DEF WorkerAppend
<1>2. /\ ~worker'.ended
      /\ \/ f = 0 /\ UNCHANGED <<worker, files>>
         \/ /\ f # 0 /\ OnlyFile(f, Written(files[f], lines))
            /\ worker'.active = f /\ worker'.replies = worker.replies
         \/ /\ f # 0 /\ worker'.active = 0
            /\ Says(Reply("failed", files[f].path, FALSE))
  BY WorkerAppendIs
<1>3. /\ EndIsLast'
      /\ \A i \in Asked' :
            Operations'[i].op \in {"start", "stop"} =>
               /\ \A j \in Asked' : i < j => Operations'[j].op = "end"
               /\ Operations'[i].path = Current
               /\ Operations'[i].lines = << >>
  BY <1>1, <1>2, QueueIs
<1>4. \A i \in Asked' :
        /\ Operations'[i].op = "start" =>
              recorder.state = "starting" /\ worker.replies = << >> /\ f = 0
        /\ Operations'[i].op = "stop" => recorder.state = "stopping" /\ ~IsSaid("stopped")
  BY <1>1 DEF Protocol, OperationsMatch
<1>5. \A op \in {"start", "stop"} : IsAsked(op) => IsAsked(op)'
  BY <1>1 DEF IsAsked
<1>6. CASE worker'.active = f /\ worker'.replies = worker.replies /\
           (f # 0 => /\ files'[f].path = files[f].path
                     /\ files'[f].footer = files[f].footer)
  <2>1. /\ Said' = Said /\ Opened' = Opened /\ Acknowledged' = Acknowledged
        /\ \A kind : IsSaid(kind)' = IsSaid(kind)
    BY <1>1, <1>6 DEF Said, IsSaid, Opened, Acknowledged
  <2>2. OperationsMatch'
    BY <1>1, <1>3, <1>4, <1>6, <2>1 DEF OperationsMatch
  <2>3. RepliesAreDue'
    BY <1>1, <1>2, <1>6, <2>1 DEF Protocol, RepliesAreDue
  <2>4. TransitionsEnd'
    BY <1>1, <1>5, <2>1 DEF Protocol, TransitionsEnd, Transitioning, baseVars
  <2>5. WorkerMatches'
    BY <1>1, <1>2, <1>6, <2>1 DEF Protocol, WorkerMatches
  <2> QED
    BY <1>3, <2>2, <2>3, <2>4, <2>5 DEF Protocol
<1>7. CASE f # 0 /\ worker'.active = 0 /\ Says(Reply("failed", files[f].path, FALSE))
  <2>. DEFINE reply == Reply("failed", files[f].path, FALSE)
  <2>1. /\ \A i \in Said : worker.replies[i].kind = "started" /\ i = 1
        /\ Opened /\ files[f].path = Current
    BY <1>7, OpenSaid
  <2>2. reply.kind = "failed" /\ reply.path = Current
    BY <2>1 DEF Reply
  <2>. HIDE DEF reply
  <2>3. /\ Said' = Said \cup {Len(worker.replies) + 1}
        /\ \A i \in Said : worker'.replies[i] = worker.replies[i]
        /\ worker'.replies[Len(worker.replies) + 1] = reply
        /\ Acknowledged => Acknowledged' /\ worker'.replies[1] = worker.replies[1]
        /\ \A kind : IsSaid(kind)' <=> IsSaid(kind) \/ reply.kind = kind
        /\ Len(worker.replies) \in Nat /\ Said = 1 .. Len(worker.replies)
    BY <1>7, SaysKeeps DEF reply
  <2>4. Opened'
    BY <1>1, <2>1, <2>3 DEF Opened
  <2>5. OperationsMatch'
    BY <1>1, <1>3, <1>4, <1>7, <2>2, <2>3 DEF OperationsMatch
  <2>6. RepliesAreDue'
    <3>1. ASSUME NEW i \in Said'
          PROVE  \/ /\ worker'.replies[i].kind = "started" /\ i = 1
                    /\ recorder.state = "starting"
                 \/ /\ worker'.replies[i].kind = "failed" /\ worker'.replies[i].path = Current
                    /\ \A j \in Said' : ~(i < j)
      <4>1. CASE i \in Said
        BY <2>1, <2>3, <4>1 DEF Protocol, RepliesAreDue
      <4>2. CASE i = Len(worker.replies) + 1
        BY <2>2, <2>3, <4>2
      <4> QED
        BY <2>3, <4>1, <4>2
    <3> QED
      BY <1>1, <1>7, <2>4, <3>1 DEF RepliesAreDue
  <2>7. TransitionsEnd'
    BY <1>1, <1>5, <2>3 DEF Protocol, TransitionsEnd, Transitioning, baseVars
  <2>8. WorkerMatches'
    BY <1>7 DEF WorkerMatches
  <2> QED
    BY <1>3, <2>5, <2>6, <2>7, <2>8 DEF Protocol
<1>8. ASSUME f # 0, OnlyFile(f, Written(files[f], lines))
      PROVE  files'[f].path = files[f].path /\ files'[f].footer = files[f].footer
  <2>1. f \in 1 .. Len(files) /\ files[f] \in FileSet /\ lines \in Seq(Entries)
    BY <1>1, <1>8, FileOf, TakenIs DEF Ops
  <2> QED
    BY <1>8, <2>1, WrittenType DEF OnlyFile
<1> QED
  BY <1>2, <1>6, <1>7, <1>8

LEMMA StopKeepsProtocol ==
    ASSUME RecorderTypeOK, RecorderTypeOK', Protocol, WorkerStop, UNCHANGED baseVars
    PROVE  Protocol'
<1>. DEFINE path == Operations[1].path
<1>1. /\ Takes("stop") /\ Operations[1].op = "stop" /\ 1 \in Asked
      /\ UNCHANGED <<recorder.state, recorder.id, recorder.path, recorder.over, Current>>
  BY TakenIs DEF WorkerStop
<1>2. /\ recorder.state = "stopping" /\ ~IsSaid("stopped") /\ path = Current
  BY <1>1 DEF Protocol, OperationsMatch
<1>3. /\ ~worker'.ended /\ worker'.active = 0
      /\ \E ok \in BOOLEAN : Says(Reply("stopped", path, ok))
  BY WorkerStopIs
<1>4. PICK reply : Says(reply) /\ reply.kind = "stopped"
  BY <1>3 DEF Reply
<1>5. /\ EndIsLast'
      /\ \A i \in Asked' : Operations'[i].op \notin {"start", "stop"}
  BY <1>1, <1>3, QueueIs
<1>6. /\ Said' = Said \cup {Len(worker.replies) + 1}
      /\ \A i \in Said : worker'.replies[i] = worker.replies[i]
      /\ worker'.replies[Len(worker.replies) + 1] = reply
      /\ Len(worker.replies) \in Nat /\ Said = 1 .. Len(worker.replies)
      /\ IsSaid("stopped")'
  BY <1>4, SaysKeeps
<1>7. Opened /\ Opened'
  BY <1>1, <1>2 DEF Opened
<1>8. OperationsMatch'
  BY <1>5 DEF OperationsMatch
<1>9. RepliesAreDue'
  <2>1. ASSUME NEW i \in Said'
        PROVE  \/ /\ worker'.replies[i].kind = "stopped"
                  /\ \A j \in Said' : ~(i < j)
               \/ /\ worker'.replies[i].kind = "failed" /\ worker'.replies[i].path = Current
                  /\ \A j \in Said' : i < j => worker'.replies[j].kind \in {"stopped", "ended"}
    <3>1. CASE i \in Said
      <4>1. worker.replies[i].kind \in {"started", "stopped", "failed", "ended"}
        <5>1. worker.replies \in Seq(ReplySet)
          BY DEF RecorderTypeOK, Workers
        <5>2. worker.replies[i] \in ReplySet
          BY <1>6, <3>1, <5>1, ElementOfSeq
        <5> QED
          BY <5>2 DEF ReplySet
      <4>2. worker.replies[i].kind \notin {"started", "stopped", "ended"}
        <5>1. ~worker.ended
          BY <1>1, TakenIs
        <5> QED
          BY <1>2, <3>1, <5>1 DEF Protocol, RepliesAreDue, IsSaid
      <4> QED
        BY <1>4, <1>6, <3>1, <4>1, <4>2 DEF Protocol, RepliesAreDue
    <3>2. CASE i = Len(worker.replies) + 1
      BY <1>4, <1>6, <3>2
    <3> QED
      BY <1>6, <3>1, <3>2
  <2> QED
    BY <1>1, <1>2, <1>3, <1>7, <2>1 DEF RepliesAreDue
<1>10. TransitionsEnd'
  BY <1>1, <1>2, <1>6 DEF Protocol, TransitionsEnd, Transitioning, baseVars
<1>11. WorkerMatches'
  BY <1>3 DEF WorkerMatches
<1> QED
  BY <1>5, <1>8, <1>9, <1>10, <1>11 DEF Protocol

\* Two more replies, a failure and the end.
LEMMA SaysAndEndsKeeps ==
    ASSUME RecorderTypeOK, NEW reply, SaysAndEnds(reply)
    PROVE  /\ Said = 1 .. Len(worker.replies) /\ Said' = 1 .. Len(worker.replies) + 2
           /\ Said' = Said \cup {Len(worker.replies) + 1, Len(worker.replies) + 2}
           /\ Len(worker.replies) \in Nat /\ Len(worker'.replies) = Len(worker.replies) + 2
           /\ \A i \in Said : worker'.replies[i] = worker.replies[i]
           /\ worker'.replies[Len(worker.replies) + 1] = reply
           /\ worker'.replies[Len(worker.replies) + 2].kind = "ended"
           /\ Acknowledged => Acknowledged' /\ worker'.replies[1] = worker.replies[1]
           /\ \A kind : IsSaid(kind) => IsSaid(kind)'
<1>1. worker.replies \in Seq(ReplySet) /\ Len(worker.replies) \in Nat
  BY DEF RecorderTypeOK, Workers
<1>2. /\ Len(worker'.replies) = Len(worker.replies) + 2
      /\ \A i \in 1 .. Len(worker.replies) : worker'.replies[i] = worker.replies[i]
      /\ worker'.replies[Len(worker.replies) + 1] = reply
      /\ worker'.replies[Len(worker.replies) + 2].kind = "ended"
      /\ worker'.replies \in Seq(ReplySet)
  BY DEF SaysAndEnds, Reply
<1>3. /\ Said = 1 .. Len(worker.replies) /\ Said' = 1 .. Len(worker.replies) + 2
      /\ Said' = Said \cup {Len(worker.replies) + 1, Len(worker.replies) + 2}
  BY <1>1, <1>2 DEF Said
<1>4. worker'.replies # << >> /\ (worker.replies # << >> => 1 \in Said)
  BY <1>1, <1>2, <1>3
<1>5. \A kind : IsSaid(kind) => IsSaid(kind)'
  BY <1>1, <1>2, <1>3 DEF IsSaid
<1> QED
  BY <1>1, <1>2, <1>3, <1>4, <1>5 DEF Acknowledged

LEMMA WorkerEndKeepsProtocol ==
    ASSUME RecorderTypeOK, RecorderTypeOK', Protocol, WorkerEnd, UNCHANGED baseVars
    PROVE  Protocol'
<1>. DEFINE f == worker.active
            failed == Reply("failed", files[f].path, FALSE)
<1>1. /\ Takes("end") /\ Operations[1].op = "end" /\ 1 \in Asked /\ ~worker.ended
      /\ UNCHANGED <<recorder.state, recorder.id, recorder.path, recorder.over, Current>>
      /\ Operations' = << >> <=> Len(Operations) = 1
      /\ Asked = 1 .. Len(Operations) /\ Asked' = 1 .. Len(Operations) - 1
  BY TakenIs DEF WorkerEnd
<1>2. Operations' = << >> /\ Asked' = {} /\ recorder.over /\ Asked = {1}
  <2>1. Len(Operations) = 1 /\ recorder.over
    BY <1>1 DEF Protocol, EndIsLast
  <2> QED
    BY <1>1, <2>1
<1>3. worker'.ended /\ worker'.active = 0
      /\ \/ f = 0 /\ Says(Reply("ended", 0, TRUE))
         \/ f # 0 /\ (Says(Reply("ended", 0, TRUE)) \/ SaysAndEnds(failed))
  BY WorkerEndIs
<1>4. /\ recorder.state = "starting" => Acknowledged
      /\ recorder.state = "stopping" => IsSaid("stopped")
  BY <1>1, <1>2 DEF Protocol, TransitionsEnd, IsAsked
<1>5. EndIsLast' /\ OperationsMatch' /\ WorkerMatches'
  BY <1>1, <1>2, <1>3 DEF EndIsLast, OperationsMatch, WorkerMatches
<1>6. CASE Says(Reply("ended", 0, TRUE))
  <2>1. PICK reply : Says(reply) /\ reply.kind = "ended"
    BY <1>6 DEF Reply
  <2>2. /\ Said' = Said \cup {Len(worker.replies) + 1}
        /\ \A i \in Said : worker'.replies[i] = worker.replies[i]
        /\ worker'.replies[Len(worker.replies) + 1] = reply
        /\ Len(worker.replies) \in Nat /\ Said = 1 .. Len(worker.replies)
        /\ Len(worker'.replies) = Len(worker.replies) + 1
        /\ \A kind : IsSaid(kind) => IsSaid(kind)'
        /\ Acknowledged => Acknowledged' /\ worker'.replies[1] = worker.replies[1]
    BY <2>1, SaysKeeps
  <2>3. Opened => Opened'
    BY <1>1, <2>2 DEF Opened
  <2>4. RepliesAreDue'
    <3>1. ASSUME NEW i \in Said
          PROVE  /\ worker.replies[i].kind = "started" => i = 1 /\ recorder.state = "starting"
                 /\ worker.replies[i].kind = "stopped" =>
                       /\ recorder.state = "stopping"
                       /\ \A j \in Said : i < j => worker.replies[j].kind = "ended"
                 /\ worker.replies[i].kind = "failed" =>
                       /\ Opened /\ worker.replies[i].path = Current
                       /\ \A j \in Said : i < j => worker.replies[j].kind \in {"stopped", "ended"}
                 /\ worker.replies[i].kind # "ended"
      BY <1>1 DEF Protocol, RepliesAreDue
    <3>2. ASSUME NEW i \in Said'
          PROVE  /\ worker'.replies[i].kind = "started" => i = 1 /\ recorder.state = "starting"
                 /\ worker'.replies[i].kind = "stopped" =>
                       /\ recorder.state = "stopping"
                       /\ \A j \in Said' : i < j => worker'.replies[j].kind = "ended"
                 /\ worker'.replies[i].kind = "failed" =>
                       /\ Opened /\ worker'.replies[i].path = Current
                       /\ \A j \in Said' : i < j =>
                             worker'.replies[j].kind \in {"stopped", "ended"}
                 /\ worker'.replies[i].kind = "ended" => i = Len(worker'.replies)
      <4>1. CASE i \in Said
        BY SMTT(30), <2>1, <2>2, <3>1, <4>1
      <4>2. CASE i = Len(worker.replies) + 1
        BY <2>1, <2>2, <4>2
      <4> QED
        BY <2>2, <4>1, <4>2
    <3> QED
      BY <1>1, <1>3, <2>3, <3>2 DEF RepliesAreDue
  <2>5. TransitionsEnd'
    BY <1>1, <1>4, <2>2 DEF Protocol, TransitionsEnd, Transitioning, baseVars
  <2> QED
    BY <1>5, <2>4, <2>5 DEF Protocol
<1>7. CASE f # 0 /\ SaysAndEnds(failed)
  <2>1. /\ \A i \in Said : worker.replies[i].kind = "started" /\ i = 1
        /\ Opened /\ files[f].path = Current
    BY <1>7, OpenSaid
  <2>2. failed.kind = "failed" /\ failed.path = Current
    BY <2>1 DEF Reply
  <2>. HIDE DEF failed
  <2>3. /\ Said' = Said \cup {Len(worker.replies) + 1, Len(worker.replies) + 2}
        /\ \A i \in Said : worker'.replies[i] = worker.replies[i]
        /\ worker'.replies[Len(worker.replies) + 1] = failed
        /\ worker'.replies[Len(worker.replies) + 2].kind = "ended"
        /\ Len(worker.replies) \in Nat /\ Said = 1 .. Len(worker.replies)
        /\ Len(worker'.replies) = Len(worker.replies) + 2
        /\ \A kind : IsSaid(kind) => IsSaid(kind)'
        /\ Acknowledged => Acknowledged' /\ worker'.replies[1] = worker.replies[1]
    BY <1>7, SaysAndEndsKeeps
  <2>4. Opened'
    BY <1>1, <2>1, <2>3 DEF Opened
  <2>5. RepliesAreDue'
    <3>1. ASSUME NEW i \in Said
          PROVE  /\ worker'.replies[i].kind = "started" /\ i = 1
                 /\ recorder.state = "starting"
      BY <2>1, <2>3 DEF Protocol, RepliesAreDue
    <3>2. \A j \in Said' : Len(worker.replies) + 1 < j => worker'.replies[j].kind = "ended"
      BY <2>3
    <3> QED
      BY <1>1, <1>3, <2>2, <2>3, <2>4, <3>1, <3>2 DEF RepliesAreDue
  <2>6. TransitionsEnd'
    BY <1>1, <1>4, <2>3 DEF Protocol, TransitionsEnd, Transitioning, baseVars
  <2> QED
    BY <1>5, <2>5, <2>6 DEF Protocol
<1> QED
  BY <1>3, <1>6, <1>7

-----------------------------------------------------------------------------
(* Protocol holds *)

LEMMA ProtocolInit == RecorderInit => Protocol
<1>. SUFFICES ASSUME RecorderInit PROVE Protocol
  OBVIOUS
<1>1. /\ Operations = << >> /\ worker.replies = << >> /\ worker.active = 0
      /\ ~worker.ended /\ ~recorder.over /\ recorder.state = "idle"
      /\ Asked = {} /\ Said = {}
  BY DEF RecorderInit, NewRecorder, NewWorker, Operations, Asked, Said
<1> QED
  BY <1>1 DEF Protocol, EndIsLast, OperationsMatch, RepliesAreDue, TransitionsEnd,
              WorkerMatches, Transitioning

LEMMA ProtocolStep ==
    RecorderTypeOK /\ Protocol /\ [RecorderNext]_<<recorderVars, baseVars>> => Protocol'
<1>. SUFFICES ASSUME RecorderTypeOK, Protocol, [RecorderNext]_<<recorderVars, baseVars>>
              PROVE  Protocol'
  OBVIOUS
<1>1. RecorderTypeOK'
  BY RecorderTypeStep
<1>2. ASSUME NEW id \in NormalIds, NEW kind \in RecordKinds, NEW pending \in BOOLEAN,
             CallControl(id, kind, pending)
      PROVE  Protocol'
  BY <1>1, <1>2, ControlKeepsProtocol
<1>3. ASSUME NEW id \in Ids,
             \/ CallSend(id, KindOnWire(id))
             \/ CallSendFailed(id, KindOnWire(id))
             \/ \E outcome \in Answers : CallTerminal(id, outcome)
      PROVE  Protocol'
  <2>1. TransitionsEnd
    BY DEF Protocol
  <2>2. SameCourse
    BY <1>3, <2>1, SendIs, SendFailedIs, CallTerminalIs
  <2> QED
    BY <1>1, <2>2, CourseKeepsProtocol
<1>4. CASE PollReply
  BY <1>1, <1>4, PollKeepsProtocol
<1>5. CASE CallEnd
  BY <1>1, <1>5, EndKeepsProtocol
<1>6. CASE Work /\ UNCHANGED baseVars
  BY <1>1, <1>6, StartKeepsProtocol, AppendKeepsProtocol, StopKeepsProtocol,
     WorkerEndKeepsProtocol DEF Work
<1>7. CASE UNCHANGED <<recorderVars, baseVars>>
  <2>1. UNCHANGED <<recorder, worker, files, active, wire>>
    BY <1>7 DEF recorderVars, baseVars
  <2> QED
    BY <2>1 DEF Protocol, EndIsLast, OperationsMatch, RepliesAreDue, TransitionsEnd,
                WorkerMatches, Transitioning, Asked, Said, IsSaid, IsAsked, Current,
                Acknowledged, Opened, Operations
<1> QED
  BY <1>2, <1>3, <1>4, <1>5, <1>6, <1>7 DEF RecorderNext

LEMMA ProtocolHolds == RecorderSpec => [](RecorderTypeOK /\ Protocol)
<1>1. RecorderInit => RecorderTypeOK /\ Protocol
  BY RecorderTypeInit, ProtocolInit
<1>2. RecorderTypeOK /\ Protocol /\ [RecorderNext]_<<recorderVars, baseVars>>
        => RecorderTypeOK' /\ Protocol'
  BY RecorderTypeStep, ProtocolStep
<1> QED
  BY <1>1, <1>2, PTL DEF RecorderSpec

(***************************************************************************)
(* Every reply of the worker finds the transition it belongs to: the two   *)
(* unreachable!() of Recorder::reply() are unreachable, however many       *)
(* recordings a session makes, whatever operations of the disk fail and    *)
(* however long replies stay in the channel.                               *)
(***************************************************************************)
THEOREM NoReplyPanics == RecorderSpec => []RepliesMatch
<1>1. Protocol => RepliesMatch
  BY DEF Protocol, TransitionsEnd, RepliesMatch
<1> QED
  BY <1>1, ProtocolHolds, PTL

(***************************************************************************)
(* A late failure takes down only the recording whose file it belongs to:  *)
(* when RecordingFailed ends an active recording, the path it reports is   *)
(* the one the recorder is recording to, though the recorder learns of the *)
(* failure any number of calls after the worker met it.                    *)
(***************************************************************************)
THEOREM LateFailureHitsItsRecording == RecorderSpec => FailureHitsItsRecording
<1>1. ASSUME RecorderTypeOK, Protocol, [RecorderNext]_<<recorderVars, baseVars>>,
             recorder.state = "active", recorder'.state = "idle"
      PROVE  recorder'.lost = Append(recorder.lost, recorder.path)
  <2>1. TransitionsEnd
    BY <1>1 DEF Protocol
  <2>2. ASSUME NEW id \in NormalIds, NEW kind \in RecordKinds, NEW pending \in BOOLEAN,
               CallControl(id, kind, pending)
        PROVE  FALSE
    BY <1>1, <2>2, ControlIs
  <2>3. ASSUME NEW id \in Ids,
               \/ CallSend(id, KindOnWire(id))
               \/ CallSendFailed(id, KindOnWire(id))
               \/ \E outcome \in Answers : CallTerminal(id, outcome)
        PROVE  FALSE
    <3>1. SameCourse
      BY <1>1, <2>1, <2>3, SendIs, SendFailedIs, CallTerminalIs
    <3> QED
      BY <1>1, <3>1 DEF SameCourse
  <2>4. CASE PollReply
    BY <1>1, <2>4, PollIs
  <2>5. CASE CallEnd
    BY <1>1, <2>5, EndIs
  <2>6. CASE Work /\ UNCHANGED baseVars
    BY <1>1, <2>6, TakenIs DEF Work, WorkerStart, WorkerAppend, WorkerStop, WorkerEnd
  <2>7. CASE UNCHANGED <<recorderVars, baseVars>>
    BY <1>1, <2>7 DEF recorderVars
  <2> QED
    BY <1>1, <2>2, <2>3, <2>4, <2>5, <2>6, <2>7 DEF RecorderNext
<1>2. RecorderTypeOK /\ Protocol /\ [RecorderNext]_<<recorderVars, baseVars>>
        => [(recorder.state = "active" /\ recorder'.state = "idle")
              => recorder'.lost = Append(recorder.lost, recorder.path)]_recorder
  BY <1>1
<1> QED
  BY <1>2, ProtocolHolds, PTL DEF RecorderSpec, FailureHitsItsRecording

-----------------------------------------------------------------------------
(***************************************************************************)
(* No recording is lost silently.  Until a recording has its footer or was *)
(* reported, it is the last one, and the worker still has its file open or *)
(* has sent the failure that the recorder will report.                     *)
(***************************************************************************)

\* A file of that path has its footer; that path was reported.
Whole(path) == \E f \in 1 .. Len(files) : files[f].path = path /\ files[f].footer # NoFooter
Reported(path)  == \E i \in 1 .. Len(recorder.lost) : recorder.lost[i] = path

\* The footer, or the news that there is none, is still to come.
Underway == \/ worker.active # 0
            \/ IsSaid("failed")
            \/ \E i \in Said : worker.replies[i].kind = "stopped" /\ ~worker.replies[i].ok

\* That recording has its footer or was reported.
Settles(s) == Whole(recorder.sections[s].start) \/ Reported(recorder.sections[s].start)

Recording == recorder.state \in {"active", "stopping"}

Accounted ==
    /\ Recording => /\ recorder.sections # << >>
                  /\ recorder.sections[Len(recorder.sections)].start = recorder.path
    /\ recorder.state = "starting" /\ Opened => Whole(recorder.id) \/ Underway
    /\ \A s \in 1 .. Len(recorder.sections) :
          Settles(s) \/ (s = Len(recorder.sections) /\ Recording /\ Underway)

\* A step of the worker on a file keeps the footers there are.
LEMMA FootersStay ==
    ASSUME RecorderTypeOK,
           \/ UNCHANGED files
           \/ \E path : AddsFile(path)
           \/ /\ worker.active # 0
              /\ \E file : /\ OnlyFile(worker.active, file)
                           /\ file.path = files[worker.active].path
                           /\ \/ file.footer = files[worker.active].footer
                              \/ file.footer # NoFooter
    PROVE  \A path : Whole(path) => Whole(path)'
<1>. SUFFICES ASSUME NEW path, NEW f \in 1 .. Len(files),
                     files[f].path = path, files[f].footer # NoFooter
              PROVE  \E g \in 1 .. Len(files') : files'[g].path = path /\ files'[g].footer # NoFooter
  BY DEF Whole
<1>1. Len(files) \in Nat
  BY DEF RecorderTypeOK
<1>2. f \in 1 .. Len(files') /\ files'[f].path = path /\ files'[f].footer # NoFooter
  <2>1. CASE UNCHANGED files
    BY <2>1
  <2>2. CASE \E p : AddsFile(p)
    BY <1>1, <2>2 DEF AddsFile
  <2>3. CASE /\ worker.active # 0
             /\ \E file : /\ OnlyFile(worker.active, file)
                          /\ file.path = files[worker.active].path
                          /\ \/ file.footer = files[worker.active].footer
                             \/ file.footer # NoFooter
    BY <2>3 DEF OnlyFile
  <2> QED
    BY <2>1, <2>2, <2>3
<1> QED
  BY <1>2

\* A reported path stays reported.
LEMMA ToldStays ==
    ASSUME RecorderTypeOK, NEW path \in Paths, recorder'.lost = Append(recorder.lost, path)
    PROVE  Reported(path)' /\ \A p : Reported(p) => Reported(p)'
<1>1. recorder.lost \in Seq(Paths) /\ Len(recorder.lost) \in Nat
  BY DEF RecorderTypeOK, Recorders
<1>2. /\ Len(recorder'.lost) = Len(recorder.lost) + 1
      /\ \A i \in 1 .. Len(recorder.lost) : recorder'.lost[i] = recorder.lost[i]
      /\ recorder'.lost[Len(recorder.lost) + 1] = path
  BY <1>1, AppendProperties
<1> QED
  BY <1>1, <1>2 DEF Reported

LEMMA CourseKeepsAccounted ==
    ASSUME RecorderTypeOK, Accounted, SameCourse
    PROVE  Accounted'
<1>1. /\ UNCHANGED <<worker, files, recorder.state, recorder.id, recorder.path, recorder.lost>>
      /\ Len(recorder'.sections) = Len(recorder.sections)
      /\ \A s \in 1 .. Len(recorder.sections) :
            recorder'.sections[s].start = recorder.sections[s].start
      /\ recorder.sections \in Seq(Sections) /\ Len(recorder.sections) \in Nat
  BY DEF SameCourse, SameSections, RecorderTypeOK, Recorders
<1>2. /\ Recording' = Recording /\ Opened' = Opened /\ Underway' = Underway
      /\ \A path : Whole(path)' = Whole(path) /\ Reported(path)' = Reported(path)
  BY <1>1 DEF Recording, Opened, Acknowledged, Underway, IsSaid, Said, Whole, Reported
<1>4. \A s \in 1 .. Len(recorder.sections) : Settles(s)' = Settles(s)
  BY <1>1, <1>2 DEF Settles
<1>3. Recording => /\ recorder'.sections # << >>
                 /\ recorder'.sections[Len(recorder'.sections)].start = recorder'.path
  <2>1. SUFFICES ASSUME Recording
                 PROVE  /\ recorder'.sections # << >>
                        /\ recorder'.sections[Len(recorder'.sections)].start = recorder'.path
    OBVIOUS
  <2>2. recorder.sections # << >> /\ Len(recorder.sections) \in 1 .. Len(recorder.sections)
    BY <1>1, <2>1 DEF Accounted
  <2>3. Len(recorder'.sections) # 0
    BY <1>1, <2>2
  <2> QED
    BY <1>1, <2>1, <2>2, <2>3 DEF Accounted
<1> QED
  BY <1>1, <1>2, <1>3, <1>4 DEF Accounted

LEMMA ControlKeepsAccounted ==
    ASSUME RecorderTypeOK, RecorderTypeOK', Protocol', Accounted,
           NEW id \in NormalIds, NEW kind \in RecordKinds, NEW pending \in BOOLEAN,
           CallControl(id, kind, pending)
    PROVE  Accounted'
<1>1. /\ UNCHANGED <<worker, files, recorder.path, recorder.lost, recorder.sections>>
      /\ \/ /\ recorder.state = "idle" /\ recorder'.state = "starting"
            /\ Asks(Operation("start", id, << >>))
         \/ recorder.state = "active" /\ recorder'.state = "stopping"
  BY ControlIs
<1>2. /\ Underway' = Underway
      /\ \A s : Settles(s)' = Settles(s)
      /\ Whole(recorder.path)' = Whole(recorder.path)
  BY <1>1 DEF Underway, IsSaid, Said, Settles, Whole, Reported
<1>3. CASE /\ recorder.state = "idle" /\ recorder'.state = "starting"
           /\ Asks(Operation("start", id, << >>))
  <2>1. Len(Operations) \in Nat
    BY DEF RecorderTypeOK, Recorders, Operations
  <2>2. IsAsked("start")'
    BY <1>3, <2>1 DEF IsAsked, Asks, Asked, Operation
  <2>3. worker'.replies = << >>
    BY <2>2 DEF Protocol, OperationsMatch, IsAsked
  <2>4. ~Recording /\ ~Recording' /\ ~Opened'
    BY <1>3, <2>3 DEF Recording, Opened, Acknowledged
  <2> QED
    BY <1>1, <1>2, <1>3, <2>4 DEF Accounted
<1>4. CASE recorder.state = "active" /\ recorder'.state = "stopping"
  <2>1. Recording /\ Recording'
    BY <1>4 DEF Recording
  <2> QED
    BY <1>1, <1>2, <1>4, <2>1 DEF Accounted
<1> QED
  BY <1>1, <1>3, <1>4

LEMMA PollKeepsAccounted ==
    ASSUME RecorderTypeOK, RecorderTypeOK', Protocol, Accounted, PollReply
    PROVE  Accounted'
<1>. DEFINE reply == worker.replies[1]
<1>a. /\ worker.replies # << >>
      /\ Len(worker'.replies) = Len(worker.replies) - 1
      /\ \A i \in 1 .. Len(worker'.replies) : worker'.replies[i] = worker.replies[i + 1]
      /\ worker'.active = worker.active /\ UNCHANGED files
  BY PollReplyIs
<1>b. worker.replies \in Seq(ReplySet)
  BY DEF RecorderTypeOK, Workers
<1>0. /\ worker.replies \in Seq(ReplySet) /\ Len(worker.replies) \in Nat /\ 1 \in Said
      /\ Len(worker'.replies) = Len(worker.replies) - 1
      /\ \A i \in 1 .. Len(worker'.replies) : worker'.replies[i] = worker.replies[i + 1]
      /\ worker'.active = worker.active /\ UNCHANGED files
  BY <1>a, <1>b DEF Said
<1>10. /\ \A i \in Said' : i + 1 \in Said /\ worker'.replies[i] = worker.replies[i + 1]
       /\ \A i \in Said : i = 1 \/ (i - 1 \in Said' /\ worker'.replies[i - 1] = worker.replies[i])
  BY <1>0 DEF Said
<1>1. /\ worker.replies \in Seq(ReplySet) /\ Len(worker.replies) \in Nat /\ 1 \in Said
      /\ Len(worker'.replies) = Len(worker.replies) - 1
      /\ \A i \in Said' : i + 1 \in Said /\ worker'.replies[i] = worker.replies[i + 1]
      /\ \A i \in Said : i = 1 \/ (i - 1 \in Said' /\ worker'.replies[i - 1] = worker.replies[i])
      /\ worker'.active = worker.active /\ UNCHANGED files
  BY <1>0, <1>10
<1>9. /\ recorder.sections \in Seq(Sections) /\ Len(recorder.sections) \in Nat
      /\ recorder.id \in Paths /\ recorder.path \in Paths
  BY DEF RecorderTypeOK, Recorders
<1>2. \A path : Whole(path)' = Whole(path)
  BY <1>1 DEF Whole
<1>3. RepliesAreDue
  BY DEF Protocol
<1>4. CASE /\ reply.kind = "started" /\ recorder.state = "starting" /\ reply.ok
           /\ recorder' = Started(recorder)
           /\ recorder'.state = "active" /\ recorder'.path = recorder.id
           /\ recorder'.lost = recorder.lost
  <2>. DEFINE section == [start |-> recorder.id, stop |-> 0, sent |-> << >>]
  <2>1. Opened /\ ~Recording /\ Recording'
    BY <1>1, <1>4 DEF Opened, Acknowledged, Recording
  <2>2. Underway => Underway'
    <3>1. \A i \in Said : worker.replies[i].kind \in {"failed", "stopped"} =>
             i - 1 \in Said' /\ worker'.replies[i - 1] = worker.replies[i]
      BY <1>1, <1>4
    <3>2. CASE worker.active # 0
      BY <1>1, <3>2 DEF Underway
    <3>3. CASE IsSaid("failed")
      BY <3>1, <3>3 DEF Underway, IsSaid
    <3>4. CASE \E i \in Said : worker.replies[i].kind = "stopped" /\ ~worker.replies[i].ok
      BY <3>1, <3>4 DEF Underway
    <3> QED
      BY <3>2, <3>3, <3>4 DEF Underway
  <2>3. section \in Sections
    BY <1>9, LastIdAssumption DEF Sections, Paths
  <2>4. recorder'.sections = Append(recorder.sections, section)
    BY <1>4 DEF Started, RecorderTypeOK, Recorders
  <2>. HIDE DEF section
  <2>5. /\ Len(recorder'.sections) = Len(recorder.sections) + 1
        /\ \A s \in 1 .. Len(recorder.sections) : recorder'.sections[s] = recorder.sections[s]
        /\ recorder'.sections[Len(recorder.sections) + 1] = section
        /\ recorder'.sections # << >>
    BY <1>9, <2>3, <2>4, AppendProperties
  <2>6. section.start = recorder.id
    BY DEF section
  <2>7. \A path : Reported(path) => Reported(path)'
    BY <1>4 DEF Reported
  <2>8. Whole(recorder.id) \/ Underway
    BY <1>4, <2>1 DEF Accounted
  <2>9. ASSUME NEW s \in 1 .. Len(recorder'.sections)
        PROVE  Settles(s)' \/ (s = Len(recorder'.sections) /\ Underway')
    <3>1. CASE s \in 1 .. Len(recorder.sections)
      <4>1. Settles(s) /\ recorder'.sections[s] = recorder.sections[s]
        BY <2>1, <2>5, <3>1 DEF Accounted
      <4> QED
        BY <1>2, <2>7, <4>1 DEF Settles
    <3>2. CASE s = Len(recorder.sections) + 1
      <4>1. recorder'.sections[s].start = recorder.id
        BY <2>5, <2>6, <3>2
      <4> QED
        BY <1>2, <2>2, <2>5, <2>8, <3>2, <4>1 DEF Settles
    <3> QED
      BY <1>9, <2>5, <3>1, <3>2
  <2>10. /\ recorder'.sections[Len(recorder'.sections)].start = recorder'.path
         /\ ~(recorder'.state = "starting")
    BY <1>4, <2>5, <2>6
  <2> QED
    BY <2>1, <2>5, <2>9, <2>10 DEF Accounted
<1>5. CASE /\ reply.kind = "started" /\ recorder.state = "starting"
           /\ recorder'.state = "idle" /\ recorder'.lost = recorder.lost
           /\ recorder'.sections = recorder.sections
  <2>1. ~Recording /\ ~Recording' /\ \A s : Settles(s)' = Settles(s)
    <3>1. \A path : Reported(path)' = Reported(path)
      BY <1>5 DEF Reported
    <3> QED
      BY <1>2, <1>5, <3>1 DEF Recording, Settles
  <2> QED
    BY <1>2, <1>5, <2>1 DEF Accounted
<1>6. CASE /\ reply.kind = "stopped" /\ recorder.state = "stopping"
           /\ recorder' = Stopped(recorder, reply.ok)
           /\ recorder'.state = "idle"
           /\ recorder'.lost = IF reply.ok THEN recorder.lost
                               ELSE Append(recorder.lost, recorder.path)
  <2>. DEFINE last == Len(recorder.sections)
              section == [recorder.sections[last] EXCEPT !.stop = recorder.id]
  <2>1. Recording /\ ~Recording'
    BY <1>6 DEF Recording
  <2>2. last \in 1 .. last /\ recorder.sections[last] \in Sections
        /\ recorder.sections[last].start = recorder.path
    BY <1>9, <2>1 DEF Accounted
  <2>3. section \in Sections /\ section.start = recorder.sections[last].start
    BY <1>9, <2>2 DEF Sections
  <2>4. recorder'.sections = [recorder.sections EXCEPT ![last] = section]
    BY <1>6 DEF Stopped, RecorderTypeOK, Recorders
  <2>. HIDE DEF section
  <2>5. /\ Len(recorder'.sections) = last
        /\ \A s \in 1 .. last : recorder'.sections[s].start = recorder.sections[s].start
    BY <1>9, <2>2, <2>3, <2>4, ExceptSeq
  <2>6. Underway => ~reply.ok
    <3>1. worker.active = 0 /\ \A i \in Said : 1 < i => worker.replies[i].kind = "ended"
      BY <1>1, <1>3, <1>6 DEF RepliesAreDue
    <3> QED
      BY <1>1, <1>6, <3>1 DEF Underway, IsSaid, Said
  <2>7. /\ \A path : Reported(path) => Reported(path)'
        /\ ~reply.ok => \A path : path = recorder.path => Reported(path)'
    <3>1. CASE reply.ok
      BY <1>6, <3>1 DEF Reported
    <3>2. CASE ~reply.ok
      BY <1>6, <1>9, <3>2, ToldStays
    <3> QED
      BY <3>1, <3>2
  <2>8. ASSUME NEW s \in 1 .. last PROVE Settles(s)'
    <3>1. CASE Settles(s)
      BY <1>2, <2>5, <2>7, <3>1 DEF Settles
    <3>2. CASE s = last /\ Underway
      BY <2>2, <2>5, <2>6, <2>7, <3>2 DEF Settles
    <3> QED
      BY <3>1, <3>2 DEF Accounted
  <2> QED
    BY <1>6, <2>1, <2>5, <2>8 DEF Accounted
<1>7. CASE /\ reply.kind = "failed" /\ recorder.state \in {"active", "stopping"}
           /\ recorder'.state = IF recorder.state = "active" THEN "idle" ELSE recorder.state
           /\ recorder'.path = recorder.path
           /\ recorder'.lost = Append(recorder.lost, recorder.path)
           /\ recorder'.sections = recorder.sections
  <2>1. /\ \A path : path = recorder.path => Reported(path)'
        /\ \A path : Reported(path) => Reported(path)'
    BY <1>7, <1>9, ToldStays
  <2>2. Recording
    BY <1>7 DEF Recording
  <2>3. recorder.sections[Len(recorder.sections)].start = recorder.path
    BY <2>2 DEF Accounted
  <2>4. \A s \in 1 .. Len(recorder.sections) : Settles(s)'
    BY <1>2, <1>7, <2>1, <2>3 DEF Accounted, Settles
  <2> QED
    BY <1>7, <2>2, <2>4 DEF Accounted, Recording
<1>8. CASE /\ reply.kind = "ended" /\ Len(worker.replies) = 1 /\ recorder' = recorder
           /\ recorder.state \notin {"starting", "stopping"}
  <2>1. ~Underway
    <3>1. worker.ended
      BY <1>1, <1>3, <1>8 DEF RepliesAreDue
    <3>2. worker.active = 0
      BY <3>1 DEF Protocol, WorkerMatches
    <3>3. \A i \in Said : i = 1
      BY <1>8 DEF Said
    <3> QED
      BY <1>8, <3>2, <3>3 DEF Underway, IsSaid
  <2>2. Recording' = Recording /\ \A s : Settles(s)' = Settles(s)
    <3>1. \A path : Reported(path)' = Reported(path)
      BY <1>8 DEF Reported
    <3> QED
      BY <1>2, <1>8, <3>1 DEF Recording, Settles
  <2> QED
    BY <1>8, <2>1, <2>2 DEF Accounted
<1> QED
  BY <1>4, <1>5, <1>6, <1>7, <1>8, PollIs

\* A step of the worker changes neither the sections nor what was reported.
LEMMA SettlesStays ==
    ASSUME UNCHANGED <<recorder.sections, recorder.lost>>,
           \A path : Whole(path) => Whole(path)'
    PROVE  \A s : Settles(s) => Settles(s)'
<1>1. \A path : Reported(path)' = Reported(path)
  BY DEF Reported
<1> QED
  BY <1>1 DEF Settles

LEMMA StartKeepsAccounted ==
    ASSUME RecorderTypeOK, Protocol, Accounted, WorkerStart, UNCHANGED baseVars
    PROVE  Accounted'
<1>. DEFINE path == Operations[1].path
<1>1. /\ Operations[1].op = "start" /\ 1 \in Asked
      /\ UNCHANGED <<recorder.state, recorder.id, recorder.path, recorder.over,
                     recorder.sections, recorder.lost>>
  BY TakenIs DEF WorkerStart
<1>2. recorder.state = "starting" /\ worker.replies = << >> /\ Len(files) \in Nat
  BY <1>1 DEF Protocol, OperationsMatch, RecorderTypeOK
<1>3. /\ \/ AddsFile(path) /\ worker'.active = Len(files) + 1
         \/ (AddsFile(path) \/ UNCHANGED files) /\ Says(Reply("started", path, FALSE))
  BY WorkerStartIs
<1>4. \A s : Settles(s) => Settles(s)'
  <2>1. \A p : Whole(p) => Whole(p)'
    BY <1>3, FootersStay
  <2> QED
    BY <1>1, <2>1, SettlesStays
<1>5. ~Recording /\ ~Recording'
  BY <1>1, <1>2 DEF Recording
<1>6. Opened' => Underway'
  <2>1. CASE worker'.active = Len(files) + 1
    BY <1>2, <2>1 DEF Underway
  <2>2. CASE Says(Reply("started", path, FALSE))
    <3>1. \A r : r = Reply("started", path, FALSE) => ~r.ok
      BY DEF Reply
    <3>2. worker'.replies[1] = Reply("started", path, FALSE)
      <4>1. Len(worker.replies) + 1 = 1
        BY <1>2, EmptySeq
      <4>2. worker'.replies[Len(worker.replies) + 1] = Reply("started", path, FALSE)
        BY <2>2, SaysKeeps
      <4> QED
        BY <4>1, <4>2
    <3>3. ~worker'.replies[1].ok
      BY <3>1, <3>2
    <3> QED
      BY <1>1, <1>2, <3>3 DEF Opened
  <2> QED
    BY <1>3, <2>1, <2>2
<1> QED
  BY <1>1, <1>4, <1>5, <1>6 DEF Accounted

\* More replies leave what is under way under way, unless the file was closed.
LEMMA UnderwayStays ==
    ASSUME Said \subseteq Said', \A i \in Said : worker'.replies[i] = worker.replies[i],
           worker.active = 0, Underway
    PROVE  Underway'
BY DEF Underway, IsSaid

LEMMA AppendKeepsAccounted ==
    ASSUME RecorderTypeOK, Protocol, Accounted, WorkerAppend, UNCHANGED baseVars
    PROVE  Accounted'
<1>. DEFINE f     == worker.active
            lines == Operations[1].lines
<1>1. UNCHANGED <<recorder.state, recorder.id, recorder.path, recorder.over,
                  recorder.sections, recorder.lost>>
  BY TakenIs DEF WorkerAppend
<1>2. \/ f = 0 /\ UNCHANGED <<worker, files>>
      \/ /\ f # 0 /\ OnlyFile(f, Written(files[f], lines))
         /\ worker'.active = f /\ worker'.replies = worker.replies
      \/ /\ f # 0
         /\ Says(Reply("failed", files[f].path, FALSE))
         /\ \E file \in FileSet : /\ OnlyFile(f, file)
                                  /\ file.path = files[f].path
                                  /\ file.footer = files[f].footer
  BY WorkerAppendIs
<1>3. lines \in Seq(Entries)
  BY TakenIs DEF WorkerAppend, Ops
<1>4. Underway' <=> Underway
  <2>1. CASE f = 0 /\ UNCHANGED worker
    BY <2>1 DEF Underway, IsSaid, Said
  <2>2. CASE f # 0 /\ worker'.active = f
    BY <2>2 DEF Underway
  <2>3. CASE f # 0 /\ Says(Reply("failed", files[f].path, FALSE))
    <3>1. Reply("failed", files[f].path, FALSE).kind = "failed"
      BY DEF Reply
    <3>2. IsSaid("failed")'
      BY <2>3, <3>1, SaysKeeps
    <3> QED
      BY <2>3, <3>2 DEF Underway
  <2> QED
    BY <1>2, <2>1, <2>2, <2>3
<1>5. \A s : Settles(s) => Settles(s)'
  <2>1. ASSUME f # 0 PROVE /\ Written(files[f], lines).path = files[f].path
                           /\ Written(files[f], lines).footer = files[f].footer
    BY <1>3, <2>1, FileOf, WrittenType
  <2>2. \A p : Whole(p) => Whole(p)'
    BY <1>2, <2>1, FootersStay
  <2> QED
    BY <1>1, <2>2, SettlesStays
<1>6. Recording' = Recording
  BY <1>1 DEF Recording
<1>7. recorder.state = "starting" /\ Opened' => Whole(recorder.id) \/ Underway
  <2>1. CASE f = 0
    <3>1. Opened' = Opened
      BY <1>1, <1>2, <2>1 DEF Opened, Acknowledged
    <3> QED
      BY <3>1 DEF Accounted
  <2>2. CASE f # 0
    BY <2>2 DEF Underway
  <2> QED
    BY <2>1, <2>2
<1>8. \A p : p = recorder.id /\ Whole(p) => Whole(p)'
  <2>1. ASSUME f # 0 PROVE /\ Written(files[f], lines).path = files[f].path
                           /\ Written(files[f], lines).footer = files[f].footer
    BY <1>3, <2>1, FileOf, WrittenType
  <2> QED
    BY <1>2, <2>1, FootersStay
<1> QED
  BY <1>1, <1>4, <1>5, <1>6, <1>7, <1>8 DEF Accounted

\* A file of that path that gets its footer.
LEMMA FootedIsWhole ==
    ASSUME RecorderTypeOK, worker.active # 0, NEW file, OnlyFile(worker.active, file),
           file.footer # NoFooter, file.path = files[worker.active].path
    PROVE  \A path : path = files[worker.active].path => Whole(path)'
<1>1. worker.active \in 1 .. Len(files)
  BY FileOf
<1> QED
  BY <1>1 DEF OnlyFile, Whole

LEMMA StopKeepsAccounted ==
    ASSUME RecorderTypeOK, Protocol, Accounted, WorkerStop, UNCHANGED baseVars
    PROVE  Accounted'
<1>. DEFINE f    == worker.active
            path == Operations[1].path
            file == Footed(files[f], "stopped", worker.count)
<1>1. /\ Operations[1].op = "stop" /\ 1 \in Asked
      /\ UNCHANGED <<recorder.state, recorder.id, recorder.path, recorder.over,
                     recorder.sections, recorder.lost>>
  BY TakenIs DEF WorkerStop
<1>2. recorder.state = "stopping" /\ Recording /\ Recording'
  BY <1>1 DEF Protocol, OperationsMatch, Recording
<1>3. \/ f # 0 /\ OnlyFile(f, file)
      \/ UNCHANGED files /\ Says(Reply("stopped", path, FALSE))
  BY WorkerStopIs
<1>4. ASSUME f # 0
      PROVE  file.footer # NoFooter /\ file.path = files[f].path /\ files[f].path = recorder.path
  <2>1. files[f] \in FileSet /\ worker.count \in Nat
    BY <1>4, FileOf DEF RecorderTypeOK, Workers
  <2>2. file.footer # NoFooter /\ file.path = files[f].path
    BY <2>1, FootedType
  <2>3. files[f].path = recorder.path
    BY <1>2, <1>4, OpenSaid DEF Current
  <2> QED
    BY <2>2, <2>3
<1>. HIDE DEF file
<1>5. \A s : Settles(s) => Settles(s)'
  <2>1. \A p : Whole(p) => Whole(p)'
    BY <1>3, <1>4, FootersStay
  <2> QED
    BY <1>1, <2>1, SettlesStays
<1>6. \/ Underway'
      \/ \A s : s = Len(recorder.sections) => Settles(s)'
  <2>1. CASE f # 0 /\ OnlyFile(f, file)
    <3>1. \A p : p = recorder.path => Whole(p)'
      BY <1>4, <2>1, FootedIsWhole
    <3>2. recorder.sections[Len(recorder.sections)].start = recorder.path
      BY <1>2 DEF Accounted
    <3> QED
      BY <1>1, <3>1, <3>2 DEF Settles
  <2>2. CASE Says(Reply("stopped", path, FALSE))
    <3>1. /\ Reply("stopped", path, FALSE).kind = "stopped"
          /\ ~Reply("stopped", path, FALSE).ok
      BY DEF Reply
    <3>2. /\ Len(worker.replies) + 1 \in Said'
          /\ worker'.replies[Len(worker.replies) + 1] = Reply("stopped", path, FALSE)
      BY <2>2, SaysKeeps
    <3> QED
      BY <3>1, <3>2 DEF Underway
  <2> QED
    BY <1>3, <2>1, <2>2
<1> QED
  BY <1>1, <1>2, <1>5, <1>6 DEF Accounted

LEMMA WorkerEndKeepsAccounted ==
    ASSUME RecorderTypeOK, Protocol, Accounted, WorkerEnd, UNCHANGED baseVars
    PROVE  Accounted'
<1>. DEFINE f     == worker.active
            lines == Operations[1].lines
            count == worker.count + Len(lines)
            file  == Footed(Written(files[f], lines), "session_ended", count)
            failed == Reply("failed", files[f].path, FALSE)
<1>1. UNCHANGED <<recorder.state, recorder.id, recorder.path, recorder.over, Current,
                  recorder.sections, recorder.lost>>
  BY TakenIs DEF WorkerEnd
<1>2. \/ f = 0 /\ UNCHANGED files /\ Says(Reply("ended", 0, TRUE))
      \/ f # 0 /\ OnlyFile(f, file)
      \/ /\ f # 0 /\ SaysAndEnds(failed)
         /\ \E torn \in FileSet : /\ OnlyFile(f, torn)
                                  /\ torn.path = files[f].path
                                  /\ torn.footer = files[f].footer
  BY WorkerEndIs
<1>3. ASSUME f # 0
      PROVE  /\ file.footer # NoFooter /\ file.path = files[f].path
             /\ files[f].path = Current /\ Opened
  <2>1. files[f] \in FileSet /\ worker.count \in Nat /\ lines \in Seq(Entries)
    BY <1>3, FileOf, TakenIs DEF RecorderTypeOK, Workers, WorkerEnd, Ops
  <2>2. Len(lines) \in Nat
    BY <2>1, LenProperties
  <2>3. count \in Nat
    BY <2>1, <2>2
  <2>4. Written(files[f], lines) \in FileSet /\ Written(files[f], lines).path = files[f].path
    BY <2>1, WrittenType
  <2>. HIDE DEF count
  <2>5. file.footer # NoFooter /\ file.path = files[f].path
    BY <2>3, <2>4, FootedType
  <2> QED
    BY <1>3, <2>5, OpenSaid
<1>. HIDE DEF file, failed
<1>4. \A p : Whole(p) => Whole(p)'
  BY <1>2, <1>3, FootersStay
<1>5. \A s : Settles(s) => Settles(s)'
  BY <1>1, <1>4, SettlesStays
<1>6. Recording' = Recording
  BY <1>1 DEF Recording
<1>7. CASE f = 0 /\ UNCHANGED files /\ Says(Reply("ended", 0, TRUE))
  <2>1. /\ Said \subseteq Said' /\ \A i \in Said : worker'.replies[i] = worker.replies[i]
        /\ worker'.replies[Len(worker.replies) + 1].kind = "ended"
        /\ Acknowledged => worker'.replies[1] = worker.replies[1]
        /\ Said = 1 .. Len(worker.replies) /\ Len(worker.replies) \in Nat
    BY <1>7, SaysKeeps DEF Reply
  <2>2. Underway => Underway'
    BY <1>7, <2>1, UnderwayStays
  <2>3. recorder.state = "starting" /\ Opened' => Opened
    <3>1. CASE worker.replies = << >>
      <4>1. Len(worker.replies) = 0
        BY <3>1, EmptySeq
      <4>2. worker'.replies[1].kind = "ended"
        BY <2>1, <4>1
      <4> QED
        BY <1>1, <4>2 DEF Opened, Acknowledged
    <3>2. CASE worker.replies # << >>
      <4>1. worker.replies \in Seq(ReplySet) /\ 1 \in Said
        BY <2>1, <3>2 DEF RecorderTypeOK, Workers
      <4> QED
        BY <1>1, <2>1, <3>2, <4>1 DEF Opened, Acknowledged
    <3> QED
      BY <3>1, <3>2
  <2> QED
    BY <1>1, <1>4, <1>5, <1>6, <2>2, <2>3 DEF Accounted
<1>8. CASE f # 0 /\ OnlyFile(f, file)
  <2>1. \A p : p = Current => Whole(p)'
    BY <1>3, <1>8, FootedIsWhole
  <2>2. Recording => \A s : s = Len(recorder.sections) => Settles(s)'
    <3>1. SUFFICES ASSUME Recording PROVE \A s : s = Len(recorder.sections) => Settles(s)'
      OBVIOUS
    <3>2. recorder.sections[Len(recorder.sections)].start = Current
      BY <3>1 DEF Accounted, Recording, Current
    <3> QED
      BY <1>1, <2>1, <3>2 DEF Settles
  <2>3. recorder.state = "starting" => Whole(recorder.id)'
    BY <1>1, <2>1 DEF Current
  <2> QED
    BY <1>1, <1>5, <1>6, <2>2, <2>3 DEF Accounted
<1>9. CASE f # 0 /\ SaysAndEnds(failed)
  <2>1. failed.kind = "failed"
    BY DEF failed, Reply
  <2>2. Underway'
    BY <1>9, <2>1, SaysAndEndsKeeps DEF Underway, IsSaid
  <2> QED
    BY <1>1, <1>5, <1>6, <2>2 DEF Accounted
<1> QED
  BY <1>2, <1>7, <1>8, <1>9

LEMMA AccountedStep ==
    RecorderTypeOK /\ Protocol /\ Accounted /\ [RecorderNext]_<<recorderVars, baseVars>>
        => Accounted'
<1>. SUFFICES ASSUME RecorderTypeOK, Protocol, Accounted,
                     [RecorderNext]_<<recorderVars, baseVars>>
              PROVE  Accounted'
  OBVIOUS
<1>1. RecorderTypeOK' /\ Protocol' /\ TransitionsEnd
  BY RecorderTypeStep, ProtocolStep DEF Protocol
<1>2. ASSUME NEW id \in NormalIds, NEW kind \in RecordKinds, NEW pending \in BOOLEAN,
             CallControl(id, kind, pending)
      PROVE  Accounted'
  BY <1>1, <1>2, ControlKeepsAccounted
<1>3. ASSUME NEW id \in Ids,
             \/ CallSend(id, KindOnWire(id))
             \/ CallSendFailed(id, KindOnWire(id))
             \/ \E outcome \in Answers : CallTerminal(id, outcome)
      PROVE  Accounted'
  <2>1. SameCourse
    BY <1>1, <1>3, SendIs, SendFailedIs, CallTerminalIs
  <2> QED
    BY <2>1, CourseKeepsAccounted
<1>4. CASE PollReply
  BY <1>1, <1>4, PollKeepsAccounted
<1>5. CASE CallEnd
  <2>1. UNCHANGED <<worker, files, recorder.state, recorder.id, recorder.path,
                    recorder.sections, recorder.lost>>
    BY <1>5, EndIs
  <2> QED
    BY <2>1 DEF Accounted, Recording, Opened, Acknowledged, Underway, IsSaid, Said,
                Settles, Whole, Reported
<1>6. CASE Work /\ UNCHANGED baseVars
  BY <1>6, StartKeepsAccounted, AppendKeepsAccounted, StopKeepsAccounted,
     WorkerEndKeepsAccounted DEF Work
<1>7. CASE UNCHANGED <<recorderVars, baseVars>>
  <2>1. UNCHANGED <<recorder, worker, files>>
    BY <1>7 DEF recorderVars
  <2> QED
    BY <2>1 DEF Accounted, Recording, Opened, Acknowledged, Underway, IsSaid, Said,
                Settles, Whole, Reported
<1> QED
  BY <1>2, <1>3, <1>4, <1>5, <1>6, <1>7 DEF RecorderNext

(***************************************************************************)
(* No recording is lost silently: once the worker has ended and its last   *)
(* reply was taken, each recording that was acknowledged as started has    *)
(* its footer or was reported as failed, whichever of the worker's file    *)
(* operations failed and whenever the session ended.                       *)
(***************************************************************************)
THEOREM NoRecordingIsLostSilently == RecorderSpec => []LossIsReported
<1>1. RecorderInit => Accounted
  <2>1. ASSUME RecorderInit
        PROVE  /\ recorder.sections = << >> /\ recorder.state = "idle"
    BY <2>1 DEF RecorderInit, NewRecorder
  <2> QED
    BY <2>1 DEF Accounted, Recording
<1>2. RecorderTypeOK /\ Protocol /\ Accounted => LossIsReported
  <2>. SUFFICES ASSUME RecorderTypeOK, Protocol, Accounted, Quiet,
                       NEW s \in DOMAIN recorder.sections
                PROVE  \/ \E f \in DOMAIN files :
                             /\ files[f].path = recorder.sections[s].start
                             /\ files[f].footer # NoFooter
                       \/ \E i \in DOMAIN recorder.lost :
                             recorder.lost[i] = recorder.sections[s].start
    BY DEF LossIsReported
  <2>1. /\ DOMAIN recorder.sections = 1 .. Len(recorder.sections)
        /\ DOMAIN files = 1 .. Len(files)
        /\ DOMAIN recorder.lost = 1 .. Len(recorder.lost)
    BY LenProperties DEF RecorderTypeOK, Recorders
  <2>2. worker.replies = << >> /\ Said = {} /\ worker.active = 0
    BY DEF Quiet, Said, Protocol, WorkerMatches
  <2>3. ~Underway
    BY <2>2 DEF Underway, IsSaid
  <2> QED
    BY <2>1, <2>3 DEF Accounted, Settles, Whole, Reported
<1>3. RecorderSpec => []Accounted
  BY <1>1, AccountedStep, ProtocolHolds, PTL DEF RecorderSpec
<1> QED
  BY <1>2, <1>3, ProtocolHolds, PTL

-----------------------------------------------------------------------------
(***************************************************************************)
(* A footer means a complete recording.  What was sent to the game during  *)
(* a recording is in three places: in the file, in the operations on their *)
(* way to the worker, and in the buffer of the recorder.  While the file   *)
(* is open the three are, one after the other, exactly what was sent; what *)
(* has left the buffer has its outcome, and no later answer can change it. *)
(***************************************************************************)

\* The offsets in what was sent at which the lines of the file end, then those
\* of each operation; the buffer has the rest.
PipeAt(at, lines, ops, entries, sent) ==
    /\ at[0] = Len(lines)
    /\ \A j \in 1 .. Len(lines) : lines[j] = sent[j]
    /\ \A i \in 1 .. Len(ops) :
          /\ at[i] = at[i - 1] + Len(ops[i].lines)
          /\ \A j \in 1 .. Len(ops[i].lines) : ops[i].lines[j] = sent[at[i - 1] + j]
    /\ Len(sent) = at[Len(ops)] + Len(entries)
    /\ \A j \in 1 .. Len(entries) : entries[j] = sent[at[Len(ops)] + j]

Pipe(lines, ops, entries, sent) ==
    \E at \in [0 .. Len(ops) -> 0 .. Len(sent)] : PipeAt(at, lines, ops, entries, sent)

-----------------------------------------------------------------------------
(* What happens to the pipe *)

\* A new file, a queue without lines, and an empty buffer.
LEMMA PipeStarts ==
    ASSUME NEW ops \in Seq(Ops), \A i \in 1 .. Len(ops) : ops[i].lines = << >>
    PROVE  Pipe(<< >>, ops, << >>, << >>)
<1>. DEFINE at == [i \in 0 .. Len(ops) |-> 0]
<1>1. Len(ops) \in Nat /\ Len(<< >>) = 0
  BY EmptySeq
<1>2. at \in [0 .. Len(ops) -> 0 .. Len(<< >>)]
  BY <1>1
<1>3. PipeAt(at, << >>, ops, << >>, << >>)
  BY <1>1 DEF PipeAt
<1> QED
  BY <1>2, <1>3 DEF Pipe

\* The worker appends the lines of the first operation to the file.
LEMMA PipeTakes ==
    ASSUME NEW lines \in Seq(Entries), NEW ops \in Seq(Ops), NEW entries \in Seq(Entries),
           NEW sent \in Seq(Entries), Pipe(lines, ops, entries, sent),
           Len(ops) # 0, NEW rest \in Seq(Ops), Len(rest) = Len(ops) - 1,
           \A i \in 1 .. Len(rest) : rest[i] = ops[i + 1]
    PROVE  Pipe(lines \o ops[1].lines, rest, entries, sent)
<1>1. PICK at \in [0 .. Len(ops) -> 0 .. Len(sent)] : PipeAt(at, lines, ops, entries, sent)
  BY DEF Pipe
<1>. DEFINE more == ops[1].lines
            whole == lines \o more
            ats == [i \in 0 .. Len(rest) |-> at[i + 1]]
<1>2. Len(ops) \in Nat /\ Len(rest) \in Nat /\ 1 \in 1 .. Len(ops)
  OBVIOUS
<1>3. ops[1] \in Ops
  BY <1>2
<1>4. more \in Seq(Entries) /\ Len(lines) \in Nat /\ Len(more) \in Nat
  BY <1>3 DEF Ops
<1>. HIDE DEF more
<1>5. /\ Len(whole) = Len(lines) + Len(more)
      /\ \A j \in 1 .. Len(lines) : whole[j] = lines[j]
      /\ \A j \in 1 .. Len(more) : whole[Len(lines) + j] = more[j]
  BY <1>4, ConcatProperties
<1>. HIDE DEF whole
<1>6. /\ at[0] = Len(lines) /\ at[1] = at[0] + Len(more)
      /\ \A j \in 1 .. Len(lines) : lines[j] = sent[j]
      /\ \A j \in 1 .. Len(more) : more[j] = sent[at[0] + j]
  <2>1. at[1] = at[1 - 1] + Len(more) /\ \A j \in 1 .. Len(more) : more[j] = sent[at[1 - 1] + j]
    BY <1>1, <1>2 DEF PipeAt, more
  <2>2. 1 - 1 = 0
    OBVIOUS
  <2> QED
    BY <1>1, <2>1, <2>2 DEF PipeAt
<1>7. ats \in [0 .. Len(rest) -> 0 .. Len(sent)]
  BY <1>1, <1>2
<1>8. ats[0] = Len(whole)
  BY <1>2, <1>5, <1>6
<1>9. \A j \in 1 .. Len(whole) : whole[j] = sent[j]
  <2>. TAKE j \in 1 .. Len(whole)
  <2>1. CASE j \in 1 .. Len(lines)
    BY <1>5, <1>6, <2>1
  <2>2. CASE j \notin 1 .. Len(lines)
    <3>1. j - Len(lines) \in 1 .. Len(more) /\ Len(lines) + (j - Len(lines)) = j
      BY <1>4, <1>5, <2>2
    <3> QED
      BY ZenonT(40), <1>5, <1>6, <3>1
  <2> QED
    BY <2>1, <2>2
<1>10. ASSUME NEW i \in 1 .. Len(rest)
       PROVE  /\ ats[i] = ats[i - 1] + Len(rest[i].lines)
              /\ \A j \in 1 .. Len(rest[i].lines) : rest[i].lines[j] = sent[ats[i - 1] + j]
  <2>1. i + 1 \in 1 .. Len(ops) /\ rest[i] = ops[i + 1] /\ (i + 1) - 1 = i
    BY <1>2
  <2>2. ats[i] = at[i + 1] /\ ats[i - 1] = at[i]
    BY <1>2
  <2>. HIDE DEF ats
  <2> QED
    BY <1>1, <2>1, <2>2 DEF PipeAt
<1>11. ats[Len(rest)] = at[Len(ops)]
  BY <1>2
<1>. HIDE DEF ats
<1>12. PipeAt(ats, whole, rest, entries, sent)
  BY <1>1, <1>8, <1>9, <1>10, <1>11 DEF PipeAt
<1> QED
  BY <1>7, <1>12 DEF Pipe, whole, more

\* The first entries leave the buffer as the lines of an operation.
Flushes(op, entries, kept) ==
    /\ op \in Ops /\ Len(op.lines) \in 0 .. Len(entries)
    /\ \A j \in 1 .. Len(op.lines) : op.lines[j] = entries[j]
    /\ kept \in Seq(Entries) /\ Len(kept) = Len(entries) - Len(op.lines)
    /\ \A j \in 1 .. Len(kept) : kept[j] = entries[Len(op.lines) + j]

Queues(ops, op, longer) ==
    /\ longer \in Seq(Ops) /\ Len(longer) = Len(ops) + 1
    /\ \A i \in 1 .. Len(ops) : longer[i] = ops[i]
    /\ longer[Len(ops) + 1] = op

LEMMA PipeAsks ==
    ASSUME NEW lines \in Seq(Entries), NEW ops \in Seq(Ops), NEW entries \in Seq(Entries),
           NEW sent \in Seq(Entries), Pipe(lines, ops, entries, sent),
           NEW op, NEW kept, Flushes(op, entries, kept),
           NEW longer, Queues(ops, op, longer)
    PROVE  Pipe(lines, longer, kept, sent)
<1>. DEFINE n == Len(op.lines)
<1>0. /\ n \in 0 .. Len(entries) /\ \A j \in 1 .. n : op.lines[j] = entries[j]
      /\ kept \in Seq(Entries) /\ Len(kept) = Len(entries) - n
      /\ \A j \in 1 .. Len(kept) : kept[j] = entries[n + j]
      /\ longer \in Seq(Ops) /\ Len(longer) = Len(ops) + 1
      /\ \A i \in 1 .. Len(ops) : longer[i] = ops[i]
      /\ longer[Len(ops) + 1] = op
  BY DEF Flushes, Queues
<1>. HIDE DEF n
<1>. USE <1>0
<1>1. PICK at \in [0 .. Len(ops) -> 0 .. Len(sent)] : PipeAt(at, lines, ops, entries, sent)
  BY DEF Pipe
<1>. DEFINE m == Len(ops)
            ats == [i \in 0 .. Len(longer) |-> IF i = m + 1 THEN at[m] + n ELSE at[i]]
<1>9. m \in Nat /\ Len(longer) = m + 1 /\ Len(sent) \in Nat /\ Len(entries) \in Nat
  OBVIOUS
<1>10. \A i \in 0 .. m : at[i] \in 0 .. Len(sent)
  BY <1>1
<1>2. /\ m \in Nat /\ Len(longer) = m + 1 /\ at[m] \in Nat /\ Len(sent) \in Nat
      /\ Len(entries) \in Nat /\ Len(sent) = at[m] + Len(entries)
  <2>. HIDE DEF m, ats
  <2>2. m \in 0 .. m
    BY <1>9
  <2>1. at[m] \in 0 .. Len(sent)
    BY <1>10, <2>2
  <2>. USE DEF m
  <2> QED
    BY <1>1, <1>9, <2>1 DEF PipeAt
<1>3. ats \in [0 .. Len(longer) -> 0 .. Len(sent)]
  BY <1>1, <1>2
<1>4. ats[0] = at[0] /\ ats[m + 1] = at[m] + n /\ \A i \in 0 .. m : ats[i] = at[i]
  BY <1>2
<1>. HIDE DEF ats, m
<1>5. ASSUME NEW i \in 1 .. Len(longer)
      PROVE  /\ ats[i] = ats[i - 1] + Len(longer[i].lines)
             /\ \A j \in 1 .. Len(longer[i].lines) : longer[i].lines[j] = sent[ats[i - 1] + j]
  <2>1. CASE i \in 1 .. m
    <3>1. longer[i] = ops[i] /\ ats[i] = at[i] /\ ats[i - 1] = at[i - 1]
      BY SMTT(30), <1>2, <1>4, <2>1 DEF m
    <3> QED
      BY <1>1, <2>1, <3>1 DEF PipeAt, m
  <2>2. CASE i = m + 1
    <3>1. longer[i] = op /\ ats[i] = at[m] + n /\ ats[i - 1] = at[m]
      <4>1. i - 1 = m /\ m \in 0 .. m
        BY <1>2, <2>2
      <4>2. longer[m + 1] = op
        BY DEF m
      <4> QED
        BY <1>4, <2>2, <4>1, <4>2
    <3>2. \A j \in 1 .. n : entries[j] = sent[at[m] + j]
      BY <1>1, <1>2 DEF PipeAt, m
    <3> QED
      BY <1>2, <3>1, <3>2 DEF n
  <2> QED
    BY <1>2, <2>1, <2>2
<1>6. \A j \in 1 .. Len(kept) : kept[j] = sent[ats[m + 1] + j]
  <2>. TAKE j \in 1 .. Len(kept)
  <2>1. n + j \in 1 .. Len(entries) /\ at[m] + (n + j) = ats[m + 1] + j
    BY <1>2, <1>4
  <2>2. entries[n + j] = sent[at[m] + (n + j)]
    BY <1>1, <2>1 DEF PipeAt, m
  <2> QED
    BY <2>1, <2>2
<1>7. Len(sent) = ats[m + 1] + Len(kept)
  BY <1>2, <1>4
<1>8. PipeAt(ats, lines, longer, kept, sent)
  BY <1>1, <1>2, <1>4, <1>5, <1>6, <1>7 DEF PipeAt
<1> QED
  BY <1>3, <1>8 DEF Pipe

\* One more command is sent, and buffered.
LEMMA PipeRecords ==
    ASSUME NEW lines \in Seq(Entries), NEW ops \in Seq(Ops), NEW entries \in Seq(Entries),
           NEW sent \in Seq(Entries), Pipe(lines, ops, entries, sent), NEW entry \in Entries
    PROVE  Pipe(lines, ops, Append(entries, entry), Append(sent, entry))
<1>1. PICK at \in [0 .. Len(ops) -> 0 .. Len(sent)] : PipeAt(at, lines, ops, entries, sent)
  BY DEF Pipe
<1>. DEFINE more == Append(sent, entry)
            buffer == Append(entries, entry)
<1>2. /\ Len(more) = Len(sent) + 1 /\ \A j \in 1 .. Len(sent) : more[j] = sent[j]
      /\ more[Len(sent) + 1] = entry
      /\ Len(buffer) = Len(entries) + 1 /\ \A j \in 1 .. Len(entries) : buffer[j] = entries[j]
      /\ buffer[Len(entries) + 1] = entry
  BY AppendProperties
<1>. HIDE DEF more, buffer
<1>. DEFINE last == at[Len(ops)]
<1>10. /\ Len(sent) \in Nat /\ Len(entries) \in Nat /\ Len(ops) \in Nat /\ Len(lines) \in Nat
       /\ \A i \in 0 .. Len(ops) : at[i] \in 0 .. Len(sent)
  <2>1. Len(sent) \in Nat /\ Len(entries) \in Nat /\ Len(ops) \in Nat /\ Len(lines) \in Nat
    OBVIOUS
  <2>2. \A i \in 0 .. Len(ops) : at[i] \in 0 .. Len(sent)
    OBVIOUS
  <2> QED
    BY <2>1, <2>2
<1>3. /\ Len(sent) \in Nat /\ Len(entries) \in Nat /\ Len(ops) \in Nat /\ Len(lines) \in Nat
      /\ \A i \in 0 .. Len(ops) : at[i] \in 0 .. Len(sent)
      /\ Len(sent) = last + Len(entries) /\ at[0] = Len(lines)
      /\ last \in 0 .. Len(sent) /\ \A j \in 1 .. Len(entries) : entries[j] = sent[last + j]
  BY <1>1, <1>10 DEF PipeAt
<1>. HIDE DEF last
<1>4. at \in [0 .. Len(ops) -> 0 .. Len(more)]
  BY <1>1, <1>2, <1>3
<1>5. \A j \in 1 .. Len(lines) : lines[j] = more[j]
  BY <1>1, <1>2, <1>3 DEF PipeAt
<1>6. ASSUME NEW i \in 1 .. Len(ops)
      PROVE  /\ at[i] = at[i - 1] + Len(ops[i].lines)
             /\ \A j \in 1 .. Len(ops[i].lines) : ops[i].lines[j] = more[at[i - 1] + j]
  <2>1. /\ at[i] = at[i - 1] + Len(ops[i].lines)
        /\ \A j \in 1 .. Len(ops[i].lines) : ops[i].lines[j] = sent[at[i - 1] + j]
    BY <1>1 DEF PipeAt
  <2>2. at[i] \in 0 .. Len(sent) /\ at[i - 1] \in 0 .. Len(sent)
    BY <1>3
  <2>3. ops[i].lines \in Seq(Entries)
    <3>1. ops[i] \in Ops
      OBVIOUS
    <3> QED
      BY <3>1 DEF Ops
  <2>4. Len(ops[i].lines) \in Nat
    BY <2>3
  <2>5. \A j \in 1 .. Len(ops[i].lines) : at[i - 1] + j \in 1 .. Len(sent)
    BY SMTT(30), <1>3, <2>1, <2>2, <2>4
  <2> QED
    BY <1>2, <2>1, <2>5
<1>7. \A j \in 1 .. Len(buffer) : buffer[j] = more[last + j]
  <2>. TAKE j \in 1 .. Len(buffer)
  <2>1. CASE j \in 1 .. Len(entries)
    <3>1. entries[j] = sent[last + j] /\ last + j \in 1 .. Len(sent)
      BY <1>3, <2>1
    <3> QED
      BY <1>2, <2>1, <3>1
  <2>2. CASE j = Len(entries) + 1
    <3>1. last + j = Len(sent) + 1
      BY <1>3, <2>2
    <3> QED
      BY <1>2, <2>2, <3>1
  <2> QED
    BY <1>2, <1>3, <2>1, <2>2
<1>8. Len(more) = last + Len(buffer)
  BY <1>2, <1>3
<1>9. PipeAt(at, lines, ops, buffer, more)
  BY <1>3, <1>5, <1>6, <1>7, <1>8 DEF PipeAt, last
<1> QED
  BY <1>4, <1>9 DEF Pipe, more, buffer

NoneOpen(lines) == \A j \in 1 .. Len(lines) : lines[j].outcome # "open"

\* An answer settles what is buffered, and nothing that has left the buffer.
LEMMA PipeAnswers ==
    ASSUME NEW lines \in Seq(Entries), NEW ops \in Seq(Ops), NEW entries \in Seq(Entries),
           NEW sent \in Seq(Entries), Pipe(lines, ops, entries, sent),
           NEW id \in Ids, NEW outcome \in Settled,
           NoneOpen(lines), \A i \in 1 .. Len(ops) : NoneOpen(ops[i].lines),
           \A j \in 1 .. Len(sent) : sent[j].id = id => sent[j].outcome = "open"
    PROVE  Pipe(lines, ops, Answered(entries, id, outcome), Answered(sent, id, outcome))
<1>1. PICK at \in [0 .. Len(ops) -> 0 .. Len(sent)] : PipeAt(at, lines, ops, entries, sent)
  BY DEF Pipe
<1>. DEFINE told == Answered(sent, id, outcome)
            buffer == Answered(entries, id, outcome)
            Tell(e) == IF e.id = id THEN [id |-> id, outcome |-> outcome] ELSE e
<1>2. Len(told) = Len(sent) /\ \A j \in 1 .. Len(sent) : told[j] = Tell(sent[j])
  BY AnsweredIs
<1>3. Len(buffer) = Len(entries) /\ \A j \in 1 .. Len(entries) : buffer[j] = Tell(entries[j])
  BY AnsweredIs
<1>. HIDE DEF told, buffer
<1>4. \A j \in 1 .. Len(sent) : sent[j].outcome # "open" => told[j] = sent[j]
  BY <1>2
<1>. HIDE DEF Tell
<1>. DEFINE last == at[Len(ops)]
<1>5. Len(sent) \in Nat /\ Len(entries) \in Nat /\ Len(ops) \in Nat /\ Len(lines) \in Nat
  OBVIOUS
<1>6. \A i \in 0 .. Len(ops) : at[i] \in 0 .. Len(sent)
  OBVIOUS
<1>7. /\ Len(sent) = last + Len(entries) /\ at[0] = Len(lines)
      /\ \A j \in 1 .. Len(lines) : lines[j] = sent[j]
      /\ \A j \in 1 .. Len(entries) : entries[j] = sent[last + j]
  BY <1>1 DEF PipeAt
<1>8. last \in 0 .. Len(sent) /\ at[0] \in 0 .. Len(sent)
  <2>1. Len(ops) \in 0 .. Len(ops) /\ 0 \in 0 .. Len(ops)
    BY <1>5
  <2> QED
    BY <1>6, <2>1
<1>. HIDE DEF last
<1>9. \A j \in 1 .. Len(lines) : lines[j] = told[j]
  <2>. TAKE j \in 1 .. Len(lines)
  <2>1. j \in 1 .. Len(sent) /\ lines[j] = sent[j] /\ lines[j].outcome # "open"
    BY <1>5, <1>7, <1>8 DEF NoneOpen
  <2> QED
    BY <1>4, <2>1
<1>10. ASSUME NEW i \in 1 .. Len(ops)
       PROVE  /\ at[i] = at[i - 1] + Len(ops[i].lines)
              /\ \A j \in 1 .. Len(ops[i].lines) : ops[i].lines[j] = told[at[i - 1] + j]
  <2>1. /\ at[i] = at[i - 1] + Len(ops[i].lines)
        /\ \A j \in 1 .. Len(ops[i].lines) : ops[i].lines[j] = sent[at[i - 1] + j]
    BY <1>1 DEF PipeAt
  <2>2. at[i] \in 0 .. Len(sent) /\ at[i - 1] \in 0 .. Len(sent)
    <3>1. i \in 0 .. Len(ops) /\ i - 1 \in 0 .. Len(ops)
      BY <1>5
    <3> QED
      BY <1>6, <3>1
  <2>3. ops[i].lines \in Seq(Entries) /\ NoneOpen(ops[i].lines)
    <3>1. ops[i] \in Ops
      OBVIOUS
    <3> QED
      BY <3>1 DEF Ops
  <2>4. Len(ops[i].lines) \in Nat
    BY <2>3
  <2>5. ASSUME NEW j \in 1 .. Len(ops[i].lines) PROVE ops[i].lines[j] = told[at[i - 1] + j]
    <3>1. at[i - 1] + j \in 1 .. Len(sent)
      BY SMTT(30), <1>5, <2>1, <2>2, <2>4
    <3>2. ops[i].lines[j] = sent[at[i - 1] + j] /\ ops[i].lines[j].outcome # "open"
      BY <2>1, <2>3 DEF NoneOpen
    <3> QED
      BY <1>4, <3>1, <3>2
  <2> QED
    BY <2>1, <2>5
<1>11. \A j \in 1 .. Len(buffer) : buffer[j] = told[last + j]
  <2>. TAKE j \in 1 .. Len(buffer)
  <2>1. j \in 1 .. Len(entries) /\ last + j \in 1 .. Len(sent)
    BY <1>3, <1>5, <1>7, <1>8
  <2>2. entries[j] = sent[last + j]
    BY <1>7, <2>1
  <2> QED
    BY <1>2, <1>3, <2>1, <2>2
<1>12. PipeAt(at, lines, ops, buffer, told)
  BY <1>2, <1>3, <1>7, <1>9, <1>10, <1>11 DEF PipeAt, last
<1>13. at \in [0 .. Len(ops) -> 0 .. Len(told)]
  BY <1>2
<1> QED
  BY <1>12, <1>13 DEF Pipe, told, buffer

\* With one operation left, or a last one without lines, and nothing buffered,
\* the file and the first operation are all that was sent.
LEMMA PipeIsWhole ==
    ASSUME NEW lines \in Seq(Entries), NEW ops \in Seq(Ops), NEW sent \in Seq(Entries),
           Pipe(lines, ops, << >>, sent),
           Len(ops) = 1 \/ (Len(ops) = 2 /\ ops[2].lines = << >>)
    PROVE  lines \o ops[1].lines = sent
<1>1. PICK at \in [0 .. Len(ops) -> 0 .. Len(sent)] : PipeAt(at, lines, ops, << >>, sent)
  BY DEF Pipe
<1>. DEFINE more == ops[1].lines
            whole == lines \o more
<1>2. more \in Seq(Entries)
  <2>1. ops[1] \in Ops
    OBVIOUS
  <2> QED
    BY <2>1 DEF Ops
<1>3. Len(lines) \in Nat /\ Len(more) \in Nat /\ Len(sent) \in Nat /\ Len(<< >>) = 0
  BY <1>2, EmptySeq
<1>4. 1 \in 1 .. Len(ops) /\ 1 - 1 = 0 /\ (Len(ops) = 2 => 2 \in 1 .. Len(ops)) /\ 2 - 1 = 1
  <2>. SUFFICES ASSUME NEW n, n = 1 \/ n = 2
                PROVE  1 \in 1 .. n /\ 1 - 1 = 0 /\ (n = 2 => 2 \in 1 .. n) /\ 2 - 1 = 1
    OBVIOUS
  <2> QED
    OBVIOUS
<1>5. /\ at[0] = Len(lines) /\ at[1] = at[0] + Len(more)
      /\ \A j \in 1 .. Len(lines) : lines[j] = sent[j]
      /\ \A j \in 1 .. Len(more) : more[j] = sent[at[0] + j]
      /\ Len(sent) = at[Len(ops)] + 0
  <2>1. /\ at[1] = at[1 - 1] + Len(more)
        /\ \A j \in 1 .. Len(more) : more[j] = sent[at[1 - 1] + j]
    BY <1>1, <1>4 DEF PipeAt
  <2>2. at[1 - 1] = at[0]
    BY <1>4
  <2> QED
    BY <1>1, <1>3, <2>1, <2>2 DEF PipeAt
<1>6. at[Len(ops)] = at[1]
  <2>1. CASE Len(ops) = 1
    BY <2>1
  <2>2. CASE Len(ops) = 2 /\ ops[2].lines = << >>
    <3>1. at[2] = at[1] + 0
      BY <1>1, <1>3, <1>4, <2>2 DEF PipeAt
    <3>2. at[1] \in Nat
      BY <1>3, <1>5
    <3> QED
      BY <2>2, <3>1, <3>2
  <2> QED
    BY <2>1, <2>2
<1>. HIDE DEF more
<1>7. /\ whole \in Seq(Entries) /\ Len(whole) = Len(lines) + Len(more)
      /\ \A j \in 1 .. Len(lines) : whole[j] = lines[j]
      /\ \A j \in 1 .. Len(more) : whole[Len(lines) + j] = more[j]
  BY <1>2, ConcatProperties
<1>. HIDE DEF whole
<1>8. Len(whole) = Len(sent)
  BY <1>3, <1>5, <1>6, <1>7
<1>9. \A j \in 1 .. Len(whole) : whole[j] = sent[j]
  <2>. TAKE j \in 1 .. Len(whole)
  <2>1. CASE j \in 1 .. Len(lines)
    BY <1>5, <1>7, <2>1
  <2>2. CASE j \notin 1 .. Len(lines)
    <3>1. PICK k \in 1 .. Len(more) : Len(lines) + k = j
      <4>1. j - Len(lines) \in 1 .. Len(more) /\ Len(lines) + (j - Len(lines)) = j
        BY <1>3, <1>7, <2>2
      <4> QED
        BY ONLY <4>1, Zenon
    <3>2. whole[Len(lines) + k] = more[k]
      BY <1>7, Zenon
    <3>3. more[k] = sent[at[0] + k]
      BY <1>5, Zenon
    <3>4. sent[at[0] + k] = sent[Len(lines) + k]
      BY <1>5, Zenon
    <3> QED
      BY ONLY <3>1, <3>2, <3>3, <3>4, Zenon
  <2> QED
    BY <2>1, <2>2
<1>10. whole = sent
  BY <1>7, <1>8, <1>9, SeqEqual
<1> QED
  BY <1>10 DEF whole, more

-----------------------------------------------------------------------------
(* What the recorder must keep, of a recorder r, the ids A that wait for   *)
(* the game, the ids w on the wire, the worker k and the files F.          *)

OnWire(w, id) == \E n \in 1 .. Len(w) : w[n] = id

\* What was sent is on the wire, and open until it is answered.
Witness(r, A, w) ==
    /\ \A id \in A : OnWire(w, id)
    /\ \A s \in 1 .. Len(r.sections) : \A i \in 1 .. Len(r.sections[s].sent) :
          /\ OnWire(w, r.sections[s].sent[i].id)
          /\ r.sections[s].sent[i].id \in A => r.sections[s].sent[i].outcome = "open"

\* Only a running recording buffers, from the first open command on; no open
\* one leaves the buffer, but with the end, which takes none in a transition.
Buffered(r, A) ==
    /\ r.entries # << >> => /\ r.state = "active" /\ ~r.over
                            /\ r.entries[1].outcome = "open"
    /\ \A i \in 1 .. Len(r.entries) : r.entries[i].outcome = "open" => r.entries[i].id \in A
    /\ \A i \in 1 .. Len(r.operations) :
          /\ r.operations[i].op = "append" => NoneOpen(r.operations[i].lines)
          /\ r.operations[i].op = "end" /\ Transitioning(r) => r.operations[i].lines = << >>

SentNow(r) == IF r.state = "starting" THEN << >> ELSE r.sections[Len(r.sections)].sent

\* The open file, the queue and the buffer are what was sent.
Content(r, k, F) ==
    k.active # 0 =>
        /\ k.count = Len(F[k.active].lines)
        /\ NoneOpen(F[k.active].lines)
        /\ Pipe(F[k.active].lines, r.operations, r.entries, SentNow(r))

PathNow(r) == IF r.state = "starting" THEN r.id ELSE r.path

\* A file with a footer has what was sent, and no call can change that.
Complete(r, file) ==
    file.footer # NoFooter =>
        /\ file.footer.count = Len(file.lines)
        /\ \A s \in 1 .. Len(r.sections) :
              r.sections[s].start = file.path => file.lines = r.sections[s].sent
        /\ (\A s \in 1 .. Len(r.sections) : r.sections[s].start # file.path)
              => file.lines = << >>
        /\ file.footer.outcome = "stopped" \/ ~r.over => NoneOpen(file.lines)
        /\ r.state \in {"starting", "active"} /\ ~r.over => file.path # PathNow(r)

\* The running recording is the last section, and the only one of its path.
LastIsNow(r) ==
    r.state \in {"active", "stopping"} =>
        /\ Len(r.sections) \in 1 .. Len(r.sections)
        /\ r.sections[Len(r.sections)].start = r.path
        /\ \A s \in 1 .. Len(r.sections) : r.sections[s].start = r.path => s = Len(r.sections)

\* No transition is under way, and the session goes on.
InCourse(r) == ~r.over /\ ~Transitioning(r)

-----------------------------------------------------------------------------
(* Recording a command *)

LEMMA RecordedIs ==
    ASSUME NEW r \in Recorders, LastIsNow(r), NEW id \in Ids, NEW kind
    PROVE  LET q    == Record(r, id, kind)
               last == Len(r.sections) IN
           /\ q.state = r.state /\ q.id = r.id /\ q.path = r.path /\ q.over = r.over
           /\ q.operations = r.operations /\ Len(q.sections) = last
           /\ Entry(id) \in Entries
           /\ \A s \in 1 .. last : q.sections[s].start = r.sections[s].start
           /\ \A s \in 1 .. last : q.sections[s].stop = r.sections[s].stop
           /\ \/ q = r
              \/ /\ r.state = "active" /\ last \in 1 .. last
                 /\ r.sections[last] \in Sections
                 /\ q.entries = Append(r.entries, Entry(id))
                 /\ q.sections[last].sent = Append(r.sections[last].sent, Entry(id))
                 /\ \A s \in 1 .. last : s # last => q.sections[s] = r.sections[s]
<1>. DEFINE last == Len(r.sections)
            section  == [r.sections[last] EXCEPT !.sent = Append(r.sections[last].sent, Entry(id))]
            sections == [r.sections EXCEPT ![last] = section]
            recorded == [r EXCEPT !.entries = Append(r.entries, Entry(id)), !.sections = sections]
<1>1. Record(r, id, kind) = IF r.state = "active" /\ IsRecordable(kind) THEN recorded ELSE r
  BY DEF Record
<1>2. r.sections \in Seq(Sections) /\ last \in Nat
  BY DEF Recorders
<1>3. Entry(id) \in Entries
  BY DEF Entry, Entries, Outcomes
<1>4. CASE r.state = "active" /\ IsRecordable(kind)
  <2>1. last \in 1 .. last
    BY <1>4 DEF LastIsNow
  <2>2. r.sections[last] \in Sections
    BY <1>2, <2>1
  <2>3. Append(r.sections[last].sent, Entry(id)) \in Seq(Entries)
    BY <1>3, <2>2, AppendProperties DEF Sections
  <2>4. /\ section \in Sections /\ section.sent = Append(r.sections[last].sent, Entry(id))
        /\ section.stop = r.sections[last].stop
    BY <2>2, <2>3 DEF Sections
  <2>. HIDE DEF section
  <2>5. /\ Len(sections) = last
        /\ \A s \in 1 .. last : sections[s] = IF s = last THEN section ELSE r.sections[s]
    BY <1>2, <2>4, ReplacedInSeq
  <2>. HIDE DEF sections
  <2>6. /\ recorded.state = r.state /\ recorded.id = r.id /\ recorded.path = r.path
        /\ recorded.over = r.over /\ recorded.operations = r.operations
        /\ recorded.sections = sections /\ recorded.entries = Append(r.entries, Entry(id))
    BY DEF Recorders
  <2>7. Record(r, id, kind) = recorded
    BY <1>1, <1>4
  <2>. HIDE DEF recorded
  <2> QED
    BY <1>3, <1>4, <2>1, <2>2, <2>4, <2>5, <2>6, <2>7, RecordIs
<1>5. CASE ~(r.state = "active" /\ IsRecordable(kind))
  BY <1>1, <1>3, <1>5
<1> QED
  BY <1>4, <1>5

\* A command that was not on the wire is sent, and open.
LEMMA RecordKeeps ==
    ASSUME NEW r \in Recorders, NEW A \in SUBSET Ids, NEW w \in Seq(Ids),
           LastIsNow(r), InCourse(r), Witness(r, A, w), Buffered(r, A),
           NEW id \in Ids, NEW kind, ~OnWire(w, id)
    PROVE  /\ Witness(Record(r, id, kind), A \cup {id}, Append(w, id))
           /\ Buffered(Record(r, id, kind), A \cup {id})
<1>. DEFINE q == Record(r, id, kind)
            v == Append(w, id)
            last == Len(r.sections)
<1>1. /\ q.state = r.state /\ q.over = r.over /\ q.operations = r.operations
      /\ Len(q.sections) = last
      /\ \/ q = r
         \/ /\ r.state = "active" /\ last \in 1 .. last
            /\ r.sections[last] \in Sections
            /\ q.entries = Append(r.entries, Entry(id))
            /\ q.sections[last].sent = Append(r.sections[last].sent, Entry(id))
            /\ \A s \in 1 .. last : s # last => q.sections[s] = r.sections[s]
  BY RecordedIs
<1>2. Entry(id) \in Entries /\ Entry(id).id = id /\ Entry(id).outcome = "open"
  BY DEF Entry, Entries, Outcomes
<1>3. OnWire(v, id) /\ \A i : OnWire(w, i) => OnWire(v, i)
  <2>1. /\ Len(v) = Len(w) + 1 /\ v[Len(w) + 1] = id /\ Len(w) \in Nat
        /\ \A n \in 1 .. Len(w) : v[n] = w[n]
    BY AppendProperties
  <2>. HIDE DEF v
  <2>2. Len(w) + 1 \in 1 .. Len(v) /\ 1 .. Len(w) \subseteq 1 .. Len(v)
    BY <2>1
  <2> QED
    BY <2>1, <2>2 DEF OnWire
<1>. HIDE DEF v, q
\* An entry of before.
<1>4. \A e : OnWire(w, e.id) /\ (e.id \in A => e.outcome = "open")
        => OnWire(v, e.id) /\ (e.id \in A \cup {id} => e.outcome = "open")
  BY <1>3
<1>5. \A s \in 1 .. last : \A i \in 1 .. Len(q.sections[s].sent) :
         /\ OnWire(v, q.sections[s].sent[i].id)
         /\ q.sections[s].sent[i].id \in A \cup {id} => q.sections[s].sent[i].outcome = "open"
  <2>. TAKE s \in 1 .. last
  <2>1. CASE q.sections[s] = r.sections[s]
    BY <1>4, <2>1 DEF Witness
  <2>2. CASE /\ s = last /\ r.sections[last] \in Sections
             /\ q.sections[last].sent = Append(r.sections[last].sent, Entry(id))
    <3>. DEFINE sent == r.sections[last].sent
    <3>1. sent \in Seq(Entries) /\ Len(sent) \in Nat
      BY <2>2 DEF Sections
    <3>2. \A i \in 1 .. Len(sent) : OnWire(w, sent[i].id) /\ (sent[i].id \in A => sent[i].outcome = "open")
      BY <2>2 DEF Witness
    <3>. HIDE DEF sent
    <3>3. /\ Len(q.sections[last].sent) = Len(sent) + 1
          /\ q.sections[last].sent[Len(sent) + 1] = Entry(id)
          /\ \A i \in 1 .. Len(sent) : q.sections[last].sent[i] = sent[i]
      BY <1>2, <2>2, <3>1, AppendProperties DEF sent
    <3>. TAKE i \in 1 .. Len(q.sections[s].sent)
    <3>4. CASE i = Len(sent) + 1
      BY <1>2, <1>3, <2>2, <3>3, <3>4
    <3>5. CASE i \in 1 .. Len(sent)
      BY <1>4, <2>2, <3>2, <3>3, <3>5
    <3> QED
      BY <2>2, <3>1, <3>3, <3>4, <3>5
  <2> QED
    BY <1>1, <2>1, <2>2
<1>6. \A i \in A \cup {id} : OnWire(v, i)
  BY <1>3 DEF Witness
<1>7. Witness(q, A \cup {id}, v)
  BY <1>1, <1>5, <1>6 DEF Witness
<1>8. Buffered(q, A \cup {id})
  <2>1. CASE q = r
    BY <2>1 DEF Buffered
  <2>2. CASE r.state = "active" /\ q.entries = Append(r.entries, Entry(id))
    <3>1. r.entries \in Seq(Entries) /\ Len(r.entries) \in Nat
      BY DEF Recorders
    <3>2. /\ Len(q.entries) = Len(r.entries) + 1
          /\ q.entries[Len(r.entries) + 1] = Entry(id)
          /\ \A i \in 1 .. Len(r.entries) : q.entries[i] = r.entries[i]
      BY <1>2, <2>2, <3>1, AppendProperties
    <3>3. q.entries[1].outcome = "open"
      <4>1. CASE r.entries = << >>
        <5>1. Len(r.entries) + 1 = 1
          BY <4>1, EmptySeq
        <5> QED
          BY <1>2, <3>2, <5>1
      <4>2. CASE r.entries # << >>
        <5>1. 1 \in 1 .. Len(r.entries)
          BY <3>1, <4>2
        <5> QED
          BY <3>2, <4>2, <5>1 DEF Buffered
      <4> QED
        BY <4>1, <4>2
    <3>4. \A i \in 1 .. Len(q.entries) : q.entries[i].outcome = "open" => q.entries[i].id \in A \cup {id}
      <4>. TAKE i \in 1 .. Len(q.entries)
      <4>1. CASE i = Len(r.entries) + 1
        BY <1>2, <3>2, <4>1
      <4>2. CASE i \in 1 .. Len(r.entries)
        BY <3>2, <4>2 DEF Buffered
      <4> QED
        BY <3>1, <3>2, <4>1, <4>2
    <3>5. ~q.over
      BY <1>1 DEF InCourse
    <3> QED
      BY <1>1, <2>2, <3>3, <3>4, <3>5 DEF Buffered, Transitioning
  <2> QED
    BY <1>1, <2>1, <2>2
<1> QED
  BY <1>7, <1>8 DEF q, v

LEMMA RecordKeepsContent ==
    ASSUME NEW r \in Recorders, LastIsNow(r), NEW id \in Ids, NEW kind, NEW k,
           NEW F \in Seq(FileSet), k.active \in 0 .. Len(F), Content(r, k, F),
           k.active # 0 => r.state = "active"
    PROVE  Content(Record(r, id, kind), k, F)
<1>. DEFINE q == Record(r, id, kind)
            f == k.active
            last == Len(r.sections)
<1>. SUFFICES ASSUME f # 0 PROVE /\ k.count = Len(F[f].lines)
                                 /\ NoneOpen(F[f].lines)
                                 /\ Pipe(F[f].lines, q.operations, q.entries, SentNow(q))
  BY DEF Content
<1>1. /\ k.count = Len(F[f].lines) /\ NoneOpen(F[f].lines)
      /\ Pipe(F[f].lines, r.operations, r.entries, SentNow(r)) /\ r.state = "active"
  BY DEF Content
<1>2. /\ q.state = r.state /\ q.operations = r.operations /\ Len(q.sections) = last
      /\ Entry(id) \in Entries
      /\ \/ q = r
         \/ /\ last \in 1 .. last /\ r.sections[last] \in Sections
            /\ q.entries = Append(r.entries, Entry(id))
            /\ q.sections[last].sent = Append(r.sections[last].sent, Entry(id))
  BY RecordedIs
<1>. HIDE DEF q
<1>3. CASE q = r
  BY <1>1, <1>3
<1>4. CASE /\ r.sections[last] \in Sections /\ q.entries = Append(r.entries, Entry(id))
           /\ q.sections[last].sent = Append(r.sections[last].sent, Entry(id))
  <2>1. SentNow(r) = r.sections[last].sent /\ SentNow(q) = Append(SentNow(r), Entry(id))
    BY <1>1, <1>2, <1>4 DEF SentNow
  <2>2. SentNow(r) \in Seq(Entries) /\ r.entries \in Seq(Entries) /\ r.operations \in Seq(Ops)
    BY <1>4, <2>1 DEF Sections, Recorders
  <2>3. F[f].lines \in Seq(Entries)
    <3>1. F[f] \in FileSet
      OBVIOUS
    <3> QED
      BY <3>1 DEF FileSet
  <2> QED
    BY <1>1, <1>2, <1>4, <2>1, <2>2, <2>3, PipeRecords
<1> QED
  BY <1>2, <1>3, <1>4

LEMMA RecordKeepsComplete ==
    ASSUME NEW r \in Recorders, LastIsNow(r), InCourse(r), NEW id \in Ids, NEW kind,
           NEW file \in FileSet, Complete(r, file)
    PROVE  Complete(Record(r, id, kind), file)
<1>. DEFINE q == Record(r, id, kind)
            last == Len(r.sections)
<1>1. /\ q.state = r.state /\ q.id = r.id /\ q.path = r.path /\ q.over = r.over
      /\ Len(q.sections) = last
      /\ \/ q = r
         \/ /\ r.state = "active" /\ last \in 1 .. last
            /\ \A s \in 1 .. last : s # last => q.sections[s] = r.sections[s]
  BY RecordedIs
<1>4. \A s \in 1 .. last : q.sections[s].start = r.sections[s].start
  BY RecordedIs
<1>. SUFFICES Complete(q, file)
  OBVIOUS
<1>. HIDE DEF q
<1>2. CASE q = r
  BY <1>2
<1>3. CASE /\ r.state = "active" /\ last \in 1 .. last
           /\ \A s \in 1 .. last : s # last => q.sections[s] = r.sections[s]
  <2>. SUFFICES ASSUME file.footer # NoFooter PROVE Complete(q, file)
    BY DEF Complete
  <2>2. file.path # r.path
    BY <1>3 DEF Complete, PathNow, InCourse
  <2>3. r.sections[last].start = r.path
    BY <1>3 DEF LastIsNow
  <2>4. \A s \in 1 .. last : r.sections[s].start = file.path => q.sections[s] = r.sections[s]
    BY <1>3, <2>2, <2>3
  <2> QED
    BY <1>1, <1>4, <2>4 DEF Complete, PathNow
<1> QED
  BY <1>1, <1>2, <1>3

-----------------------------------------------------------------------------
(* An answer *)

\* An answer that matches none of the entries changes none.
LEMMA AnsweredSame ==
    ASSUME NEW sent \in Seq(Entries), NEW id \in Ids, NEW outcome \in Settled,
           \A i \in 1 .. Len(sent) : sent[i].id # id
    PROVE  Answered(sent, id, outcome) = sent
<1>1. /\ Answered(sent, id, outcome) \in Seq(Entries)
      /\ Len(Answered(sent, id, outcome)) = Len(sent)
      /\ \A i \in 1 .. Len(sent) :
            Answered(sent, id, outcome)[i] =
                IF sent[i].id = id THEN [id |-> id, outcome |-> outcome] ELSE sent[i]
  BY AnsweredIs
<1>2. \A i \in 1 .. Len(sent) : Answered(sent, id, outcome)[i] = sent[i]
  BY <1>1
<1> QED
  BY <1>1, <1>2, SeqEqual

\* What an answer makes of the buffer, and what it sends to the worker.
LEMMA SettlesIs ==
    ASSUME NEW r \in Recorders, NEW id \in Ids, NEW outcome \in Settled
    PROVE  LET q       == Terminal(r, id, outcome)
               entries == Answered(r.entries, id, outcome)
               n       == ReadyCount(entries)
               op      == Operation("append", r.path, SubSeq(entries, 1, n)) IN
           /\ q.state = r.state /\ q.id = r.id /\ q.path = r.path /\ q.over = r.over
           /\ q.sections = Witnessed(r.sections, id, outcome)
           /\ entries \in Seq(Entries) /\ Len(entries) = Len(r.entries)
           /\ Len(entries) \in Nat /\ n \in 0 .. Len(entries)
           /\ q.entries \in Seq(Entries) /\ Len(q.entries) = Len(entries) - n
           /\ \A j \in 1 .. Len(q.entries) : q.entries[j] = entries[n + j]
           /\ q.entries # << >> => q.entries[1].outcome = "open"
           /\ \/ n = 0 /\ q.operations = r.operations
              \/ /\ n # 0 /\ op \in Ops /\ op.op = "append" /\ q.operations \in Seq(Ops)
                 /\ Len(op.lines) = n /\ \A j \in 1 .. n : op.lines[j] = entries[j]
                 /\ NoneOpen(op.lines)
                 /\ Len(q.operations) = Len(r.operations) + 1
                 /\ \A i \in 1 .. Len(r.operations) : q.operations[i] = r.operations[i]
                 /\ q.operations[Len(r.operations) + 1] = op
<1>. DEFINE q       == Terminal(r, id, outcome)
            entries == Answered(r.entries, id, outcome)
            n       == ReadyCount(entries)
            front   == SubSeq(entries, 1, n)
            op      == Operation("append", r.path, front)
<1>1. /\ q.state = r.state /\ q.id = r.id /\ q.path = r.path /\ q.over = r.over
      /\ q.sections = Witnessed(r.sections, id, outcome)
      /\ q.entries = SubSeq(entries, n + 1, Len(entries))
      /\ \/ n = 0 /\ q.operations = r.operations
         \/ n # 0 /\ q.operations = Append(r.operations, op) /\ op \in Ops
  BY TerminalIs
<1>2. entries \in Seq(Entries) /\ Len(entries) = Len(r.entries)
  BY ZenonT(40), AnsweredIs DEF Recorders
<1>. HIDE DEF entries, q
<1>3. /\ n \in 0 .. Len(entries) /\ \A i \in 1 .. n : entries[i].outcome # "open"
      /\ n < Len(entries) => entries[n + 1].outcome = "open"
  BY <1>2, ReadyCountIs
<1>. HIDE DEF n
<1>4. /\ Len(front) = n /\ \A j \in 1 .. n : front[j] = entries[j]
      /\ q.entries \in Seq(Entries) /\ Len(q.entries) = Len(entries) - n
      /\ \A j \in 1 .. Len(entries) - n : q.entries[j] = entries[n + j]
  BY <1>1, <1>2, <1>3, FlushIs
<1>. HIDE DEF front
<1>5. Len(entries) \in Nat
  BY <1>2
<1>6. q.entries # << >> => q.entries[1].outcome = "open"
  <2>1. SUFFICES ASSUME q.entries # << >> PROVE q.entries[1].outcome = "open"
    OBVIOUS
  <2>2. Len(q.entries) # 0
    BY <1>4, <2>1
  <2>3. n < Len(entries) /\ 1 \in 1 .. Len(entries) - n
    BY <1>3, <1>4, <1>5, <2>2
  <2> QED
    BY <1>3, <1>4, <2>3
<1>7. op.op = "append" /\ op.lines = front
  BY DEF Operation
<1>8. NoneOpen(op.lines)
  BY <1>3, <1>4, <1>7 DEF NoneOpen
<1>. HIDE DEF op
<1>9. n # 0 =>
         /\ q.operations \in Seq(Ops) /\ Len(q.operations) = Len(r.operations) + 1
         /\ \A i \in 1 .. Len(r.operations) : q.operations[i] = r.operations[i]
         /\ q.operations[Len(r.operations) + 1] = op
  <2>1. r.operations \in Seq(Ops)
    BY DEF Recorders
  <2>2. SUFFICES ASSUME op \in Ops, q.operations = Append(r.operations, op)
                 PROVE  /\ q.operations \in Seq(Ops)
                        /\ Len(q.operations) = Len(r.operations) + 1
                        /\ \A i \in 1 .. Len(r.operations) : q.operations[i] = r.operations[i]
                        /\ q.operations[Len(r.operations) + 1] = op
    BY <1>1
  <2>3. /\ Append(r.operations, op) \in Seq(Ops)
        /\ Len(Append(r.operations, op)) = Len(r.operations) + 1
        /\ \A i \in 1 .. Len(r.operations) : Append(r.operations, op)[i] = r.operations[i]
        /\ Append(r.operations, op)[Len(r.operations) + 1] = op
    BY <2>1, <2>2, AppendProperties
  <2> QED
    BY <2>2, <2>3
<1> QED
  BY <1>1, <1>2, <1>3, <1>4, <1>5, <1>6, <1>7, <1>8, <1>9 DEF q, entries, n, op, front

LEMMA AnswerKeeps ==
    ASSUME NEW r \in Recorders, NEW A \in SUBSET Ids, NEW w \in Seq(Ids),
           Witness(r, A, w), Buffered(r, A), NEW id \in A, NEW outcome \in Settled
    PROVE  /\ Witness(Terminal(r, id, outcome), A \ {id}, w)
           /\ Buffered(Terminal(r, id, outcome), A \ {id})
<1>. DEFINE q       == Terminal(r, id, outcome)
            B       == A \ {id}
            entries == Answered(r.entries, id, outcome)
            n       == ReadyCount(entries)
            op      == Operation("append", r.path, SubSeq(entries, 1, n))
<1>1. /\ q.state = r.state /\ q.over = r.over
      /\ q.sections = Witnessed(r.sections, id, outcome)
      /\ Len(entries) = Len(r.entries) /\ Len(entries) \in Nat /\ n \in 0 .. Len(entries)
      /\ q.entries \in Seq(Entries) /\ Len(q.entries) = Len(entries) - n
      /\ \A j \in 1 .. Len(q.entries) : q.entries[j] = entries[n + j]
      /\ q.entries # << >> => q.entries[1].outcome = "open"
      /\ \/ n = 0 /\ q.operations = r.operations
         \/ /\ op.op = "append" /\ NoneOpen(op.lines) /\ q.operations \in Seq(Ops)
            /\ Len(q.operations) = Len(r.operations) + 1
            /\ \A i \in 1 .. Len(r.operations) : q.operations[i] = r.operations[i]
            /\ q.operations[Len(r.operations) + 1] = op
  BY SettlesIs
<1>2. r.sections \in Seq(Sections) /\ r.entries \in Seq(Entries) /\ r.operations \in Seq(Ops)
      /\ id \in Ids
  BY DEF Recorders
<1>3. /\ Len(q.sections) = Len(r.sections)
      /\ \A s \in 1 .. Len(r.sections) :
            q.sections[s].sent = Answered(r.sections[s].sent, id, outcome)
  BY <1>1, <1>2, WitnessedType
<1>4. \A j \in 1 .. Len(entries) :
         entries[j] = IF r.entries[j].id = id THEN [id |-> id, outcome |-> outcome]
                                              ELSE r.entries[j]
  BY <1>1, <1>2, AnsweredIs
<1>5. outcome # "open"
  BY AnswersAssumption DEF Settled
<1>. HIDE DEF q, entries, n, op
<1>6. Witness(q, B, w)
  <2>1. ASSUME NEW s \in 1 .. Len(r.sections), NEW i \in 1 .. Len(q.sections[s].sent)
        PROVE  /\ OnWire(w, q.sections[s].sent[i].id)
               /\ q.sections[s].sent[i].id \in B => q.sections[s].sent[i].outcome = "open"
    <3>. DEFINE sent == r.sections[s].sent
                told == Answered(sent, id, outcome)
    <3>1. r.sections[s] \in Sections
      BY <1>2
    <3>2. sent \in Seq(Entries)
      BY <3>1 DEF Sections
    <3>. HIDE DEF sent
    <3>3. /\ Len(told) = Len(sent)
          /\ \A j \in 1 .. Len(sent) : told[j] = IF sent[j].id = id
                                                THEN [id |-> id, outcome |-> outcome] ELSE sent[j]
      <4>1. id \in Ids
        BY <1>2
      <4> QED
        BY <3>2, <4>1, AnsweredIs
    <3>4. q.sections[s].sent = told
      BY <1>3 DEF sent
    <3>. HIDE DEF told
    <3>5. i \in 1 .. Len(sent) /\ q.sections[s].sent[i] = told[i]
      <4>1. i \in 1 .. Len(told)
        BY <2>1, <3>4
      <4> QED
        BY <3>3, <3>4, <4>1
    <3>6. OnWire(w, sent[i].id) /\ (sent[i].id \in A => sent[i].outcome = "open")
      BY <3>5 DEF Witness, sent
    <3>7. CASE sent[i].id = id
      <4>1. told[i].id = id
        BY <3>3, <3>5, <3>7
      <4> QED
        BY <3>5, <3>6, <3>7, <4>1
    <3>8. CASE sent[i].id # id
      BY <3>3, <3>5, <3>6, <3>8
    <3> QED
      BY <3>7, <3>8
  <2> QED
    BY <1>3, <2>1 DEF Witness
<1>7. Buffered(q, B)
  <2>1. q.entries # << >> => r.entries # << >>
    <3>1. SUFFICES ASSUME r.entries = << >> PROVE q.entries = << >>
      OBVIOUS
    <3>2. Len(q.entries) = 0
      BY <1>1, <3>1, EmptySeq
    <3> QED
      BY <1>1, <3>2, EmptySeq
  <2>2. \A i \in 1 .. Len(q.entries) : q.entries[i].outcome = "open" => q.entries[i].id \in B
    <3>. SUFFICES ASSUME NEW i \in 1 .. Len(q.entries), q.entries[i].outcome = "open"
                  PROVE  q.entries[i].id \in B
      OBVIOUS
    <3>1. n + i \in 1 .. Len(entries) /\ q.entries[i] = entries[n + i]
      BY <1>1
    <3>2. r.entries[n + i].id # id /\ entries[n + i] = r.entries[n + i]
      BY <1>4, <1>5, <3>1
    <3> QED
      BY <1>1, <3>1, <3>2 DEF Buffered
  <2>3. ASSUME NEW i \in 1 .. Len(q.operations)
        PROVE  /\ q.operations[i].op = "append" => NoneOpen(q.operations[i].lines)
               /\ q.operations[i].op = "end" /\ Transitioning(q) => q.operations[i].lines = << >>
    <3>1. Transitioning(q) <=> Transitioning(r)
      BY <1>1 DEF Transitioning
    <3>2. CASE i \in 1 .. Len(r.operations)
      <4>1. q.operations[i] = r.operations[i]
        BY <1>1, <3>2
      <4> QED
        BY <3>1, <3>2, <4>1 DEF Buffered
    <3>3. CASE i \notin 1 .. Len(r.operations)
      <4>1. q.operations[i] = op /\ op.op = "append" /\ NoneOpen(op.lines)
        BY <1>1, <1>2, <2>3, <3>3
      <4> QED
        BY <4>1
    <3> QED
      BY <3>2, <3>3
  <2> QED
    BY <1>1, <2>1, <2>2, <2>3 DEF Buffered
<1> QED
  BY <1>6, <1>7 DEF q

LEMMA AnswerKeepsContent ==
    ASSUME NEW r \in Recorders, LastIsNow(r), NEW A \in SUBSET Ids, NEW w \in Seq(Ids),
           Witness(r, A, w), Buffered(r, A), NEW id \in A, NEW outcome \in Settled,
           NEW k, NEW F \in Seq(FileSet), k.active \in 0 .. Len(F), Content(r, k, F),
           k.active # 0 => r.state = "active",
           k.active # 0 => \A i \in 1 .. Len(r.operations) : r.operations[i].op = "append"
    PROVE  Content(Terminal(r, id, outcome), k, F)
<1>. DEFINE q       == Terminal(r, id, outcome)
            f       == k.active
            lines   == F[f].lines
            sent    == r.sections[Len(r.sections)].sent
            told    == Answered(sent, id, outcome)
            entries == Answered(r.entries, id, outcome)
            n       == ReadyCount(entries)
            op      == Operation("append", r.path, SubSeq(entries, 1, n))
<1>. SUFFICES ASSUME f # 0 PROVE /\ k.count = Len(lines) /\ NoneOpen(lines)
                                 /\ Pipe(lines, q.operations, q.entries, SentNow(q))
  BY DEF Content
<1>1. /\ q.state = r.state /\ q.sections = Witnessed(r.sections, id, outcome)
      /\ entries \in Seq(Entries) /\ n \in 0 .. Len(entries)
      /\ q.entries \in Seq(Entries) /\ Len(q.entries) = Len(entries) - n
      /\ \A j \in 1 .. Len(q.entries) : q.entries[j] = entries[n + j]
      /\ \/ n = 0 /\ q.operations = r.operations
         \/ /\ n # 0 /\ op \in Ops /\ q.operations \in Seq(Ops)
            /\ Len(op.lines) = n /\ \A j \in 1 .. n : op.lines[j] = entries[j]
            /\ Len(q.operations) = Len(r.operations) + 1
            /\ \A i \in 1 .. Len(r.operations) : q.operations[i] = r.operations[i]
            /\ q.operations[Len(r.operations) + 1] = op
  BY SettlesIs
<1>2. /\ r.sections \in Seq(Sections) /\ r.entries \in Seq(Entries)
      /\ r.operations \in Seq(Ops) /\ id \in Ids
  BY DEF Recorders
<1>3. Len(r.sections) \in 1 .. Len(r.sections)
  BY DEF LastIsNow
<1>4. sent \in Seq(Entries)
  <2>1. r.sections[Len(r.sections)] \in Sections
    BY <1>2, <1>3
  <2> QED
    BY <2>1 DEF Sections
<1>5. lines \in Seq(Entries)
  <2>1. F[f] \in FileSet
    OBVIOUS
  <2> QED
    BY <2>1 DEF FileSet
<1>6. SentNow(r) = sent /\ SentNow(q) = told
  <2>2. /\ Len(q.sections) = Len(r.sections)
        /\ \A s \in 1 .. Len(r.sections) :
              q.sections[s].sent = Answered(r.sections[s].sent, id, outcome)
    BY <1>1, <1>2, WitnessedType
  <2>. HIDE DEF q
  <2>1. /\ Len(q.sections) = Len(r.sections)
        /\ q.sections[Len(r.sections)].sent = told
    BY <1>3, <2>2
  <2> QED
    BY <1>1, <2>1 DEF SentNow
<1>7. /\ k.count = Len(lines) /\ NoneOpen(lines)
      /\ Pipe(lines, r.operations, r.entries, sent)
  BY <1>6 DEF Content
<1>8. \A j \in 1 .. Len(sent) : sent[j].id = id => sent[j].outcome = "open"
  BY <1>3 DEF Witness
<1>9. \A i \in 1 .. Len(r.operations) : NoneOpen(r.operations[i].lines)
  BY DEF Buffered
<1>10. told \in Seq(Entries)
  BY <1>2, <1>4, AnsweredIs
<1>. HIDE DEF q, lines, sent, n, op
<1>11. Pipe(lines, r.operations, entries, told)
  BY <1>2, <1>4, <1>5, <1>7, <1>8, <1>9, PipeAnswers
<1>. HIDE DEF told, entries
<1>12. Pipe(lines, q.operations, q.entries, told)
  <2>1. CASE n = 0 /\ q.operations = r.operations
    <3>1. Len(q.entries) = Len(entries) /\ \A j \in 1 .. Len(q.entries) : q.entries[j] = entries[j]
      <4>1. \A j \in 1 .. Len(q.entries) : n + j = j
        BY <2>1
      <4>2. Len(entries) \in Nat
        BY <1>1
      <4> QED
        BY <1>1, <2>1, <4>1, <4>2
    <3>2. q.entries = entries
      BY <1>1, <3>1, SeqEqual
    <3> QED
      BY <1>11, <2>1, <3>2
  <2>2. CASE n # 0
    <3>1. Flushes(op, entries, q.entries) /\ Queues(r.operations, op, q.operations)
      BY <1>1, <2>2 DEF Flushes, Queues
    <3> QED
      BY <1>2, <1>5, <1>10, <1>11, <1>1, <3>1, PipeAsks
  <2> QED
    BY <1>1, <2>1, <2>2
<1> QED
  BY <1>6, <1>7, <1>12

LEMMA AnswerKeepsComplete ==
    ASSUME NEW r \in Recorders, InCourse(r), NEW A \in SUBSET Ids, NEW w \in Seq(Ids),
           Witness(r, A, w), NEW id \in A, NEW outcome \in Settled,
           NEW file \in FileSet, Complete(r, file)
    PROVE  Complete(Terminal(r, id, outcome), file)
<1>. DEFINE q == Terminal(r, id, outcome)
<1>. SUFFICES ASSUME file.footer # NoFooter PROVE Complete(q, file)
  BY DEF Complete
<1>1. /\ q.state = r.state /\ q.id = r.id /\ q.path = r.path /\ q.over = r.over
      /\ q.sections = Witnessed(r.sections, id, outcome)
  BY SettlesIs
<1>2. r.sections \in Seq(Sections) /\ id \in Ids
  BY DEF Recorders
<1>3. /\ Len(q.sections) = Len(r.sections)
      /\ \A s \in 1 .. Len(r.sections) :
            /\ q.sections[s].start = r.sections[s].start
            /\ q.sections[s].sent = Answered(r.sections[s].sent, id, outcome)
  BY <1>1, <1>2, WitnessedType
<1>. HIDE DEF q
<1>4. ASSUME NEW s \in 1 .. Len(r.sections), r.sections[s].start = file.path
      PROVE  file.lines = q.sections[s].sent
  <2>. DEFINE sent == r.sections[s].sent
  <2>1. r.sections[s] \in Sections
    BY <1>2
  <2>2. sent \in Seq(Entries)
    BY <2>1 DEF Sections
  <2>3. file.lines = sent /\ NoneOpen(sent)
    BY <1>4 DEF Complete, InCourse
  <2>4. \A i \in 1 .. Len(sent) : sent[i].id \in A => sent[i].outcome = "open"
    BY DEF Witness
  <2>5. \A i \in 1 .. Len(sent) : sent[i].id # id
    BY <2>3, <2>4 DEF NoneOpen
  <2>6. q.sections[s].sent = Answered(sent, id, outcome)
    BY <1>3
  <2>. HIDE DEF sent
  <2>7. Answered(sent, id, outcome) = sent
    BY <1>2, <2>2, <2>5, AnsweredSame
  <2> QED
    BY <2>3, <2>6, <2>7
<1> QED
  BY <1>1, <1>3, <1>4 DEF Complete, PathNow

-----------------------------------------------------------------------------
(* The invariant *)

HasFile(path) == \E f \in 1 .. Len(files) : files[f].path = path

\* Every recording has a file, and its path is its own.
Named ==
    /\ \A s \in 1 .. Len(recorder.sections) : HasFile(recorder.sections[s].start)
    /\ \A path : Opened /\ path = Current => HasFile(path)
    /\ LastIsNow(recorder)
    /\ recorder.state = "starting" =>
          \A s \in 1 .. Len(recorder.sections) : recorder.sections[s].start # recorder.id

Filed ==
    /\ Named
    /\ Witness(recorder, active, wire)
    /\ Buffered(recorder, active)
    /\ Content(recorder, worker, files)
    /\ \A f \in 1 .. Len(files) : Complete(recorder, files[f])

-----------------------------------------------------------------------------
(* The calls that record a command or what became of it *)

LEMMA CourseKeepsNamed ==
    ASSUME RecorderTypeOK, Named, SameCourse
    PROVE  Named'
<1>1. /\ UNCHANGED <<worker, files, recorder.state, recorder.id, recorder.path>>
      /\ Len(recorder'.sections) = Len(recorder.sections)
      /\ \A s \in 1 .. Len(recorder.sections) :
            recorder'.sections[s].start = recorder.sections[s].start
  BY DEF SameCourse, SameSections
<1>2. /\ \A path : HasFile(path)' <=> HasFile(path)
      /\ Opened' <=> Opened /\ \A path : path = Current' <=> path = Current
  BY <1>1 DEF HasFile, Opened, Acknowledged, Current
<1>3. LastIsNow(recorder')
  BY <1>1 DEF Named, LastIsNow
<1> QED
  BY <1>1, <1>2, <1>3 DEF Named

\* Between the calls and outside of transitions, the queue has appends only.
LEMMA OnlyAppends ==
    ASSUME RecorderTypeOK, Protocol, InCourse(recorder)
    PROVE  /\ \A i \in 1 .. Len(recorder.operations) : recorder.operations[i].op = "append"
           /\ worker.active # 0 => recorder.state = "active"
<1>1. ASSUME NEW i \in Asked PROVE Operations[i].op = "append"
  <2>1. Operations[i] \in Ops
    BY DEF RecorderTypeOK, Recorders, Operations, Asked
  <2>2. Operations[i].op \in {"start", "append", "stop", "end"}
    BY <2>1 DEF Ops
  <2> QED
    BY <2>2 DEF Protocol, OperationsMatch, EndIsLast, InCourse, Transitioning
<1>2. worker.active # 0 => recorder.state = "active"
  BY DEF Protocol, WorkerMatches, Opened, InCourse, Transitioning
<1> QED
  BY <1>1, <1>2 DEF Asked, Operations

LEMMA SendKeepsFiled ==
    ASSUME RecorderTypeOK, Protocol, Filed, NEW id \in Ids, NEW kind, CallSend(id, kind)
    PROVE  Filed'
<1>1. /\ InCourse(recorder) /\ UNCHANGED <<worker, files>>
      /\ recorder' = Record(recorder, id, kind) /\ active' = active \cup {id}
      /\ wire' = Append(wire, id) /\ NextOnWire(id)
  BY DEF CallSend, MaySend, InCourse
<1>2. recorder \in Recorders /\ active \in SUBSET Ids /\ wire \in Seq(Ids)
      /\ files \in Seq(FileSet) /\ worker.active \in 0 .. Len(files)
  BY DEF RecorderTypeOK, Workers
<1>3. ~OnWire(wire, id)
  BY <1>1, <1>2, LastIdAssumption DEF OnWire, NextOnWire, Ids, NormalIds
<1>4. /\ LastIsNow(recorder) /\ Witness(recorder, active, wire) /\ Buffered(recorder, active)
      /\ Content(recorder, worker, files)
      /\ \A f \in 1 .. Len(files) : Complete(recorder, files[f])
  BY DEF Filed, Named
<1>5. Witness(recorder', active', wire') /\ Buffered(recorder', active')
  BY <1>1, <1>2, <1>3, <1>4, RecordKeeps
<1>6. Content(recorder', worker', files')
  BY <1>1, <1>2, <1>4, OnlyAppends, RecordKeepsContent
<1>7. \A f \in 1 .. Len(files') : Complete(recorder', files'[f])
  <2>1. ASSUME NEW f \in 1 .. Len(files) PROVE Complete(Record(recorder, id, kind), files[f])
    <3>1. files[f] \in FileSet
      BY <1>2
    <3> QED
      BY <1>1, <1>2, <1>4, <3>1, RecordKeepsComplete
  <2> QED
    BY <1>1, <2>1
<1>8. Named'
  BY SendIs, CourseKeepsNamed DEF Filed
<1> QED
  BY <1>5, <1>6, <1>7, <1>8 DEF Filed

LEMMA AnswerKeepsFiled ==
    ASSUME RecorderTypeOK, Protocol, Filed, NEW id \in Ids, NEW outcome \in Answers,
           CallTerminal(id, outcome)
    PROVE  Filed'
<1>1. /\ UNCHANGED <<worker, files, wire>> /\ id \in active
      /\ recorder' = Terminal(recorder, id, outcome) /\ active' = active \ {id}
      /\ outcome \in Settled
  BY DEF CallTerminal, Settled
<1>2. recorder \in Recorders /\ active \in SUBSET Ids /\ wire \in Seq(Ids)
      /\ files \in Seq(FileSet) /\ worker.active \in 0 .. Len(files)
  BY DEF RecorderTypeOK, Workers
<1>3. SameCourse /\ InCourse(recorder)
  BY CallTerminalIs DEF Protocol, SameCourse, InCourse
<1>4. /\ LastIsNow(recorder) /\ Witness(recorder, active, wire) /\ Buffered(recorder, active)
      /\ Content(recorder, worker, files)
      /\ \A f \in 1 .. Len(files) : Complete(recorder, files[f])
  BY DEF Filed, Named
<1>5. Witness(recorder', active', wire') /\ Buffered(recorder', active')
  BY <1>1, <1>2, <1>4, AnswerKeeps
<1>6. Content(recorder', worker', files')
  BY <1>1, <1>2, <1>3, <1>4, OnlyAppends, AnswerKeepsContent
<1>7. \A f \in 1 .. Len(files') : Complete(recorder', files'[f])
  <2>1. ASSUME NEW f \in 1 .. Len(files) PROVE Complete(Terminal(recorder, id, outcome), files[f])
    <3>1. files[f] \in FileSet
      BY <1>2
    <3> QED
      BY <1>1, <1>2, <1>3, <1>4, <3>1, AnswerKeepsComplete
  <2> QED
    BY <1>1, <2>1
<1>8. Named'
  BY <1>3, CourseKeepsNamed DEF Filed
<1> QED
  BY <1>5, <1>6, <1>7, <1>8 DEF Filed

\* A command the writer refused is recorded, and answered at once.
LEMMA SendFailedKeepsFiled ==
    ASSUME RecorderTypeOK, Protocol, Filed, NEW id \in Ids, NEW kind, CallSendFailed(id, kind)
    PROVE  Filed'
<1>. DEFINE r == Record(recorder, id, kind)
            A == active \cup {id}
            w == Append(wire, id)
<1>1. /\ InCourse(recorder) /\ UNCHANGED <<worker, files, active>>
      /\ recorder' = Terminal(r, id, "io")
      /\ wire' = w /\ NextOnWire(id) /\ "io" \in Settled
  BY DEF CallSendFailed, MaySend, InCourse, Settled
<1>2. recorder \in Recorders /\ active \in SUBSET Ids /\ wire \in Seq(Ids)
      /\ files \in Seq(FileSet) /\ worker.active \in 0 .. Len(files)
  BY DEF RecorderTypeOK, Workers
<1>3. ~OnWire(wire, id)
  BY <1>1, <1>2, LastIdAssumption DEF OnWire, NextOnWire, Ids, NormalIds
<1>4. /\ LastIsNow(recorder) /\ Witness(recorder, active, wire) /\ Buffered(recorder, active)
      /\ Content(recorder, worker, files)
      /\ \A f \in 1 .. Len(files) : Complete(recorder, files[f])
  BY DEF Filed, Named
<1>5. Witness(r, A, w) /\ Buffered(r, A)
  BY <1>1, <1>2, <1>3, <1>4, RecordKeeps
<1>6. Content(r, worker, files)
  BY <1>1, <1>2, <1>4, OnlyAppends, RecordKeepsContent
<1>7. \A f \in 1 .. Len(files) : files[f] \in FileSet /\ Complete(r, files[f])
  <2>1. ASSUME NEW f \in 1 .. Len(files) PROVE files[f] \in FileSet /\ Complete(r, files[f])
    <3>1. files[f] \in FileSet
      BY <1>2
    <3> QED
      BY <1>1, <1>2, <1>4, <3>1, RecordKeepsComplete
  <2> QED
    BY <2>1
<1>8. r \in Recorders
  BY <1>2, RecordType
<1>9. /\ r.state = recorder.state /\ r.path = recorder.path /\ r.over = recorder.over
      /\ r.operations = recorder.operations /\ Len(r.sections) = Len(recorder.sections)
      /\ \A s \in 1 .. Len(recorder.sections) :
            r.sections[s].start = recorder.sections[s].start
  BY <1>2, <1>4, RecordedIs
<1>10. A \in SUBSET Ids /\ id \in A /\ w \in Seq(Ids) /\ A \ {id} = active
  BY <1>2, <1>3, <1>4 DEF Witness
<1>. HIDE DEF r, A, w
<1>11. LastIsNow(r) /\ InCourse(r)
  BY <1>1, <1>4, <1>9 DEF LastIsNow, InCourse, Transitioning
<1>12. Witness(recorder', active', wire') /\ Buffered(recorder', active')
  BY <1>1, <1>5, <1>8, <1>10, AnswerKeeps
<1>13. Content(recorder', worker', files')
  <2>1. worker.active # 0 => r.state = "active"
    BY <1>1, <1>9, OnlyAppends
  <2>2. \A i \in 1 .. Len(r.operations) : r.operations[i].op = "append"
    BY <1>1, <1>9, OnlyAppends
  <2> QED
    BY <1>1, <1>2, <1>5, <1>6, <1>8, <1>10, <1>11, <2>1, <2>2, AnswerKeepsContent
<1>14. \A f \in 1 .. Len(files') : Complete(recorder', files'[f])
  <2>1. ASSUME NEW f \in 1 .. Len(files) PROVE Complete(Terminal(r, id, "io"), files[f])
    BY <1>1, <1>5, <1>7, <1>8, <1>10, <1>11, AnswerKeepsComplete
  <2> QED
    BY <1>1, <2>1
<1>15. Named'
  BY SendFailedIs, CourseKeepsNamed DEF Filed
<1> QED
  BY <1>12, <1>13, <1>14, <1>15 DEF Filed

-----------------------------------------------------------------------------
(* The other calls *)

\* What waits in the buffer waits for the game.
LEMMA NothingBuffered ==
    ASSUME RecorderTypeOK, Buffered(recorder, active),
           active = {} \/ recorder.state # "active" \/ recorder.over
    PROVE  recorder.entries = << >>
<1>1. recorder.entries \in Seq(Entries)
  BY DEF RecorderTypeOK, Recorders
<1>2. recorder.entries # << >> => 1 \in 1 .. Len(recorder.entries)
  BY <1>1
<1> QED
  BY <1>2 DEF Buffered

\* A longer queue, with one operation without lines.
LEMMA AsksQueues ==
    ASSUME RecorderTypeOK, RecorderTypeOK', NEW op, Asks(op)
    PROVE  Queues(recorder.operations, op, recorder'.operations)
<1>1. recorder'.operations \in Seq(Ops)
  BY DEF RecorderTypeOK, Recorders
<1> QED
  BY <1>1 DEF Queues, Asks, Asked, Operations

LEMMA ControlKeepsFiled ==
    ASSUME RecorderTypeOK, RecorderTypeOK', Protocol, Protocol', Filed,
           NEW id \in NormalIds, NEW kind \in RecordKinds, NEW pending \in BOOLEAN,
           CallControl(id, kind, pending)
    PROVE  Filed'
<1>1. /\ active = {} /\ ~recorder.over /\ recorder'.id = id
      /\ UNCHANGED <<worker, files, active, wire, recorder.path, recorder.entries,
                     recorder.over, recorder.sections>>
      /\ \/ /\ recorder.state = "idle" /\ recorder'.state = "starting"
            /\ Asks(Operation("start", id, << >>))
         \/ /\ recorder.state = "active" /\ recorder'.state = "stopping"
            /\ Asks(Operation("stop", recorder.path, << >>))
  BY ControlIs
<1>2. \A f \in 1 .. Len(files) : files[f].path < id
  <2>1. DOMAIN files = 1 .. Len(files)
    BY DEF RecorderTypeOK
  <2> QED
    BY <2>1 DEF CallControl
<1>3. \A f \in 1 .. Len(files) : files[f].path \in Nat /\ files[f].path # id
  <2>1. ASSUME NEW f \in 1 .. Len(files) PROVE files[f].path \in Nat
    <3>1. files[f] \in FileSet
      BY DEF RecorderTypeOK
    <3> QED
      BY <3>1, LastIdAssumption DEF FileSet, Paths
  <2> QED
    BY <1>2, <2>1, LastIdAssumption DEF NormalIds
<1>4. recorder.entries = << >> /\ recorder'.entries = << >>
  BY <1>1, NothingBuffered DEF Filed
<1>5. PICK op : /\ Asks(op) /\ op.lines = << >> /\ op.op \in {"start", "stop"} /\ op \in Ops
  <2>1. ASSUME NEW path \in Paths, NEW name \in {"start", "stop"}
        PROVE  /\ Operation(name, path, << >>).lines = << >>
               /\ Operation(name, path, << >>).op = name
               /\ Operation(name, path, << >>) \in Ops
    BY <2>1, EmptySeq DEF Operation, Ops
  <2>2. id \in Paths /\ recorder.path \in Paths
    BY LastIdAssumption DEF NormalIds, Paths, RecorderTypeOK, Recorders
  <2>3. CASE Asks(Operation("start", id, << >>))
    BY <2>1, <2>2, <2>3
  <2>4. CASE Asks(Operation("stop", recorder.path, << >>))
    BY <2>1, <2>2, <2>4
  <2> QED
    BY <1>1, <2>3, <2>4
<1>6. Named'
  <2>1. \A path : HasFile(path)' <=> HasFile(path)
    BY <1>1 DEF HasFile
  <2>2. CASE recorder.state = "idle" /\ recorder'.state = "starting"
    <3>1. Len(Operations') \in 1 .. Len(Operations')
      <4>1. Len(Operations) \in Nat
        BY DEF RecorderTypeOK, Recorders, Operations
      <4> QED
        BY <1>5, <4>1 DEF Asks
    <3>2. Operations'[Len(Operations')].op \in {"start", "stop"}
      <4>1. Len(Operations') = Len(Operations) + 1
        BY <1>5 DEF Asks
      <4> QED
        BY <1>5, <4>1 DEF Asks
    <3>3. ~Opened'
      <4>1. Operations'[Len(Operations')].op = "start"
        BY <2>2, <3>1, <3>2 DEF Protocol, OperationsMatch, Asked
      <4>2. worker'.replies = << >>
        BY <3>1, <4>1 DEF Protocol, OperationsMatch, Asked
      <4> QED
        BY <2>2, <4>2 DEF Opened, Acknowledged
    <3>4. \A s \in 1 .. Len(recorder.sections) : recorder.sections[s].start # id
      BY <1>3 DEF Filed, Named, HasFile
    <3>5. LastIsNow(recorder')
      BY <2>2 DEF LastIsNow
    <3> QED
      BY <1>1, <2>1, <2>2, <3>3, <3>4, <3>5 DEF Filed, Named
  <2>3. CASE recorder.state = "active" /\ recorder'.state = "stopping"
    <3>1. Opened /\ Opened' /\ Current = recorder.path /\ Current' = recorder.path
      BY <1>1, <2>3 DEF Opened, Current
    <3>2. LastIsNow(recorder')
      BY <1>1, <2>3 DEF LastIsNow, Filed, Named
    <3> QED
      BY <1>1, <2>1, <2>3, <3>1, <3>2 DEF Filed, Named
  <2> QED
    BY <1>1, <2>2, <2>3
<1>7. Witness(recorder', active', wire')
  BY <1>1 DEF Filed, Witness
<1>8. Buffered(recorder', active')
  <2>1. ASSUME NEW i \in 1 .. Len(recorder'.operations)
        PROVE  /\ recorder'.operations[i].op = "append" => NoneOpen(recorder'.operations[i].lines)
               /\ recorder'.operations[i].op # "end"
    <3>1. Len(recorder.operations) \in Nat
      BY DEF RecorderTypeOK, Recorders
    <3>2. CASE i \in 1 .. Len(recorder.operations)
      <4>1. recorder'.operations[i] = recorder.operations[i] /\ i \in Asked
        BY <1>5, <3>2 DEF Asks, Asked, Operations
      <4>2. recorder.operations[i].op # "end"
        BY <1>1, <4>1 DEF Protocol, EndIsLast, Operations
      <4> QED
        BY <3>2, <4>1, <4>2 DEF Filed, Buffered
    <3>3. CASE i \notin 1 .. Len(recorder.operations)
      <4>1. recorder'.operations[i] = op
        BY <1>5, <2>1, <3>1, <3>3 DEF Asks, Operations
      <4> QED
        BY <1>5, <4>1
    <3> QED
      BY <3>2, <3>3
  <2>2. Len(recorder'.entries) = 0
    BY <1>4, EmptySeq
  <2> QED
    BY <1>4, <2>1, <2>2 DEF Buffered
<1>9. Content(recorder', worker', files')
  <2>1. CASE worker.active = 0
    BY <1>1, <2>1 DEF Content
  <2>2. CASE worker.active # 0
    <3>. DEFINE lines == files[worker.active].lines
    <3>1. recorder.state = "active" /\ recorder'.state = "stopping"
      BY <1>1, <2>2 DEF Protocol, WorkerMatches, Opened
    <3>2. SentNow(recorder') = SentNow(recorder)
      BY <1>1, <3>1 DEF SentNow
    <3>3. /\ worker.count = Len(lines) /\ NoneOpen(lines)
          /\ Pipe(lines, recorder.operations, recorder.entries, SentNow(recorder))
      BY <2>2 DEF Filed, Content
    <3>4. Flushes(op, recorder.entries, recorder.entries)
      BY <1>4, <1>5, EmptySeq DEF Flushes
    <3>5. SentNow(recorder) \in Seq(Entries) /\ lines \in Seq(Entries)
      <4>1. recorder.sections[Len(recorder.sections)] \in Sections
        BY <3>1 DEF Filed, Named, LastIsNow, RecorderTypeOK, Recorders
      <4>2. files[worker.active] \in FileSet
        BY <2>2, FileOf
      <4> QED
        BY <3>1, <4>1, <4>2 DEF Sections, FileSet, SentNow
    <3>6. recorder.operations \in Seq(Ops) /\ recorder.entries \in Seq(Entries)
      BY DEF RecorderTypeOK, Recorders
    <3>7. Queues(recorder.operations, op, recorder'.operations)
      BY <1>5, AsksQueues
    <3>. HIDE DEF lines
    <3>8. Pipe(lines, recorder'.operations, recorder.entries, SentNow(recorder))
      BY <3>3, <3>4, <3>5, <3>6, <3>7, PipeAsks
    <3> QED
      BY <1>1, <3>2, <3>3, <3>8 DEF Content, lines
  <2> QED
    BY <2>1, <2>2
<1>10. \A f \in 1 .. Len(files) : Complete(recorder', files[f])
  <2>. TAKE f \in 1 .. Len(files)
  <2>1. Complete(recorder, files[f])
    BY DEF Filed
  <2>2. recorder'.state = "starting" => PathNow(recorder') = id
    BY <1>1 DEF PathNow
  <2> QED
    BY <1>1, <1>3, <2>1, <2>2 DEF Complete
<1>11. \A f \in 1 .. Len(files') : Complete(recorder', files'[f])
  BY <1>1, <1>10
<1> QED
  BY <1>6, <1>7, <1>8, <1>9, <1>11 DEF Filed

LEMMA EndKeepsFiled ==
    ASSUME RecorderTypeOK, RecorderTypeOK', Protocol, Filed, CallEnd
    PROVE  Filed'
<1>. DEFINE op == Operation("end", recorder.path, recorder.entries)
<1>1. /\ ~recorder.over /\ recorder'.over /\ recorder'.entries = << >>
      /\ UNCHANGED <<worker, files, active, wire, recorder.state, recorder.id,
                     recorder.path, recorder.sections>>
      /\ op \in Ops /\ Asks(op)
  BY EndIs
<1>2. op.op = "end" /\ op.lines = recorder.entries
  BY DEF Operation
<1>. HIDE DEF op
<1>3. recorder.entries \in Seq(Entries) /\ recorder.operations \in Seq(Ops)
      /\ Len(recorder.operations) \in Nat /\ Len(<< >>) = 0
  BY EmptySeq DEF RecorderTypeOK, Recorders
<1>4. Named'
  <2>1. /\ \A path : HasFile(path)' <=> HasFile(path)
        /\ Opened' <=> Opened /\ \A path : path = Current' <=> path = Current
    BY <1>1 DEF HasFile, Opened, Acknowledged, Current
  <2>2. LastIsNow(recorder')
    BY <1>1 DEF LastIsNow, Filed, Named
  <2> QED
    BY <1>1, <2>1, <2>2 DEF Filed, Named
<1>5. Witness(recorder', active', wire')
  BY <1>1 DEF Filed, Witness
<1>6. Buffered(recorder', active')
  <2>1. ASSUME NEW i \in 1 .. Len(recorder'.operations)
        PROVE  /\ recorder'.operations[i].op = "append" => NoneOpen(recorder'.operations[i].lines)
               /\ recorder'.operations[i].op = "end" /\ Transitioning(recorder')
                     => recorder'.operations[i].lines = << >>
    <3>1. CASE i \in 1 .. Len(recorder.operations)
      <4>1. recorder'.operations[i] = recorder.operations[i]
        BY <1>1, <3>1 DEF Asks, Asked, Operations
      <4> QED
        BY <1>1, <3>1, <4>1 DEF Filed, Buffered, Transitioning
    <3>2. CASE i \notin 1 .. Len(recorder.operations)
      <4>1. recorder'.operations[i] = op
        BY <1>1, <1>3, <2>1, <3>2 DEF Asks, Operations
      <4>2. Transitioning(recorder') => recorder.entries = << >>
        BY <1>1, NothingBuffered DEF Filed, Transitioning
      <4> QED
        BY <1>2, <4>1, <4>2
    <3> QED
      BY <3>1, <3>2
  <2>2. Len(recorder'.entries) = 0
    BY <1>1, <1>3
  <2> QED
    BY <1>1, <2>1, <2>2 DEF Buffered
<1>7. Content(recorder', worker', files')
  <2>1. CASE worker.active = 0
    BY <1>1, <2>1 DEF Content
  <2>2. CASE worker.active # 0
    <3>. DEFINE lines == files[worker.active].lines
    <3>1. /\ worker.count = Len(lines) /\ NoneOpen(lines)
          /\ Pipe(lines, recorder.operations, recorder.entries, SentNow(recorder))
      BY <2>2 DEF Filed, Content
    <3>2. SentNow(recorder') = SentNow(recorder)
      BY <1>1 DEF SentNow
    <3>3. Flushes(op, recorder.entries, << >>)
      BY <1>1, <1>2, <1>3 DEF Flushes
    <3>4. lines \in Seq(Entries)
      <4>1. files[worker.active] \in FileSet
        BY <2>2, FileOf
      <4> QED
        BY <4>1 DEF FileSet
    <3>5. SentNow(recorder) \in Seq(Entries)
      <4>1. CASE recorder.state = "starting"
        BY <4>1 DEF SentNow
      <4>2. CASE recorder.state # "starting"
        <5>1. Len(recorder.sections) \in 1 .. Len(recorder.sections)
          BY <2>2, <4>2 DEF Protocol, WorkerMatches, Opened, Filed, Named, LastIsNow
        <5>2. recorder.sections[Len(recorder.sections)] \in Sections
          BY <5>1 DEF RecorderTypeOK, Recorders
        <5> QED
          BY <4>2, <5>2 DEF Sections, SentNow
      <4> QED
        BY <4>1, <4>2
    <3>6. Queues(recorder.operations, op, recorder'.operations)
      BY <1>1, AsksQueues
    <3>. HIDE DEF lines
    <3>7. Pipe(lines, recorder'.operations, << >>, SentNow(recorder))
      BY <1>3, <3>1, <3>3, <3>4, <3>5, <3>6, PipeAsks
    <3> QED
      BY <1>1, <3>1, <3>2, <3>7 DEF Content, lines
  <2> QED
    BY <2>1, <2>2
<1>8. \A f \in 1 .. Len(files) : Complete(recorder', files[f])
  <2>. TAKE f \in 1 .. Len(files)
  <2>1. Complete(recorder, files[f])
    BY DEF Filed
  <2> QED
    BY <1>1, <2>1 DEF Complete
<1>9. \A f \in 1 .. Len(files') : Complete(recorder', files'[f])
  BY <1>1, <1>8
<1> QED
  BY <1>4, <1>5, <1>6, <1>7, <1>9 DEF Filed

-----------------------------------------------------------------------------
(* A reply of the worker *)

\* The recording is under way, and nothing was sent yet.
LEMMA StartedKeepsFiled ==
    ASSUME RecorderTypeOK, Protocol, Filed, UNCHANGED <<active, wire, files>>,
           worker'.active = worker.active, worker'.count = worker.count,
           recorder.state = "starting", Opened, recorder' = Started(recorder)
    PROVE  Filed'
<1>. DEFINE section == [start |-> recorder.id, stop |-> 0, sent |-> << >>]
            last == Len(recorder.sections)
<1>1. recorder \in Recorders /\ recorder.sections \in Seq(Sections) /\ last \in Nat
  BY DEF RecorderTypeOK, Recorders
<1>2. section \in Sections
  <2>1. recorder.id \in Paths /\ 0 \in Paths
    BY <1>1, LastIdAssumption DEF Recorders, Paths
  <2> QED
    BY <2>1, EmptySeq DEF Sections
<1>3. section.start = recorder.id /\ section.sent = << >>
  OBVIOUS
<1>4. recorder' = [recorder EXCEPT !.state = "active", !.id = 0, !.path = recorder.id,
                                   !.sections = Append(recorder.sections, section)]
  BY DEF Started
<1>. HIDE DEF section
<1>5. /\ recorder'.state = "active" /\ recorder'.path = recorder.id
      /\ recorder'.entries = recorder.entries /\ recorder'.operations = recorder.operations
      /\ recorder'.over = recorder.over
      /\ recorder'.sections = Append(recorder.sections, section)
  BY <1>1, <1>4 DEF Recorders
<1>6. /\ Len(recorder'.sections) = last + 1 /\ recorder'.sections[last + 1] = section
      /\ \A s \in 1 .. last : recorder'.sections[s] = recorder.sections[s]
      /\ 1 .. last + 1 = 1 .. last \cup {last + 1}
  BY <1>1, <1>2, <1>5, AppendProperties
<1>7. \A s \in 1 .. last : recorder.sections[s].start # recorder.id
  BY DEF Filed, Named
<1>8. \A path : HasFile(path)' <=> HasFile(path)
  BY DEF HasFile
<1>9. \A path : path = recorder.id => HasFile(path)
  BY DEF Filed, Named, Current
<1>10. Named'
  <2>1. LastIsNow(recorder')
    BY <1>1, <1>3, <1>5, <1>6, <1>7 DEF LastIsNow
  <2>2. \A path : path = Current' => path = recorder.id
    BY <1>5 DEF Current
  <2>3. \A s \in 1 .. last + 1 : HasFile(recorder'.sections[s].start)
    BY <1>3, <1>6, <1>9 DEF Filed, Named
  <2>4. \A s : HasFile(recorder'.sections[s].start) => HasFile(recorder.sections[s].start)'
    BY <1>8
  <2> QED
    BY <1>5, <1>6, <1>8, <1>9, <2>1, <2>2, <2>3, <2>4 DEF Named
<1>11. Witness(recorder', active', wire')
  <2>1. Len(section.sent) = 0
    BY <1>3, EmptySeq
  <2>2. ASSUME NEW s \in 1 .. last + 1, NEW i \in 1 .. Len(recorder'.sections[s].sent)
        PROVE  /\ OnWire(wire, recorder'.sections[s].sent[i].id)
               /\ recorder'.sections[s].sent[i].id \in active
                     => recorder'.sections[s].sent[i].outcome = "open"
    <3>1. CASE s \in 1 .. last
      BY <1>6, <2>2, <3>1 DEF Filed, Witness
    <3>2. CASE s = last + 1
      <4>1. Len(recorder'.sections[s].sent) = 0
        BY <1>6, <2>1, <3>2
      <4> QED
        BY <2>2, <4>1
    <3> QED
      BY <1>6, <3>1, <3>2
  <2>3. wire' = wire /\ active' = active /\ \A id \in active : OnWire(wire, id)
    BY DEF Filed, Witness
  <2> QED
    BY <1>6, <2>2, <2>3 DEF Witness
<1>12. Buffered(recorder', active')
  BY <1>5 DEF Filed, Buffered, Transitioning
<1>13. Content(recorder', worker', files')
  <2>1. SentNow(recorder') = << >> /\ SentNow(recorder) = << >>
    BY <1>3, <1>5, <1>6 DEF SentNow
  <2> QED
    BY <1>5, <2>1 DEF Filed, Content
<1>14. \A f \in 1 .. Len(files) : Complete(recorder', files[f])
  <2>. TAKE f \in 1 .. Len(files)
  <2>1. Complete(recorder, files[f])
    BY DEF Filed
  <2>2. PathNow(recorder') = PathNow(recorder)
    BY <1>5 DEF PathNow
  <2>3. files[f].path = recorder.id =>
           \A s \in 1 .. last : recorder.sections[s].start # files[f].path
    BY <1>7
  <2> QED
    BY <1>3, <1>5, <1>6, <2>1, <2>2, <2>3 DEF Complete
<1>15. \A f \in 1 .. Len(files') : Complete(recorder', files'[f])
  BY <1>14
<1> QED
  BY <1>10, <1>11, <1>12, <1>13, <1>15 DEF Filed

\* A reply that ends a recording, or finds none: the worker has no file open.
LEMMA ClosedKeepsFiled ==
    ASSUME RecorderTypeOK, Filed, UNCHANGED <<active, wire, files>>,
           worker.active = 0, worker'.active = 0,
           \/ recorder'.state = recorder.state /\ recorder.state # "starting"
           \/ recorder'.state = "idle",
           recorder'.path = recorder.path, recorder'.over = recorder.over,
           recorder'.operations = recorder.operations,
           recorder'.entries = << >> \/ recorder' = recorder,
           Len(recorder'.sections) = Len(recorder.sections),
           \A s \in 1 .. Len(recorder.sections) :
              /\ recorder'.sections[s].start = recorder.sections[s].start
              /\ recorder'.sections[s].sent = recorder.sections[s].sent
    PROVE  Filed'
<1>1. Named'
  <2>1. \A path : HasFile(path)' <=> HasFile(path)
    BY DEF HasFile
  <2>2. LastIsNow(recorder')
    BY DEF LastIsNow, Filed, Named
  <2>3. recorder'.state # "starting"
    OBVIOUS
  <2>4. \A s : HasFile(recorder'.sections[s].start) => HasFile(recorder.sections[s].start)'
    BY <2>1
  <2>5. \A s \in 1 .. Len(recorder'.sections) : HasFile(recorder'.sections[s].start)
    BY DEF Filed, Named
  <2>6. \A path : Opened' /\ path = Current' => Opened /\ path = Current
    BY <2>3 DEF Opened, Current
  <2> QED
    BY <2>1, <2>2, <2>3, <2>4, <2>5, <2>6 DEF Filed, Named
<1>2. Witness(recorder', active', wire')
  BY DEF Filed, Witness
<1>3. Buffered(recorder', active')
  <2>1. Transitioning(recorder') => Transitioning(recorder)
    BY DEF Transitioning
  <2>2. CASE recorder' = recorder
    BY <2>2 DEF Filed
  <2>3. CASE recorder'.entries = << >>
    <3>1. Len(recorder'.entries) = 0
      BY <2>3, EmptySeq
    <3> QED
      BY <2>1, <2>3, <3>1 DEF Filed, Buffered
  <2> QED
    BY <2>2, <2>3
<1>4. Content(recorder', worker', files')
  BY DEF Content
<1>5. \A f \in 1 .. Len(files) : Complete(recorder', files[f])
  <2>. TAKE f \in 1 .. Len(files)
  <2>1. Complete(recorder, files[f])
    BY DEF Filed
  <2>2. recorder'.state \in {"starting", "active"} =>
           recorder'.state = recorder.state /\ PathNow(recorder') = PathNow(recorder)
    BY DEF PathNow
  <2> QED
    BY <2>1, <2>2 DEF Complete
<1>6. \A f \in 1 .. Len(files') : Complete(recorder', files'[f])
  BY <1>5
<1> QED
  BY <1>1, <1>2, <1>3, <1>4, <1>6 DEF Filed

LEMMA PollKeepsFiled ==
    ASSUME RecorderTypeOK, RecorderTypeOK', Protocol, Filed, PollReply
    PROVE  Filed'
<1>. DEFINE reply == worker.replies[1]
<1>1. /\ UNCHANGED <<active, wire, files>> /\ 1 \in Said
      /\ worker'.active = worker.active /\ worker'.count = worker.count
  <2>1. worker.replies \in Seq(ReplySet) /\ worker.replies # << >>
    BY PollReplyIs DEF RecorderTypeOK, Workers
  <2> QED
    BY <2>1, PollReplyIs DEF Said
<1>2. UNCHANGED <<Operations, recorder.over>> /\ Operations' = recorder'.operations
  BY PollIs DEF Operations
<1>3. recorder'.operations = recorder.operations
  BY <1>2 DEF Operations
<1>4. CASE /\ reply.kind = "started" /\ recorder.state = "starting" /\ reply.ok
           /\ recorder' = Started(recorder)
  <2>1. Opened
    BY <1>1, <1>4, PollReplyIs DEF Opened, Acknowledged
  <2> QED
    BY <1>1, <1>4, <2>1, StartedKeepsFiled
<1>5. CASE /\ reply.kind = "started" /\ recorder.state = "starting" /\ ~reply.ok
           /\ recorder'.state = "idle" /\ recorder'.path = recorder.path
           /\ recorder'.entries = recorder.entries
           /\ recorder'.sections = recorder.sections
  <2>1. ~Opened
    BY <1>5 DEF Opened
  <2>2. worker.active = 0 /\ recorder.entries = << >>
    BY <1>5, <2>1, NothingBuffered DEF Protocol, WorkerMatches, Filed
  <2> QED
    BY <1>1, <1>2, <1>3, <1>5, <2>2, ClosedKeepsFiled
<1>6. CASE /\ reply.kind = "stopped" /\ recorder.state = "stopping"
           /\ recorder' = Stopped(recorder, reply.ok)
           /\ recorder'.state = "idle" /\ recorder'.path = recorder.path
           /\ recorder'.entries = recorder.entries
  <2>. DEFINE last == Len(recorder.sections)
              section == [recorder.sections[last] EXCEPT !.stop = recorder.id]
  <2>1. worker.active = 0 /\ recorder.entries = << >>
    BY <1>1, <1>6, NothingBuffered DEF Protocol, RepliesAreDue, Filed
  <2>2. last \in 1 .. last /\ recorder.sections \in Seq(Sections) /\ recorder.id \in Paths
    BY <1>6 DEF Filed, Named, LastIsNow, RecorderTypeOK, Recorders
  <2>3. recorder.sections[last] \in Sections
    BY <2>2
  <2>4. /\ section \in Sections /\ section.start = recorder.sections[last].start
        /\ section.sent = recorder.sections[last].sent
    BY <2>2, <2>3 DEF Sections
  <2>5. recorder'.sections = [recorder.sections EXCEPT ![last] = section]
    BY <1>6 DEF Stopped, RecorderTypeOK, Recorders
  <2>. HIDE DEF section
  <2>6. /\ Len([recorder.sections EXCEPT ![last] = section]) = last
        /\ \A s \in 1 .. last : [recorder.sections EXCEPT ![last] = section][s]
                                   = IF s = last THEN section ELSE recorder.sections[s]
    BY <2>2, <2>4, ReplacedInSeq
  <2>7. /\ Len(recorder'.sections) = last
        /\ \A s \in 1 .. last : /\ recorder'.sections[s].start = recorder.sections[s].start
                                /\ recorder'.sections[s].sent = recorder.sections[s].sent
    BY <2>4, <2>5, <2>6
  <2> QED
    BY <1>1, <1>2, <1>3, <1>6, <2>1, <2>7, ClosedKeepsFiled
<1>7. CASE /\ reply.kind = "failed" /\ recorder.state \in {"active", "stopping"}
           /\ recorder'.state = IF recorder.state = "active" THEN "idle" ELSE recorder.state
           /\ recorder'.path = recorder.path
           /\ recorder'.entries = << >>
           /\ recorder'.sections = recorder.sections
  <2>1. worker.active = 0
    BY <1>1, <1>7 DEF Protocol, RepliesAreDue
  <2> QED
    BY <1>1, <1>2, <1>3, <1>7, <2>1, ClosedKeepsFiled
<1>8. CASE /\ reply.kind = "ended" /\ recorder.state \notin {"starting", "stopping"}
           /\ recorder' = recorder
  <2>1. worker.active = 0
    BY <1>1, <1>8 DEF Protocol, RepliesAreDue, WorkerMatches
  <2> QED
    BY <1>1, <1>2, <1>3, <1>8, <2>1, ClosedKeepsFiled
<1> QED
  BY <1>4, <1>5, <1>6, <1>7, <1>8, PollIs

-----------------------------------------------------------------------------
(* The steps of the worker *)

\* Taking an operation changes nothing but the queue, and files stay.
LEMMA TakenKeeps ==
    ASSUME RecorderTypeOK, Protocol, Filed, NEW op, Takes(op), UNCHANGED baseVars,
           \A path : HasFile(path) => HasFile(path)',
           \A path : Opened' /\ path = Current => HasFile(path)'
    PROVE  /\ Named'
           /\ Witness(recorder', active', wire')
           /\ Buffered(recorder', active')
           /\ \A file : Complete(recorder, file) => Complete(recorder', file)
           /\ SentNow(recorder') = SentNow(recorder)
<1>1. /\ UNCHANGED <<recorder.state, recorder.id, recorder.path, recorder.over, Current,
                     recorder.sections, recorder.entries>>
      /\ \A i \in Asked' : i + 1 \in Asked /\ Operations'[i] = Operations[i + 1]
  BY TakenIs
<1>2. \A i \in 1 .. Len(recorder'.operations) :
         /\ i + 1 \in 1 .. Len(recorder.operations)
         /\ recorder'.operations[i] = recorder.operations[i + 1]
  BY <1>1 DEF Asked, Operations
<1>3. Named'
  <2>1. LastIsNow(recorder')
    BY <1>1 DEF Filed, Named, LastIsNow
  <2>2. \A path : Opened' /\ path = Current' => HasFile(path)'
    BY <1>1
  <2>3. \A s \in 1 .. Len(recorder'.sections) : HasFile(recorder.sections[s].start)
    BY <1>1 DEF Filed, Named
  <2>4. \A s : HasFile(recorder.sections[s].start) => HasFile(recorder.sections[s].start)'
    <3>1. \A s, path : path = recorder.sections[s].start /\ HasFile(path)'
                         => HasFile(recorder.sections[s].start)'
      BY <1>1 DEF HasFile
    <3> QED
      BY <3>1
  <2> QED
    BY <1>1, <2>1, <2>2, <2>3, <2>4 DEF Filed, Named
<1>4. Witness(recorder', active', wire')
  BY <1>1 DEF Filed, Witness, baseVars
<1>5. Buffered(recorder', active')
  BY <1>1, <1>2 DEF Filed, Buffered, Transitioning, baseVars
<1>6. \A file : Complete(recorder, file) => Complete(recorder', file)
  <2>1. PathNow(recorder') = PathNow(recorder)
    BY <1>1 DEF PathNow
  <2> QED
    BY <1>1, <2>1 DEF Complete
<1>7. SentNow(recorder') = SentNow(recorder)
  BY <1>1 DEF SentNow
<1> QED
  BY <1>3, <1>4, <1>5, <1>6, <1>7

\* A step that only adds a file, or rewrites one under its path, keeps all paths.
LEMMA FilesStay ==
    ASSUME RecorderTypeOK,
           \/ UNCHANGED files
           \/ \E path : AddsFile(path)
           \/ \E file : /\ worker.active # 0 /\ OnlyFile(worker.active, file)
                        /\ file.path = files[worker.active].path
    PROVE  \A path : HasFile(path) => HasFile(path)'
<1>1. Len(files) \in Nat
  BY DEF RecorderTypeOK
<1>2. CASE UNCHANGED files
  BY <1>2 DEF HasFile
<1>3. CASE \E path : AddsFile(path)
  <2>1. \A f \in 1 .. Len(files) : f \in 1 .. Len(files') /\ files'[f] = files[f]
    BY <1>1, <1>3 DEF AddsFile
  <2> QED
    BY <2>1 DEF HasFile
<1>4. CASE \E file : /\ worker.active # 0 /\ OnlyFile(worker.active, file)
                     /\ file.path = files[worker.active].path
  <2>1. \A f \in 1 .. Len(files) : f \in 1 .. Len(files') /\ files'[f].path = files[f].path
    BY <1>4 DEF OnlyFile
  <2> QED
    BY <2>1 DEF HasFile
<1> QED
  BY <1>2, <1>3, <1>4

LEMMA StartKeepsFiled ==
    ASSUME RecorderTypeOK, RecorderTypeOK', Protocol, Protocol', Filed,
           WorkerStart, UNCHANGED baseVars
    PROVE  Filed'
<1>. DEFINE path == Operations[1].path
<1>1. /\ Takes("start") /\ Operations[1].op = "start" /\ 1 \in Asked
      /\ UNCHANGED <<recorder.state, recorder.id, recorder.path, recorder.over, Current,
                     recorder.sections, recorder.entries>>
      /\ \A i \in Asked' : /\ i + 1 \in Asked /\ 1 < i + 1
                           /\ Operations'[i] = Operations[i + 1]
  BY TakenIs DEF WorkerStart
<1>2. /\ worker.replies = << >> /\ worker.active = 0
      /\ recorder.state = "starting" /\ path = Current
      /\ \A j \in Asked : 1 < j => Operations[j].op = "end"
  BY <1>1 DEF Protocol, OperationsMatch
<1>3. \/ /\ AddsFile(path) /\ worker'.active = Len(files) + 1 /\ worker'.count = 0
      \/ /\ AddsFile(path) \/ UNCHANGED files
         /\ Says(Reply("started", path, FALSE)) /\ worker'.active = 0
  BY <1>2, WorkerStartIs
<1>4. Len(files) \in Nat
  BY DEF RecorderTypeOK
<1>5. \A p : Opened' /\ p = Current => HasFile(p)'
  <2>1. CASE AddsFile(path) /\ worker'.active = Len(files) + 1
    <3>1. files'[Len(files) + 1].path = path /\ Len(files) + 1 \in 1 .. Len(files')
      BY <1>4, <2>1 DEF AddsFile, NewFile
    <3> QED
      BY <1>2, <3>1 DEF HasFile
  <2>2. CASE Says(Reply("started", path, FALSE))
    <3>1. \A r : r = Reply("started", path, FALSE) => ~r.ok
      BY DEF Reply
    <3>2. worker'.replies[1] = Reply("started", path, FALSE)
      <4>1. Len(worker.replies) + 1 = 1
        BY <1>2, EmptySeq
      <4>2. worker'.replies[Len(worker.replies) + 1] = Reply("started", path, FALSE)
        BY <2>2, SaysKeeps
      <4> QED
        BY <4>1, <4>2
    <3> QED
      BY <1>1, <1>2, <3>1, <3>2 DEF Opened
  <2> QED
    BY <1>3, <2>1, <2>2
<1>6. \A p : HasFile(p) => HasFile(p)'
  BY <1>3, FilesStay
<1>7. /\ Named' /\ Witness(recorder', active', wire') /\ Buffered(recorder', active')
      /\ \A file : Complete(recorder, file) => Complete(recorder', file)
      /\ SentNow(recorder') = SentNow(recorder)
  BY <1>1, <1>5, <1>6, TakenKeeps
<1>8. Content(recorder', worker', files')
  <2>1. SUFFICES ASSUME worker'.active # 0 PROVE Content(recorder', worker', files')
    BY DEF Content
  <2>2. /\ files'[worker'.active].lines = << >> /\ worker'.count = 0
    <3>1. AddsFile(path) /\ worker'.active = Len(files) + 1 /\ worker'.count = 0
      BY <1>3, <2>1
    <3>2. files'[worker'.active] = NewFile(path)
      BY <3>1 DEF AddsFile
    <3> QED
      BY <3>1, <3>2 DEF NewFile
  <2>3. recorder'.entries = << >> /\ recorder'.operations \in Seq(Ops)
    BY <1>1, <1>2, NothingBuffered DEF Filed, RecorderTypeOK, Recorders
  <2>4. SentNow(recorder') = << >>
    BY <1>1, <1>2 DEF SentNow
  <2>5. \A i \in 1 .. Len(recorder'.operations) : recorder'.operations[i].lines = << >>
    <3>. TAKE i \in 1 .. Len(recorder'.operations)
    <3>1. /\ i + 1 \in Asked /\ recorder'.operations[i] = recorder.operations[i + 1]
          /\ recorder.operations[i + 1].op = "end"
      BY <1>1, <1>2 DEF Asked, Operations
    <3> QED
      BY <1>2, <3>1 DEF Filed, Buffered, Transitioning, Asked, Operations
  <2>6. Pipe(<< >>, recorder'.operations, << >>, << >>)
    BY <2>3, <2>5, PipeStarts
  <2>7. Len(<< >>) = 0
    BY EmptySeq
  <2> QED
    BY <2>2, <2>3, <2>4, <2>6, <2>7 DEF Content, NoneOpen
<1>9. \A f \in 1 .. Len(files') : Complete(recorder', files'[f])
  <2>1. \A f \in 1 .. Len(files) : Complete(recorder', files[f])
    BY <1>7 DEF Filed
  <2>2. CASE UNCHANGED files
    BY <2>1, <2>2
  <2>3. CASE AddsFile(path)
    <3>. TAKE f \in 1 .. Len(files')
    <3>1. CASE f \in 1 .. Len(files)
      BY <2>1, <2>3, <3>1 DEF AddsFile
    <3>2. CASE f = Len(files) + 1
      BY <2>3, <3>2 DEF AddsFile, NewFile, Complete
    <3> QED
      BY <1>4, <2>3, <3>1, <3>2 DEF AddsFile
  <2> QED
    BY <1>3, <2>2, <2>3
<1> QED
  BY <1>7, <1>8, <1>9 DEF Filed

\* While the worker has a file open, what opened it stays.
LEMMA OpenedHasFile ==
    ASSUME RecorderTypeOK, Protocol, Filed,
           worker.active # 0 \/ (Opened' => Opened)
    PROVE  \A path : Opened' /\ path = Current => HasFile(path)
BY OpenSaid DEF Filed, Named

\* What was sent to the running recording is a sequence of entries.
LEMMA CurrentSent ==
    ASSUME RecorderTypeOK, Protocol, Filed, worker.active # 0
    PROVE  SentNow(recorder) \in Seq(Entries)
<1>1. recorder.state \in {"starting", "active", "stopping"}
  BY OpenSaid DEF Opened
<1>2. CASE recorder.state = "starting"
  BY <1>2, EmptySeq DEF SentNow
<1>3. CASE recorder.state \in {"active", "stopping"}
  <2>1. recorder.sections[Len(recorder.sections)] \in Sections
    BY <1>3 DEF Filed, Named, LastIsNow, RecorderTypeOK, Recorders
  <2> QED
    BY <1>3, <2>1 DEF SentNow, Sections
<1> QED
  BY <1>1, <1>2, <1>3

LEMMA NoneOpenJoined ==
    ASSUME NEW some \in Seq(Entries), NEW more \in Seq(Entries)
    PROVE  /\ some \o more \in Seq(Entries)
           /\ Len(some \o more) = Len(some) + Len(more)
           /\ NoneOpen(some) /\ NoneOpen(more) => NoneOpen(some \o more)
<1>. DEFINE whole == some \o more
<1>1. /\ whole \in Seq(Entries) /\ Len(whole) = Len(some) + Len(more)
      /\ \A i \in 1 .. Len(some) + Len(more) :
            whole[i] = IF i <= Len(some) THEN some[i] ELSE more[i - Len(some)]
      /\ Len(some) \in Nat /\ Len(more) \in Nat
  BY ConcatProperties
<1>. HIDE DEF whole
<1>2. ASSUME NoneOpen(some), NoneOpen(more), NEW i \in 1 .. Len(whole)
      PROVE  whole[i].outcome # "open"
  <2>1. CASE i <= Len(some)
    BY <1>1, <1>2, <2>1 DEF NoneOpen
  <2>2. CASE ~ i <= Len(some)
    <3>1. i - Len(some) \in 1 .. Len(more) /\ whole[i] = more[i - Len(some)]
      BY <1>1, <2>2
    <3> QED
      BY <1>2, <3>1 DEF NoneOpen
  <2> QED
    BY <2>1, <2>2
<1> QED
  BY <1>1, <1>2 DEF whole, NoneOpen

LEMMA AppendKeepsFiled ==
    ASSUME RecorderTypeOK, RecorderTypeOK', Protocol, Filed, WorkerAppend, UNCHANGED baseVars
    PROVE  Filed'
<1>. DEFINE f     == worker.active
            lines == Operations[1].lines
            file  == Written(files[f], lines)
<1>1. /\ Takes("append") /\ Operations[1].op = "append" /\ 1 \in Asked
      /\ UNCHANGED <<recorder.state, recorder.id, recorder.path, recorder.over, Current,
                     recorder.sections, recorder.entries>>
      /\ Operations[1] \in Ops
  BY TakenIs DEF WorkerAppend
<1>2. \/ f = 0 /\ UNCHANGED <<worker, files>>
      \/ /\ f # 0 /\ OnlyFile(f, file)
         /\ worker'.active = f /\ worker'.count = worker.count + Len(lines)
      \/ /\ f # 0 /\ worker'.active = 0
         /\ \E torn \in FileSet : /\ OnlyFile(f, torn)
                                  /\ torn.path = files[f].path
                                  /\ torn.footer = files[f].footer
  BY WorkerAppendIs
<1>3. lines \in Seq(Entries) /\ NoneOpen(lines)
  BY <1>1 DEF Filed, Buffered, Ops, Asked, Operations
<1>4. ASSUME f # 0
      PROVE  /\ file.path = files[f].path /\ file.footer = NoFooter
             /\ file.lines = files[f].lines \o lines /\ files[f].lines \in Seq(Entries)
             /\ files[f].footer = NoFooter /\ f \in 1 .. Len(files)
  BY <1>3, <1>4, FileOf, WrittenType, OpenSaid DEF FileSet
<1>. HIDE DEF file
<1>5. \A p : HasFile(p) => HasFile(p)'
  BY <1>2, <1>4, FilesStay
<1>6. \A p : Opened' /\ p = Current => HasFile(p)'
  <2>1. f = 0 => (Opened' => Opened)
    BY <1>1, <1>2 DEF Opened, Acknowledged
  <2> QED
    BY <1>5, <2>1, OpenedHasFile
<1>7. /\ Named' /\ Witness(recorder', active', wire') /\ Buffered(recorder', active')
      /\ \A g : Complete(recorder, g) => Complete(recorder', g)
      /\ SentNow(recorder') = SentNow(recorder)
  BY <1>1, <1>5, <1>6, TakenKeeps
<1>8. Content(recorder', worker', files')
  <2>1. SUFFICES ASSUME worker'.active # 0 PROVE Content(recorder', worker', files')
    BY DEF Content
  <2>2. /\ f # 0 /\ OnlyFile(f, file) /\ worker'.active = f
        /\ worker'.count = worker.count + Len(lines)
    BY <1>2, <2>1
  <2>3. files'[f].lines = files[f].lines \o lines
    BY <1>4, <2>2 DEF OnlyFile
  <2>4. /\ Pipe(files[f].lines, recorder.operations, recorder.entries, SentNow(recorder))
        /\ worker.count = Len(files[f].lines) /\ NoneOpen(files[f].lines)
    BY <2>2 DEF Filed, Content
  <2>5. Pipe(files[f].lines \o lines, recorder'.operations, recorder.entries, SentNow(recorder))
    <3>1. /\ recorder.operations \in Seq(Ops) /\ recorder'.operations \in Seq(Ops)
          /\ recorder.entries \in Seq(Entries) /\ recorder.sections \in Seq(Sections)
      BY DEF RecorderTypeOK, Recorders
    <3>2. SentNow(recorder) \in Seq(Entries)
      BY <2>2, CurrentSent
    <3>3. /\ Len(recorder.operations) # 0
          /\ Len(recorder'.operations) = Len(recorder.operations) - 1
          /\ \A i \in 1 .. Len(recorder'.operations) :
                recorder'.operations[i] = recorder.operations[i + 1]
      BY <1>1, TakenIs DEF Asked, Operations
    <3> QED
      BY <1>4, <2>2, <2>4, <3>1, <3>2, <3>3, PipeTakes DEF Operations
  <2>6. /\ Len(files[f].lines \o lines) = Len(files[f].lines) + Len(lines)
        /\ NoneOpen(files[f].lines \o lines)
    BY <1>3, <1>4, <2>2, <2>4, NoneOpenJoined
  <2> QED
    BY <1>1, <1>7, <2>2, <2>3, <2>4, <2>5, <2>6 DEF Content
<1>9. \A g \in 1 .. Len(files') : Complete(recorder', files'[g])
  <2>1. \A g \in 1 .. Len(files) : Complete(recorder', files[g])
    BY <1>7 DEF Filed
  <2>2. CASE UNCHANGED files
    BY <2>1, <2>2
  <2>3. ASSUME NEW torn, f # 0, OnlyFile(f, torn), torn.footer = NoFooter
        PROVE  \A g \in 1 .. Len(files') : Complete(recorder', files'[g])
    <3>1. Complete(recorder', torn)
      BY <2>3 DEF Complete
    <3> QED
      BY <2>1, <2>3, <3>1 DEF OnlyFile
  <2> QED
    BY <1>2, <1>4, <2>2, <2>3
<1> QED
  BY <1>7, <1>8, <1>9 DEF Filed

\* The footer goes under what was sent, when the recording ends.
LEMMA FootedIsComplete ==
    ASSUME RecorderTypeOK, Protocol, Filed, worker.active # 0,
           recorder.state = "stopping" \/ recorder.over,
           NEW r, r.sections = recorder.sections, r.state = recorder.state,
           r.over = recorder.over, r.path = recorder.path, r.id = recorder.id,
           NEW file, file.path = Current, file.lines = SentNow(recorder),
           file.footer.count = Len(file.lines),
           file.footer.outcome = "stopped" \/ ~recorder.over => NoneOpen(file.lines)
    PROVE  Complete(r, file)
<1>1. recorder.state \in {"starting", "active", "stopping"}
  BY OpenSaid DEF Opened
<1>2. CASE recorder.state = "starting"
  BY <1>2 DEF Complete, Filed, Named, SentNow, Current
<1>3. CASE recorder.state \in {"active", "stopping"}
  <2>1. /\ Len(recorder.sections) \in 1 .. Len(recorder.sections)
        /\ recorder.sections[Len(recorder.sections)].start = file.path
        /\ \A s \in 1 .. Len(recorder.sections) :
              recorder.sections[s].start = file.path => s = Len(recorder.sections)
        /\ file.lines = recorder.sections[Len(recorder.sections)].sent
    BY <1>3 DEF Filed, Named, LastIsNow, Current, SentNow
  <2> QED
    BY <1>3, <2>1 DEF Complete
<1> QED
  BY <1>1, <1>2, <1>3

LEMMA StopKeepsFiled ==
    ASSUME RecorderTypeOK, RecorderTypeOK', Protocol, Filed, WorkerStop, UNCHANGED baseVars
    PROVE  Filed'
<1>. DEFINE f    == worker.active
            file == Footed(files[f], "stopped", worker.count)
<1>1. /\ Takes("stop") /\ Operations[1].op = "stop" /\ 1 \in Asked
      /\ UNCHANGED <<recorder.state, recorder.id, recorder.path, recorder.over, Current,
                     recorder.sections, recorder.entries>>
      /\ Len(Operations) \in Nat /\ Asked = 1 .. Len(Operations)
  BY TakenIs DEF WorkerStop
<1>2. /\ recorder.state = "stopping" /\ Operations[1].lines = << >>
      /\ \A j \in Asked : 1 < j => Operations[j].op = "end"
  BY <1>1 DEF Protocol, OperationsMatch
<1>3. /\ worker'.active = 0
      /\ (f # 0 /\ OnlyFile(f, file)) \/ UNCHANGED files
  BY WorkerStopIs
<1>4. ASSUME f # 0
      PROVE  /\ file.path = Current /\ file.lines = files[f].lines
             /\ file.footer.count = worker.count /\ file.path = files[f].path
             /\ files[f].lines \in Seq(Entries) /\ f \in 1 .. Len(files)
  <2>1. files[f] \in FileSet /\ worker.count \in Nat /\ f \in 1 .. Len(files)
    BY <1>4, FileOf DEF RecorderTypeOK, Workers
  <2>2. /\ file.path = files[f].path /\ file.lines = files[f].lines
        /\ file.footer = [outcome |-> "stopped", count |-> worker.count]
    BY <2>1, FootedType
  <2>3. files[f].path = Current /\ files[f].lines \in Seq(Entries)
    BY <1>4, <2>1, OpenSaid DEF FileSet
  <2> QED
    BY <2>1, <2>2, <2>3
<1>. HIDE DEF file
<1>5. \A p : HasFile(p) => HasFile(p)'
  BY <1>3, <1>4, FilesStay
<1>6. \A p : Opened' /\ p = Current => HasFile(p)'
  BY <1>2, <1>5, OpenedHasFile DEF Opened
<1>7. /\ Named' /\ Witness(recorder', active', wire') /\ Buffered(recorder', active')
      /\ \A g : Complete(recorder, g) => Complete(recorder', g)
  BY <1>1, <1>5, <1>6, TakenKeeps
<1>8. Content(recorder', worker', files')
  BY <1>3 DEF Content
<1>9. f # 0 => Complete(recorder', file)
  <2>1. SUFFICES ASSUME f # 0 PROVE Complete(recorder', file)
    OBVIOUS
  <2>2. recorder.entries = << >> /\ recorder.operations \in Seq(Ops)
    BY <1>2, NothingBuffered DEF Filed, RecorderTypeOK, Recorders
  <2>3. Len(Operations) = 1 \/ (Len(Operations) = 2 /\ Operations[2].lines = << >>)
    <3>1. CASE Len(Operations) = 1
      BY <3>1
    <3>2. CASE Len(Operations) # 1
      <4>1. 2 \in Asked /\ 1 < 2
        <5>. SUFFICES ASSUME NEW n \in Nat, 1 \in 1 .. n, n # 1 PROVE 2 \in 1 .. n /\ 1 < 2
          BY <1>1, <3>2
        <5> QED
          OBVIOUS
      <4>2. Operations[2].op = "end"
        BY <1>2, <4>1
      <4>3. Len(Operations) = 2
        BY <4>1, <4>2 DEF Protocol, EndIsLast
      <4>4. Operations[2].lines = << >>
        BY <1>2, <4>1, <4>2 DEF Filed, Buffered, Transitioning, Operations, Asked
      <4> QED
        BY <4>3, <4>4
    <3> QED
      BY <3>1, <3>2
  <2>4. /\ Pipe(files[f].lines, recorder.operations, << >>, SentNow(recorder))
        /\ worker.count = Len(files[f].lines) /\ NoneOpen(files[f].lines)
    BY <2>1, <2>2 DEF Filed, Content
  <2>5. files[f].lines \o << >> = SentNow(recorder)
    <3>1. SentNow(recorder) \in Seq(Entries)
      BY <2>1, CurrentSent
    <3> QED
      BY <1>2, <1>4, <2>1, <2>2, <2>3, <2>4, <3>1, PipeIsWhole DEF Operations
  <2>6. files[f].lines \o << >> = files[f].lines
    BY <1>4, <2>1, ConcatEmptySeq
  <2> QED
    BY <1>1, <1>2, <1>4, <2>1, <2>4, <2>5, <2>6, FootedIsComplete
<1>10. \A g \in 1 .. Len(files') : Complete(recorder', files'[g])
  <2>1. \A g \in 1 .. Len(files) : Complete(recorder', files[g])
    BY <1>7 DEF Filed
  <2> QED
    BY <1>3, <1>9, <2>1 DEF OnlyFile
<1> QED
  BY <1>7, <1>8, <1>10 DEF Filed

\* The recorder is over when the worker ends, and the file of the recording
\* under way is then complete, or torn and without a footer.
LEMMA WorkerEndKeepsFiled ==
    ASSUME RecorderTypeOK, RecorderTypeOK', Protocol, Filed, WorkerEnd, UNCHANGED baseVars
    PROVE  Filed'
<1>. DEFINE f     == worker.active
            lines == Operations[1].lines
            whole == Written(files[f], lines)
            count == worker.count + Len(lines)
            file  == Footed(whole, "session_ended", count)
<1>1. /\ Takes("end") /\ Operations[1].op = "end" /\ 1 \in Asked /\ Operations[1] \in Ops
      /\ UNCHANGED <<recorder.state, recorder.id, recorder.path, recorder.over, Current,
                     recorder.sections, recorder.entries>>
  BY TakenIs DEF WorkerEnd
<1>2. Len(Operations) = 1 /\ recorder.over
  BY <1>1 DEF Protocol, EndIsLast
<1>3. /\ worker'.active = 0
      /\ \/ f = 0 /\ UNCHANGED files /\ Says(Reply("ended", 0, TRUE))
         \/ f # 0 /\ OnlyFile(f, file)
         \/ /\ f # 0
            /\ \E torn \in FileSet : /\ OnlyFile(f, torn)
                                     /\ torn.path = files[f].path
                                     /\ torn.footer = files[f].footer
  BY WorkerEndIs
<1>4. lines \in Seq(Entries) /\ Len(lines) \in Nat
  BY <1>1 DEF Ops
<1>5. ASSUME f # 0
      PROVE  /\ file.path = files[f].path /\ file.path = Current
             /\ file.lines = files[f].lines \o lines
             /\ file.footer = [outcome |-> "session_ended", count |-> count]
             /\ files[f].lines \in Seq(Entries) /\ files[f].footer = NoFooter
  <2>1. files[f] \in FileSet /\ worker.count \in Nat
    BY <1>5, FileOf DEF RecorderTypeOK, Workers
  <2>2. whole \in FileSet /\ whole.path = files[f].path /\ whole.lines = files[f].lines \o lines
    BY <1>4, <2>1, WrittenType
  <2>3. count \in Nat
    BY <1>4, <2>1
  <2>4. files[f].path = Current /\ files[f].footer = NoFooter
    BY <1>5, OpenSaid
  <2>. HIDE DEF whole, count
  <2>5. /\ file.path = whole.path /\ file.lines = whole.lines
        /\ file.footer = [outcome |-> "session_ended", count |-> count]
    BY <2>2, <2>3, FootedType
  <2> QED
    BY <2>1, <2>2, <2>4, <2>5 DEF FileSet
<1>. HIDE DEF file, whole
<1>6. \A p : HasFile(p) => HasFile(p)'
  BY <1>3, <1>5, FilesStay
<1>7. \A p : Opened' /\ p = Current => HasFile(p)'
  <2>1. ASSUME f = 0 PROVE Opened' => Opened
    <3>1. /\ Said = 1 .. Len(worker.replies) /\ Len(worker.replies) \in Nat
          /\ worker'.replies[Len(worker.replies) + 1].kind = "ended"
          /\ Acknowledged => worker'.replies[1] = worker.replies[1]
          /\ \A i \in Said : worker'.replies[i] = worker.replies[i]
      BY <1>3, <2>1, SaysKeeps DEF Reply
    <3>2. CASE worker.replies = << >>
      <4>1. Len(worker.replies) = 0
        BY <3>2, EmptySeq
      <4>2. worker'.replies[1].kind = "ended"
        BY <3>1, <4>1
      <4> QED
        BY <1>1, <4>2 DEF Opened, Acknowledged
    <3>3. CASE worker.replies # << >>
      <4>1. worker.replies \in Seq(ReplySet) /\ 1 \in Said
        BY <3>1, <3>3 DEF RecorderTypeOK, Workers
      <4> QED
        BY <1>1, <3>1, <3>3, <4>1 DEF Opened, Acknowledged
    <3> QED
      BY <3>2, <3>3
  <2>2. \A p : Opened' /\ p = Current => HasFile(p)
    BY <2>1, OpenedHasFile
  <2> QED
    BY <1>6, <2>2
<1>8. /\ Named' /\ Witness(recorder', active', wire') /\ Buffered(recorder', active')
      /\ \A g : Complete(recorder, g) => Complete(recorder', g)
  BY <1>1, <1>6, <1>7, TakenKeeps
<1>9. Content(recorder', worker', files')
  BY <1>3 DEF Content
<1>10. f # 0 => Complete(recorder', file)
  <2>1. SUFFICES ASSUME f # 0 PROVE Complete(recorder', file)
    OBVIOUS
  <2>2. recorder.entries = << >> /\ recorder.operations \in Seq(Ops)
    BY <1>2, NothingBuffered DEF Filed, RecorderTypeOK, Recorders
  <2>3. /\ Pipe(files[f].lines, recorder.operations, << >>, SentNow(recorder))
        /\ worker.count = Len(files[f].lines)
    BY <2>1, <2>2 DEF Filed, Content
  <2>4. file.lines = SentNow(recorder)
    <3>1. SentNow(recorder) \in Seq(Entries)
      BY <2>1, CurrentSent
    <3>2. files[f].lines \o lines = SentNow(recorder)
      BY <1>2, <1>5, <2>1, <2>2, <2>3, <3>1, PipeIsWhole DEF Operations
    <3> QED
      BY <1>5, <2>1, <3>2
  <2>5. Len(files[f].lines \o lines) = Len(files[f].lines) + Len(lines)
    BY <1>4, <1>5, <2>1, NoneOpenJoined
  <2>6. file.footer.count = Len(file.lines) /\ file.footer.outcome = "session_ended"
    <3>1. file.footer.count = count /\ file.footer.outcome = "session_ended"
      <4>1. file.footer = [outcome |-> "session_ended", count |-> count]
        BY <1>5, <2>1
      <4>. HIDE DEF count
      <4> QED
        BY <4>1
    <3>2. file.lines = files[f].lines \o lines
      BY <1>5, <2>1
    <3>3. count = Len(files[f].lines) + Len(lines)
      BY <2>3
    <3>4. count = Len(file.lines)
      BY <2>5, <3>2, <3>3
    <3>. HIDE DEF count
    <3> QED
      BY <3>1, <3>4
  <2> QED
    BY <1>1, <1>2, <1>5, <2>1, <2>4, <2>6, FootedIsComplete
<1>11. \A g \in 1 .. Len(files') : Complete(recorder', files'[g])
  <2>1. \A g \in 1 .. Len(files) : Complete(recorder', files[g])
    BY <1>8 DEF Filed
  <2>2. ASSUME NEW torn, f # 0, OnlyFile(f, torn), torn.footer = NoFooter
        PROVE  \A g \in 1 .. Len(files') : Complete(recorder', files'[g])
    <3>1. Complete(recorder', torn)
      BY <2>2 DEF Complete
    <3> QED
      BY <2>1, <2>2, <3>1 DEF OnlyFile
  <2>3. CASE f # 0 /\ OnlyFile(f, file)
    BY <1>10, <2>1, <2>3 DEF OnlyFile
  <2>4. CASE UNCHANGED files
    BY <2>1, <2>4
  <2> QED
    BY <1>3, <1>5, <2>2, <2>3, <2>4
<1> QED
  BY <1>8, <1>9, <1>11 DEF Filed

-----------------------------------------------------------------------------
LEMMA FiledInit == RecorderInit => Filed
<1>. SUFFICES ASSUME RecorderInit PROVE Filed
  OBVIOUS
<1>1. /\ recorder.state = "idle" /\ recorder.sections = << >> /\ recorder.entries = << >>
      /\ recorder.operations = << >> /\ files = << >> /\ active = {} /\ worker.active = 0
  BY DEF RecorderInit, NewRecorder, NewWorker
<1>2. Len(recorder.sections) = 0 /\ Len(recorder.entries) = 0 /\ Len(files) = 0
      /\ Len(recorder.operations) = 0
  BY <1>1, EmptySeq
<1> QED
  BY <1>1, <1>2 DEF Filed, Named, LastIsNow, Opened, Witness, Buffered, Content

LEMMA FiledStep ==
    ASSUME RecorderTypeOK, RecorderTypeOK', Protocol, Protocol', Filed,
           [RecorderNext]_<<recorderVars, baseVars>>
    PROVE  Filed'
<1>1. ASSUME NEW id \in NormalIds, NEW kind \in RecordKinds, NEW pending \in BOOLEAN,
             CallControl(id, kind, pending)
      PROVE  Filed'
  BY <1>1, ControlKeepsFiled
<1>2. ASSUME NEW id \in Ids, CallSend(id, KindOnWire(id))
      PROVE  Filed'
  BY <1>2, SendKeepsFiled
<1>3. ASSUME NEW id \in Ids, CallSendFailed(id, KindOnWire(id))
      PROVE  Filed'
  BY <1>3, SendFailedKeepsFiled
<1>4. ASSUME NEW id \in Ids, NEW outcome \in Answers, CallTerminal(id, outcome)
      PROVE  Filed'
  BY <1>4, AnswerKeepsFiled
<1>5. CASE PollReply
  BY <1>5, PollKeepsFiled
<1>6. CASE CallEnd
  BY <1>6, EndKeepsFiled
<1>7. CASE Work /\ UNCHANGED baseVars
  BY <1>7, StartKeepsFiled, AppendKeepsFiled, StopKeepsFiled, WorkerEndKeepsFiled DEF Work
<1>8. CASE UNCHANGED <<recorderVars, baseVars>>
  <2>1. /\ UNCHANGED <<recorder, worker, files, active, wire>>
    BY <1>8 DEF recorderVars, baseVars
  <2>2. Named'
    <3>1. \A path : HasFile(path)' <=> HasFile(path)
      BY <2>1 DEF HasFile
    <3>2. \A s : HasFile(recorder.sections[s].start)' <=> HasFile(recorder.sections[s].start)
      BY <2>1 DEF HasFile
    <3>3. Opened' <=> Opened /\ \A path : path = Current' <=> path = Current
      BY <2>1 DEF Opened, Acknowledged, Current
    <3> QED
      BY <2>1, <3>1, <3>2, <3>3 DEF Filed, Named
  <2> QED
    BY <2>1, <2>2 DEF Filed
<1> QED
  BY <1>1, <1>2, <1>3, <1>4, <1>5, <1>6, <1>7, <1>8 DEF RecorderNext

\* What a footer promises follows.
LEMMA FiledIsComplete ==
    ASSUME RecorderTypeOK, Filed
    PROVE  FooterMeansComplete
<1>. SUFFICES ASSUME NEW f \in DOMAIN files, files[f].footer # NoFooter
              PROVE  /\ files[f].lines = SentDuring(files[f].path)
                     /\ files[f].footer.count = Len(files[f].lines)
                     /\ files[f].footer.outcome = "stopped" =>
                           \A i \in DOMAIN files[f].lines : files[f].lines[i].outcome # "open"
  BY DEF FooterMeansComplete
<1>. DEFINE file == files[f]
            S == {s \in DOMAIN recorder.sections : recorder.sections[s].start = file.path}
<1>1. files \in Seq(FileSet) /\ recorder.sections \in Seq(Sections)
  BY DEF RecorderTypeOK, Recorders
<1>2. file \in FileSet /\ f \in 1 .. Len(files)
  BY <1>1
<1>3. file.lines \in Seq(Entries)
  BY <1>2 DEF FileSet
<1>4. Complete(recorder, file)
  BY <1>2 DEF Filed
<1>5. DOMAIN file.lines = 1 .. Len(file.lines)
      /\ DOMAIN recorder.sections = 1 .. Len(recorder.sections)
  BY <1>1, <1>3
<1>6. file.lines = SentDuring(file.path)
  <2>1. CASE S = {}
    BY <1>4, <1>5, <2>1 DEF Complete, SentDuring
  <2>2. CASE S # {}
    <3>1. (CHOOSE s \in S : TRUE) \in S
      BY <2>2
    <3>. DEFINE chosen == CHOOSE s \in S : TRUE
    <3>2. SentDuring(file.path) = recorder.sections[chosen].sent
      BY <2>2 DEF SentDuring
    <3>3. chosen \in 1 .. Len(recorder.sections) /\ recorder.sections[chosen].start = file.path
      BY <1>5, <3>1
    <3>. HIDE DEF chosen
    <3> QED
      BY <1>4, <3>2, <3>3 DEF Complete
  <2> QED
    BY <2>1, <2>2
<1> QED
  BY <1>4, <1>5, <1>6 DEF Complete, NoneOpen

(***************************************************************************)
(* A file with a footer lists exactly what was sent to the game while its  *)
(* recording was active, and counts it: no failure of the disk, no end of  *)
(* the session and no late answer leaves a recording that looks complete   *)
(* and is not (recording.rs record, on_terminal; worker.rs append, finish).*)
(***************************************************************************)
THEOREM FooterIsAPromise == RecorderSpec => []FooterMeansComplete
<1>1. RecorderInit => Filed
  BY FiledInit
<1>2. /\ RecorderTypeOK /\ Protocol /\ (RecorderTypeOK /\ Protocol)' /\ Filed
      /\ [RecorderNext]_<<recorderVars, baseVars>>
      => Filed'
  BY FiledStep
<1>3. RecorderTypeOK /\ Filed => FooterMeansComplete
  BY FiledIsComplete
<1> QED
  BY <1>1, <1>2, <1>3, ProtocolHolds, PTL DEF RecorderSpec
=============================================================================
