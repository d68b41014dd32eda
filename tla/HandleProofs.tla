---------------------------- MODULE HandleProofs ----------------------------
(***************************************************************************)
(* Theorems about a session's start, its end and its outcomes (Handle and  *)
(* what it extends): every outcome has its Pending, a start is confirmed   *)
(* by both markers, and a death is reported once.                          *)
(***************************************************************************)
EXTENDS Handle, FiniteSetTheorems, SequenceTheorems, WellFoundedInduction, TLAPS

-----------------------------------------------------------------------------
(* Induction, and the fold over the notices of a line *)

\* A set of natural numbers that is not empty has a least element.
LEMMA LeastOf ==
    ASSUME NEW S, S \subseteq Nat, S # {}
    PROVE  \E x \in S : \A y \in S : x <= y
<1>. DEFINE less == {ss \in Nat \X Nat : ss[1] < ss[2]}
<1>1. IsWellFoundedOn(less, Nat)
  BY NatLessThanWellFounded DEF OpToRel
<1>. HIDE DEF less
<1>2. PICK x \in S : \A y \in S : ~ (<<y, x>> \in less)
  BY <1>1, WFMin, Zenon
<1>3. ASSUME NEW y \in S PROVE x <= y
  <2>1. y \in Nat /\ x \in Nat /\ ~(<<y, x>> \in less)
    BY <1>2
  <2> QED
    BY <2>1 DEF less
<1> QED
  BY <1>2, <1>3

\* Induction over the natural numbers, with a set for the property.
LEMMA NatsIn ==
    ASSUME NEW S, 0 \in S, \A n \in Nat : n \in S => n + 1 \in S
    PROVE  Nat \subseteq S
<1>1. SUFFICES ASSUME Nat \ S # {} PROVE FALSE
  OBVIOUS
<1>2. PICK x \in Nat \ S : \A y \in Nat \ S : x <= y
  BY <1>1, LeastOf
<1>3. x - 1 \in Nat /\ x - 1 \notin Nat \ S
  BY <1>2
<1> QED
  BY <1>2, <1>3

\* The largest number of a set is the one that no other exceeds.
LEMMA MaxIs ==
    ASSUME NEW S, S \subseteq Nat, NEW x \in S, \A y \in S : y <= x
    PROVE  Max(S) = x
<1>1. \A z \in S : (\A y \in S : z >= y) => z = x
  OBVIOUS
<1>2. \A y \in S : x >= y
  OBVIOUS
<1> QED
  BY <1>1, <1>2 DEF Max

\* The largest member of a part of 1 .. k + 1 that has k + 1.
LEMMA MaxOfRange ==
    ASSUME NEW k \in Nat, NEW s \in SUBSET (1 .. k + 1), k + 1 \in s
    PROVE  Max(s) = k + 1
<1>1. s \subseteq Nat /\ \A y \in s : y <= k + 1
  OBVIOUS
<1> QED
  BY <1>1, MaxIs

Notices(p, seq) == FoldLeft(Noticed, p, seq)

\* The states h[0] .. h[n] that the fold of the observer's notices goes through.
LEMMA NoticedFold ==
    ASSUME NEW p, NEW n \in Nat, NEW seq, DOMAIN seq = 1 .. n
    PROVE  \E h : /\ h[0] = p
                  /\ \A i \in 1 .. n : h[i] = Noticed(h[i - 1], seq[i])
                  /\ Notices(p, seq) = h[n]
<1>. DEFINE Is(g, k) == g = [s \in SUBSET (1 .. k) |->
                                IF s = {} THEN p
                                ELSE LET x == Max(s) IN Noticed(g[s \ {x}], seq[x])]
            Good == {k \in Nat : \E g : Is(g, k)}
            it == CHOOSE g : Is(g, n)
            h == [i \in 0 .. n |-> it[1 .. i]]
<1>1. Notices(p, seq) = it[1 .. n]
  BY DEF Notices, FoldLeft, MapThenFoldSet
<1>2. 0 \in Good
  <2>1. Is([s \in SUBSET (1 .. 0) |-> p], 0)
    OBVIOUS
  <2> QED
    BY <2>1
<1>3. ASSUME NEW k \in Nat, k \in Good PROVE k + 1 \in Good
  <2>1. PICK f : Is(f, k)
    BY <1>3
  <2>. DEFINE g == [s \in SUBSET (1 .. k + 1) |->
                       IF k + 1 \in s THEN Noticed(f[s \ {k + 1}], seq[k + 1]) ELSE f[s]]
  <2>2. ASSUME NEW s \in SUBSET (1 .. k + 1)
        PROVE  g[s] = IF s = {} THEN p
                      ELSE LET x == Max(s) IN Noticed(g[s \ {x}], seq[x])
    <3>1. CASE k + 1 \in s
      <4>1. Max(s) = k + 1
        BY <3>1, MaxOfRange
      <4>2. s \ {k + 1} \in SUBSET (1 .. k + 1) /\ s # {}
        BY <3>1
      <4>3. g[s \ {k + 1}] = f[s \ {k + 1}]
        BY <4>2
      <4> QED
        BY <3>1, <4>1, <4>2, <4>3
    <3>2. CASE k + 1 \notin s
      <4>1. s \in SUBSET (1 .. k)
        BY <3>2
      <4>2. g[s] = f[s]
        BY <3>2
      <4>3. CASE s = {}
        BY <2>1, <4>1, <4>2, <4>3
      <4>4. CASE s # {}
        <5>. DEFINE x == Max(s)
        <5>1. f[s] = Noticed(f[s \ {x}], seq[x])
          BY <2>1, <4>1, <4>4
        <5>2. s \ {x} \in SUBSET (1 .. k + 1) /\ k + 1 \notin s \ {x}
          BY <3>2
        <5>3. g[s \ {x}] = f[s \ {x}]
          BY <5>2
        <5> QED
          BY <4>2, <4>4, <5>1, <5>3
      <4> QED
        BY <4>3, <4>4
    <3> QED
      BY <3>1, <3>2
  <2>3. Is(g, k + 1)
    BY <2>2
  <2>. HIDE DEF g, Is
  <2>4. \E e : Is(e, k + 1)
    BY <2>3
  <2> QED
    BY <2>4
<1>4. Nat \subseteq Good
  <2>. HIDE DEF Good
  <2> QED
    BY <1>2, <1>3, NatsIn
<1>5. Is(it, n)
  <2>. HIDE DEF Is
  <2>1. \E g : Is(g, n)
    BY <1>4
  <2> QED
    BY <2>1
<1>6. \A s \in SUBSET (1 .. n) :
         it[s] = IF s = {} THEN p ELSE LET x == Max(s) IN Noticed(it[s \ {x}], seq[x])
  <2>. HIDE DEF it
  <2> QED
    BY <1>5
<1>. HIDE DEF it, Is
<1>7. h[0] = p
  <2>1. 1 .. 0 = {} /\ {} \in SUBSET (1 .. n) /\ h[0] = it[1 .. 0]
    OBVIOUS
  <2> QED
    BY <1>6, <2>1
<1>8. ASSUME NEW i \in 1 .. n PROVE h[i] = Noticed(h[i - 1], seq[i])
  <2>1. 1 .. i \in SUBSET (1 .. n) /\ i \in 1 .. i
    OBVIOUS
  <2>2. (1 .. i) \ {i} = 1 .. i - 1
    OBVIOUS
  <2>3. Max(1 .. i) = i
    <3>1. 1 .. i \subseteq Nat /\ \A y \in 1 .. i : y <= i
      OBVIOUS
    <3> QED
      BY <2>1, <3>1, MaxIs
  <2>4. it[1 .. i] = Noticed(it[1 .. i - 1], seq[i])
    BY <1>6, <2>1, <2>2, <2>3
  <2> QED
    BY <2>4
<1>9. h[n] = it[1 .. n]
  OBVIOUS
<1>. HIDE DEF h
<1> QED
  BY <1>1, <1>7, <1>8, <1>9

\* The same, named.
NoticedBy(p, n, seq, h) ==
    /\ h[0] = p /\ \A i \in 1 .. n : h[i] = Noticed(h[i - 1], seq[i])
    /\ Notices(p, seq) = h[n]

LEMMA NoticedFoldBy ==
    ASSUME NEW p, NEW n \in Nat, NEW seq, DOMAIN seq = 1 .. n
    PROVE  \E h : NoticedBy(p, n, seq, h)
<1>1. \E h : /\ h[0] = p
             /\ \A i \in 1 .. n : h[i] = Noticed(h[i - 1], seq[i])
             /\ Notices(p, seq) = h[n]
  BY ONLY NoticedFold, n \in Nat, DOMAIN seq = 1 .. n
<1>2. PICK h : /\ h[0] = p
               /\ \A i \in 1 .. n : h[i] = Noticed(h[i - 1], seq[i])
               /\ Notices(p, seq) = h[n]
  BY <1>1
<1>3. NoticedBy(p, n, seq, h)
  BY <1>2 DEF NoticedBy
<1> QED
  BY <1>3

Tellers(p, seq) == FoldLeft(Told, p, seq)

\* The states that the fold of the notices of an exit goes through.
LEMMA ToldFold ==
    ASSUME NEW p, NEW n \in Nat, NEW seq, DOMAIN seq = 1 .. n
    PROVE  \E h : /\ h[0] = p
                  /\ \A i \in 1 .. n : h[i] = Told(h[i - 1], seq[i])
                  /\ Tellers(p, seq) = h[n]
<1>. DEFINE Is(g, k) == g = [s \in SUBSET (1 .. k) |->
                                IF s = {} THEN p
                                ELSE LET x == Max(s) IN Told(g[s \ {x}], seq[x])]
            Good == {k \in Nat : \E g : Is(g, k)}
            it == CHOOSE g : Is(g, n)
            h == [i \in 0 .. n |-> it[1 .. i]]
<1>1. Tellers(p, seq) = it[1 .. n]
  BY DEF Tellers, FoldLeft, MapThenFoldSet
<1>2. 0 \in Good
  <2>1. Is([s \in SUBSET (1 .. 0) |-> p], 0)
    OBVIOUS
  <2> QED
    BY <2>1
<1>3. ASSUME NEW k \in Nat, k \in Good PROVE k + 1 \in Good
  <2>1. PICK f : Is(f, k)
    BY <1>3
  <2>. DEFINE g == [s \in SUBSET (1 .. k + 1) |->
                       IF k + 1 \in s THEN Told(f[s \ {k + 1}], seq[k + 1]) ELSE f[s]]
  <2>2. ASSUME NEW s \in SUBSET (1 .. k + 1)
        PROVE  g[s] = IF s = {} THEN p
                      ELSE LET x == Max(s) IN Told(g[s \ {x}], seq[x])
    <3>1. CASE k + 1 \in s
      <4>1. Max(s) = k + 1
        BY <3>1, MaxOfRange
      <4>2. s \ {k + 1} \in SUBSET (1 .. k + 1) /\ s # {}
        BY <3>1
      <4>3. g[s \ {k + 1}] = f[s \ {k + 1}]
        BY <4>2
      <4> QED
        BY <3>1, <4>1, <4>2, <4>3
    <3>2. CASE k + 1 \notin s
      <4>1. s \in SUBSET (1 .. k)
        BY <3>2
      <4>2. g[s] = f[s]
        BY <3>2
      <4>3. CASE s = {}
        BY <2>1, <4>1, <4>2, <4>3
      <4>4. CASE s # {}
        <5>. DEFINE x == Max(s)
        <5>1. f[s] = Told(f[s \ {x}], seq[x])
          BY <2>1, <4>1, <4>4
        <5>2. s \ {x} \in SUBSET (1 .. k + 1) /\ k + 1 \notin s \ {x}
          BY <3>2
        <5>3. g[s \ {x}] = f[s \ {x}]
          BY <5>2
        <5> QED
          BY <4>2, <4>4, <5>1, <5>3
      <4> QED
        BY <4>3, <4>4
    <3> QED
      BY <3>1, <3>2
  <2>3. Is(g, k + 1)
    BY <2>2
  <2>. HIDE DEF g, Is
  <2>4. \E e : Is(e, k + 1)
    BY <2>3
  <2> QED
    BY <2>4
<1>4. Nat \subseteq Good
  <2>. HIDE DEF Good
  <2> QED
    BY <1>2, <1>3, NatsIn
<1>5. Is(it, n)
  <2>. HIDE DEF Is
  <2>1. \E g : Is(g, n)
    BY <1>4
  <2> QED
    BY <2>1
<1>6. \A s \in SUBSET (1 .. n) :
         it[s] = IF s = {} THEN p ELSE LET x == Max(s) IN Told(it[s \ {x}], seq[x])
  <2>. HIDE DEF it
  <2> QED
    BY <1>5
<1>. HIDE DEF it, Is
<1>7. h[0] = p
  <2>1. 1 .. 0 = {} /\ {} \in SUBSET (1 .. n) /\ h[0] = it[1 .. 0]
    OBVIOUS
  <2> QED
    BY <1>6, <2>1
<1>8. ASSUME NEW i \in 1 .. n PROVE h[i] = Told(h[i - 1], seq[i])
  <2>1. 1 .. i \in SUBSET (1 .. n) /\ i \in 1 .. i
    OBVIOUS
  <2>2. (1 .. i) \ {i} = 1 .. i - 1
    OBVIOUS
  <2>3. Max(1 .. i) = i
    <3>1. 1 .. i \subseteq Nat /\ \A y \in 1 .. i : y <= i
      OBVIOUS
    <3> QED
      BY <2>1, <3>1, MaxIs
  <2>4. it[1 .. i] = Told(it[1 .. i - 1], seq[i])
    BY <1>6, <2>1, <2>2, <2>3
  <2> QED
    BY <2>4
<1>9. h[n] = it[1 .. n]
  OBVIOUS
<1>. HIDE DEF h
<1> QED
  BY <1>1, <1>7, <1>8, <1>9

\* The same, named.
ToldBy(p, n, seq, h) ==
    /\ h[0] = p /\ \A i \in 1 .. n : h[i] = Told(h[i - 1], seq[i])
    /\ Tellers(p, seq) = h[n]

LEMMA ToldFoldBy ==
    ASSUME NEW p, NEW n \in Nat, NEW seq, DOMAIN seq = 1 .. n
    PROVE  \E h : ToldBy(p, n, seq, h)
<1>1. \E h : /\ h[0] = p
             /\ \A i \in 1 .. n : h[i] = Told(h[i - 1], seq[i])
             /\ Tellers(p, seq) = h[n]
  BY ONLY ToldFold, n \in Nat, DOMAIN seq = 1 .. n
<1>2. PICK h : /\ h[0] = p
               /\ \A i \in 1 .. n : h[i] = Told(h[i - 1], seq[i])
               /\ Tellers(p, seq) = h[n]
  BY <1>1
<1>3. ToldBy(p, n, seq, h)
  BY <1>2 DEF ToldBy
<1> QED
  BY <1>3

-----------------------------------------------------------------------------
(* What is under the lock *)

PendingStates == {"none", "held", "consumed", "dropped"}

DeliveryInv ==
    /\ accepted \in Nat /\ open \subseteq 1 .. accepted
    /\ open \subseteq Ids /\ results \subseteq Ids
    /\ results \cap open = {}
    /\ pending \in [Ids -> PendingStates]
    /\ caller \in [pc : {"idle", "submitting", "try", "test", "asleep", "gone"},
                   target : Ids \cup {AnEvent}]
    /\ \A id \in Ids : id > accepted => pending[id] = "none"
    /\ \A id \in results : pending[id] = "held"
    /\ ~ended => /\ abandoned \subseteq open
                 /\ \A id \in open : id \in abandoned <=> pending[id] # "held"
                 /\ \A id \in Ids : pending[id] = "held" => id \in open \cup results
    /\ caller.target # AnEvent => pending[caller.target] = "held"
    /\ caller.pc = "asleep" => ~ended /\ ~IsThere(caller.target)
    /\ ended <=> pc = "done"

-----------------------------------------------------------------------------
(* What the game wrote *)

IsSequence(seq) == seq \in Seq(Range(seq))

LayerStatus == IF setting.layer THEN "layerOn" ELSE "layerOff"
Payloads(event) == IF event = Layer THEN {LayerStatus} ELSE {"panic", "tracing", "processExit"}

\* A frame as it was written, or altered on its way.
IsFrame(line) ==
    /\ line = FrameLine(line.event, line.payload, 2, line.index, line.data)
    /\ line.kind = "frame" /\ line.event \in {Layer, Report} /\ line.count = 2
    /\ line.index \in {1, 2} /\ line.payload \in Payloads(line.event)
    /\ line.data \in {"good", "undecodable", "altered"}

IsLine(line) == line \in {Text, BadFrame, Torn} \/ IsFrame(line)

FrameAt(i) == stderr[i].kind = "frame"

EventOf(thread) == IF thread = "main" THEN Layer ELSE Report

\* What a thread has still to write of its marker.
Emitting(thread) ==
    \/ emitting[thread] = << >>
    \/ \E payload \in Payloads(EventOf(thread)) :
          \/ /\ emitting[thread] = Encode(EventOf(thread), payload, 2)
             /\ \A i \in DOMAIN stderr : FrameAt(i) => stderr[i].event # EventOf(thread)
          \/ /\ emitting[thread] = <<FrameLine(EventOf(thread), payload, 2, 2, "good")>>
             /\ \A i \in DOMAIN stderr : FrameAt(i) /\ stderr[i].event = EventOf(thread) =>
                   stderr[i].index = 1 /\ stderr[i].payload = payload

\* No part of a marker is written twice.
LinesInv ==
    /\ IsSequence(stderr) /\ \A i \in DOMAIN stderr : IsLine(stderr[i])
    /\ \A i, j \in DOMAIN stderr :
          FrameAt(i) /\ FrameAt(j) /\ stderr[i].event = stderr[j].event =>
             /\ stderr[i].payload = stderr[j].payload
             /\ (stderr[i].index = stderr[j].index => i = j)

EmitInv ==
    DOMAIN emitting = Threads /\ \A thread \in Threads : Emitting(thread)

Launching == pc \in {"metadata", "optional", "spawn"}

PlaceInv ==
    /\ setting \in Settings
    /\ pc \in {"metadata", "optional", "spawn", "loop", "end", "done"}
    /\ Launching => game = "none" /\ stderr = << >> /\ ~observation.wireReady /\ stdout = said
    /\ pc = "done" => ~Runs

GameInv == LinesInv /\ EmitInv /\ PlaceInv

-----------------------------------------------------------------------------
(* What the observer holds *)

\* Both frames of a marker are among the first n lines.
Shown(event, payload, n) ==
    \A index \in {1, 2} : \E i \in 1 .. n : stderr[i] = FrameLine(event, payload, 2, index, "good")

PanicShown == Shown(Report, "panic", read)

ObserverInv ==
    /\ DOMAIN observer = {"pieces", "groups", "panicSeen", "human", "torn"}
    /\ read \in 0 .. Len(stderr)
    /\ \A f \in observer.groups : /\ IsFrame(f) /\ f.data # "undecodable"
                                  /\ \E i \in 1 .. read : stderr[i] = f
    /\ \A f, g \in observer.groups : f.event = g.event => f = g
    /\ "stderr" \notin closed /\ pc # "done" =>
          \A i \in 1 .. read :
             /\ FrameAt(i) /\ stderr[i].data = "good"
             /\ \A j \in 1 .. read : FrameAt(j) /\ stderr[j].event = stderr[i].event => j = i
             => stderr[i] \in observer.groups
    /\ "stderr" \in closed => read = Len(stderr)
    /\ observer.panicSeen \in BOOLEAN
    /\ observer.panicSeen <=> PanicShown

-----------------------------------------------------------------------------
(* The handshake *)

StartInv ==
    /\ observation \in [wireReady : BOOLEAN, layer : {"unknown", "layerOn", "layerOff"},
                        initialized : BOOLEAN]
    /\ observation.initialized => observation.wireReady /\ ready = <<"ok">>
    /\ ~observation.initialized /\ pc # "done" => ready = << >>
    /\ ~observation.initialized /\ pc = "done" =>
          \E error \in {"ended", "launch", "unsupported", "invalidReady"} :
             ready = <<error>> /\ (error = "ended" => cancel)
    /\ observation.wireReady => said # << >> /\ Head(said) = "ready"
    /\ ~observation.wireReady /\ pc = "loop" => stdout = said
    /\ observation.layer = "layerOn" => Shown(Layer, "layerOn", read)
    /\ observation.initialized /\ setting.tracing => Shown(Layer, "layerOn", read)

-----------------------------------------------------------------------------
(* The reports *)

\* How often an event of a kind was told.
Tellings(seq, kind) == {i \in DOMAIN seq : seq[i] = kind}
Times(seq, kind) == Cardinality(Tellings(seq, kind))

DeathInv ==
    /\ IsSequence(told)
    /\ Times(told, "panic") \in {0, 1} /\ Times(told, "processExit") \in {0, 1}
    /\ Times(told, "panic") = 1 => observer.panicSeen
    /\ Times(told, "processExit") = 1 => pc \in {"end", "done"} /\ ~observer.panicSeen
    /\ cleanup => reason # "none"
    /\ reason = "exit" => pc \in {"end", "done"}
    /\ pc \in {"end", "done"} /\ observation.initialized /\ reason = "exit" /\ ~stopping =>
          (Times(told, "processExit") = 0 <=> observer.panicSeen)

-----------------------------------------------------------------------------
(* How often an event of a kind was told *)

LEMMA TimesEmpty == ASSUME NEW kind PROVE Times(<< >>, kind) = 0 /\ IsSequence(<< >>)
<1>1. Tellings(<< >>, kind) = {}
  BY DEF Tellings
<1> QED
  BY <1>1, FS_EmptySet DEF Times, IsSequence

LEMMA TimesAppend ==
    ASSUME NEW s, IsSequence(s), NEW e, NEW kind
    PROVE  /\ IsSequence(Append(s, e)) /\ Times(s, kind) \in Nat
           /\ Times(Append(s, e), kind) = Times(s, kind) + (IF e = kind THEN 1 ELSE 0)
<1>. DEFINE S == Range(s) \cup {e}
            t == Append(s, e)
            n == Len(s) + 1
<1>0. s \in Seq(S) /\ e \in S
  BY DEF IsSequence
<1>1. /\ t \in Seq(S) /\ Len(t) = n /\ t[n] = e /\ n \in Nat
      /\ \A i \in 1 .. Len(s) : t[i] = s[i]
  BY <1>0, AppendProperties
<1>2. DOMAIN t = 1 .. n /\ DOMAIN s = 1 .. Len(s) /\ Len(s) \in Nat
  BY <1>0, <1>1
<1>. HIDE DEF t
<1>3. IsSequence(t)
  <2>1. \A i \in 1 .. n : t[i] \in Range(t)
    BY <1>2 DEF Range
  <2>2. t = [i \in 1 .. n |-> t[i]]
    BY <1>1
  <2> QED
    BY <1>1, <2>1, <2>2 DEF IsSequence
<1>4. IsFiniteSet(Tellings(s, kind)) /\ Times(s, kind) \in Nat
  <2>1. IsFiniteSet(1 .. Len(s)) /\ Tellings(s, kind) \subseteq 1 .. Len(s)
    BY <1>2, FS_Interval DEF Tellings
  <2> QED
    BY <2>1, FS_Subset, FS_CardinalityType DEF Times
<1>5. Times(t, kind) = Times(s, kind) + (IF e = kind THEN 1 ELSE 0)
  <2>1. CASE e = kind
    <3>1. Tellings(t, kind) = Tellings(s, kind) \cup {n} /\ n \notin Tellings(s, kind)
      BY <1>1, <1>2, <2>1 DEF Tellings
    <3>2. Cardinality(Tellings(t, kind)) = Cardinality(Tellings(s, kind)) + 1
      BY <1>4, <3>1, FS_AddElement
    <3> QED
      BY <2>1, <3>2 DEF Times
  <2>2. CASE e # kind
    <3>1. Tellings(t, kind) = Tellings(s, kind)
      BY <1>1, <1>2, <2>2 DEF Tellings
    <3> QED
      BY <1>4, <2>2, <3>1 DEF Times
  <2> QED
    BY <2>1, <2>2
<1> QED
  BY <1>3, <1>4, <1>5 DEF t

-----------------------------------------------------------------------------
(* What notices do to the step of the loop *)

NowFields == {"observation", "ready", "events", "reason", "told", "failed"}

\* Every q that adds one kind to what p told, and may overflow.
Tells(p, q, kind) ==
    /\ DOMAIN q = NowFields
    /\ q.observation = p.observation /\ q.ready = p.ready /\ q.failed = p.failed
    /\ q.told = Append(p.told, kind)
    /\ q.reason = p.reason \/ (p.reason = "none" /\ q.reason = "overflow")

LEMMA ToldTells ==
    ASSUME NEW p, DOMAIN p = NowFields, NEW notice
    PROVE  Tells(p, Told(p, notice), notice.kind)
BY DEF Tells, Told, NowFields

\* Nothing of a start or a death is told.
Goes(p, q) ==
    /\ DOMAIN q = NowFields
    /\ q.observation = p.observation /\ q.ready = p.ready /\ q.failed = p.failed
    /\ IsSequence(q.told)
    /\ Times(q.told, "panic") = Times(p.told, "panic")
    /\ Times(q.told, "processExit") = Times(p.told, "processExit")
    /\ q.reason = p.reason \/ (p.reason = "none" /\ q.reason = "overflow")

LEMMA GoesSelf ==
    ASSUME NEW p, DOMAIN p = NowFields, IsSequence(p.told)
    PROVE  Goes(p, p)
BY DEF Goes

LEMMA GoesOn ==
    ASSUME NEW p, NEW q, NEW r, Goes(p, q), Goes(q, r) PROVE Goes(p, r)
BY DEF Goes

LEMMA TellsGoes ==
    ASSUME NEW p, NEW q, NEW kind, IsSequence(p.told), Tells(p, q, kind),
           kind \notin {"panic", "processExit"}
    PROVE  Goes(p, q)
<1>1. IsSequence(q.told) /\ Times(p.told, "panic") \in Nat /\ Times(p.told, "processExit") \in Nat
      /\ Times(q.told, "panic") = Times(p.told, "panic") + 0
      /\ Times(q.told, "processExit") = Times(p.told, "processExit") + 0
  BY TimesAppend DEF Tells
<1> QED
  BY <1>1 DEF Goes, Tells

LEMMA NoticedInvalid ==
    ASSUME NEW p, DOMAIN p = NowFields, IsSequence(p.told)
    PROVE  Goes(p, Noticed(p, Invalid))
<1>1. Tells(p, Told(p, Invalid), "invalid")
  BY ToldTells DEF Invalid
<1>2. Goes(p, Told(p, Invalid))
  BY <1>1, TellsGoes
<1>3. Noticed(p, Invalid) \in {p, Told(p, Invalid)}
  BY DEF Noticed, Invalid
<1> QED
  BY <1>2, <1>3, GoesSelf

LEMMA InvalidNotices ==
    ASSUME NEW p, DOMAIN p = NowFields, IsSequence(p.told), NEW n \in Nat
    PROVE  Goes(p, Notices(p, [i \in 1 .. n |-> Invalid]))
<1>. DEFINE seq == [i \in 1 .. n |-> Invalid]
<1>1. DOMAIN seq = 1 .. n /\ \A i \in 1 .. n : seq[i] = Invalid
  OBVIOUS
<1>. HIDE DEF seq
<1>2. PICK h : /\ h[0] = p
               /\ \A i \in 1 .. n : h[i] = Noticed(h[i - 1], seq[i])
               /\ Notices(p, seq) = h[n]
  <2>1. PICK h : NoticedBy(p, n, seq, h)
    BY <1>1, NoticedFoldBy
  <2> QED
    BY <2>1 DEF NoticedBy
<1>. DEFINE Good == {k \in Nat : k <= n => Goes(p, h[k])}
<1>3. 0 \in Good
  BY <1>2, GoesSelf
<1>4. ASSUME NEW k \in Nat, k \in Good PROVE k + 1 \in Good
  <2>1. SUFFICES ASSUME k + 1 <= n PROVE Goes(p, h[k + 1])
    OBVIOUS
  <2>2. Goes(p, h[k])
    BY <1>4, <2>1
  <2>3. k + 1 \in 1 .. n /\ (k + 1) - 1 = k
    BY <2>1
  <2>4. h[k + 1] = Noticed(h[k], Invalid)
    BY <1>1, <1>2, <2>3
  <2>5. DOMAIN h[k] = NowFields /\ IsSequence(h[k].told)
    BY <2>2 DEF Goes
  <2>6. Goes(h[k], h[k + 1])
    BY <2>4, <2>5, NoticedInvalid
  <2> QED
    BY <2>2, <2>6, GoesOn
<1>5. Nat \subseteq Good
  <2>. HIDE DEF Good
  <2> QED
    BY <1>3, <1>4, NatsIn
<1>6. Goes(p, h[n])
  BY <1>5
<1> QED
  BY <1>2, <1>6 DEF seq

LEMMA NoNotice ==
    ASSUME NEW p PROVE Notices(p, << >>) = p
<1>1. DOMAIN << >> = 1 .. 0 /\ 1 .. 0 = {}
  OBVIOUS
<1>2. PICK h : NoticedBy(p, 0, << >>, h)
  BY <1>1, NoticedFoldBy
<1> QED
  BY <1>2 DEF NoticedBy

LEMMA OneNotice ==
    ASSUME NEW p, NEW x PROVE Notices(p, <<x>>) = Noticed(p, x)
<1>1. DOMAIN <<x>> = 1 .. 1 /\ <<x>>[1] = x /\ 1 .. 1 = {1}
  OBVIOUS
<1>2. PICK h : NoticedBy(p, 1, <<x>>, h)
  BY <1>1, NoticedFoldBy
<1>3. h[0] = p /\ h[1] = Noticed(h[1 - 1], <<x>>[1]) /\ Notices(p, <<x>>) = h[1]
  BY <1>1, <1>2 DEF NoticedBy
<1> QED
  BY <1>1, <1>3

LEMMA NoTelling ==
    ASSUME NEW p PROVE Tellers(p, << >>) = p
<1>1. DOMAIN << >> = 1 .. 0 /\ 1 .. 0 = {}
  OBVIOUS
<1>2. PICK h : ToldBy(p, 0, << >>, h)
  BY <1>1, ToldFoldBy
<1> QED
  BY <1>2 DEF ToldBy

LEMMA OneTelling ==
    ASSUME NEW p, NEW x PROVE Tellers(p, <<x>>) = Told(p, x)
<1>1. DOMAIN <<x>> = 1 .. 1 /\ <<x>>[1] = x /\ 1 .. 1 = {1}
  OBVIOUS
<1>2. PICK h : ToldBy(p, 1, <<x>>, h)
  BY <1>1, ToldFoldBy
<1>3. h[0] = p /\ h[1] = Told(h[1 - 1], <<x>>[1]) /\ Tellers(p, <<x>>) = h[1]
  BY <1>1, <1>2 DEF ToldBy
<1> QED
  BY <1>1, <1>3

-----------------------------------------------------------------------------
(* What the observer makes of a line *)

ObserverFields == {"pieces", "groups", "panicSeen", "human", "torn"}

\* The parts of an observer that decide.
Keeps(o, q) ==
    DOMAIN q = ObserverFields /\ q.groups = o.groups /\ q.panicSeen = o.panicSeen

LEMMA PieceKeeps ==
    ASSUME NEW o, DOMAIN o = ObserverFields, NEW event, NEW line
    PROVE  Keeps(o, Piece(o, event, line))
<1>. DEFINE new == Append(o.pieces, [event |-> event, line |-> line])
<1>1. Piece(o, event, line) = [o EXCEPT !.pieces = new]
  BY DEF Piece
<1>. HIDE DEF new
<1> QED
  BY <1>1 DEF Keeps, ObserverFields

LEMMA ResolveKeeps ==
    ASSUME NEW o, DOMAIN o = ObserverFields, NEW event, NEW isValid
    PROVE  Keeps(o, Resolve(o, event, isValid))
<1>1. \E new : Resolve(o, event, isValid) = [o EXCEPT !.pieces = new]
  BY Zenon DEF Resolve
<1> QED
  BY <1>1 DEF Keeps, ObserverFields

LEMMA FlushKeeps ==
    ASSUME NEW o, DOMAIN o = ObserverFields PROVE Keeps(o, Flush(o))
<1>. DEFINE front == o.human \o [i \in 1 .. Released(o) |-> o.pieces[i].line]
            rest == SubSeq(o.pieces, Released(o) + 1, Len(o.pieces))
<1>1. Flush(o) = [o EXCEPT !.human = front, !.pieces = rest]
  BY DEF Flush
<1>. HIDE DEF front, rest
<1> QED
  BY <1>1 DEF Keeps, ObserverFields

\* push() flushes what line() gave.
LEMMA PushIs ==
    ASSUME NEW o, NEW line, NEW tracing, NEW q, NEW notices, DOMAIN q = ObserverFields,
           Line(o, line, tracing) = Result(q, notices)
    PROVE  /\ Keeps(q, Push(o, line, tracing).observer)
           /\ Push(o, line, tracing).notices = notices
<1>1. Push(o, line, tracing) = [Result(q, notices) EXCEPT !.observer = Flush(q)]
  BY DEF Push, Flushed, Result
<1>2. /\ Push(o, line, tracing).observer = Flush(q)
      /\ Push(o, line, tracing).notices = notices
  BY <1>1 DEF Result
<1> QED
  BY <1>2, FlushKeeps

\* A line that is no frame.
LEMMA PushPlain ==
    ASSUME NEW o, DOMAIN o = ObserverFields, NEW line \in {Text, BadFrame, Torn}, NEW tracing
    PROVE  /\ Keeps(o, Push(o, line, tracing).observer)
           /\ Push(o, line, tracing).notices \in {<< >>, <<Invalid>>}
<1>1. CASE line = Text
  <2>1. Line(o, line, tracing) = Result(Piece(o, 0, line), << >>)
    BY <1>1 DEF Line, Text
  <2> QED
    BY <2>1, PieceKeeps, PushIs DEF Keeps
<1>2. CASE line = BadFrame
  <2>1. Line(o, line, tracing) = Result(Piece(o, 0, line), <<Invalid>>)
    BY <1>2 DEF Line, BadFrame
  <2> QED
    BY <2>1, PieceKeeps, PushIs DEF Keeps
<1>3. CASE line = Torn
  <2>. DEFINE q == [o EXCEPT !.torn = TRUE]
  <2>1. Line(o, line, tracing) = Result(q, << >>)
    BY <1>3 DEF Line, Torn
  <2>2. Keeps(o, q)
    BY DEF Keeps, ObserverFields
  <2>. HIDE DEF q
  <2> QED
    BY <2>1, <2>2, PushIs DEF Keeps
<1> QED
  BY <1>1, <1>2, <1>3

-----------------------------------------------------------------------------
(* What the observer makes of a frame *)

\* One frame of each marker that is not complete.
Groups(o) ==
    /\ DOMAIN o = ObserverFields
    /\ \A f \in o.groups : IsFrame(f)
    /\ \A f, g \in o.groups : f.event = g.event => f = g

\* The frame is spoilt, or there already.
Clashes(o, f, q, notices) ==
    /\ f.data = "undecodable" \/ \E g \in o.groups : g.event = f.event /\ g.index = f.index
    /\ q.groups = o.groups \ GroupOf(o, f.event) /\ q.panicSeen = o.panicSeen
    /\ notices = <<Invalid>>

\* It is the first of its marker.
IsHeld(o, f, q, notices) ==
    /\ f.data # "undecodable" /\ GroupOf(o, f.event) = {}
    /\ q.groups = o.groups \cup {f} /\ q.panicSeen = o.panicSeen
    /\ notices = << >>

IsValid(f, g) ==
    f.data = "good" /\ g.data = "good" /\ f.payload # "processExit" /\ g.payload # "processExit"

\* It completes the marker that g began.
Completes(o, f, tracing, q, notices) ==
    \E g \in o.groups : \E payload \in {f.payload, g.payload} :
       /\ g.event = f.event /\ g.index # f.index
       /\ q.groups = o.groups \ GroupOf(o, f.event)
       /\ q.panicSeen = (o.panicSeen \/ (IsValid(f, g) /\ payload = "panic"))
       /\ notices = IF IsValid(f, g) THEN NoticesOf(payload, tracing) ELSE <<Invalid>>

LEMMA WithoutKeeps ==
    ASSUME NEW o, DOMAIN o = ObserverFields, NEW event
    PROVE  /\ DOMAIN WithoutGroup(o, event) = ObserverFields
           /\ WithoutGroup(o, event).groups = o.groups \ GroupOf(o, event)
           /\ WithoutGroup(o, event).panicSeen = o.panicSeen
BY DEF WithoutGroup, ObserverFields

LEMMA GroupSame ==
    ASSUME NEW o, NEW q, q.groups = o.groups, NEW event
    PROVE  GroupOf(q, event) = GroupOf(o, event)
BY DEF GroupOf

LEMMA ReassembledIs ==
    ASSUME NEW o, DOMAIN o = ObserverFields, o.panicSeen \in BOOLEAN, NEW f, NEW g, NEW tracing,
           f.event = g.event
    PROVE  LET r == Reassembled(o, {f, g}, tracing) IN
           \E q : \E payload \in {f.payload, g.payload} :
              /\ r = Result(q, IF IsValid(f, g) THEN NoticesOf(payload, tracing) ELSE <<Invalid>>)
              /\ DOMAIN q = ObserverFields
              /\ q.groups = o.groups \ GroupOf(o, f.event)
              /\ q.panicSeen = (o.panicSeen \/ (IsValid(f, g) /\ payload = "panic"))
<1>. DEFINE frame == CHOOSE x \in {f, g} : TRUE
            payload == frame.payload
            valid == IsPayload({f, g})
            rest == Resolve(WithoutGroup(o, frame.event), frame.event, valid)
            q == [rest EXCEPT !.panicSeen = @ \/ (valid /\ payload = "panic")]
<1>1. Reassembled(o, {f, g}, tracing)
        = Result(q, IF valid THEN NoticesOf(payload, tracing) ELSE <<Invalid>>)
  BY DEF Reassembled
<1>2. frame \in {f, g}
  OBVIOUS
<1>3. frame.event = f.event /\ payload \in {f.payload, g.payload}
  BY <1>2
<1>4. valid = IsValid(f, g)
  BY DEF IsPayload, IsValid
<1>. HIDE DEF frame, payload, valid
<1>5. Keeps(WithoutGroup(o, f.event), rest)
  BY <1>3, WithoutKeeps, ResolveKeeps
<1>. HIDE DEF rest
<1>6. /\ DOMAIN rest = ObserverFields /\ rest.groups = o.groups \ GroupOf(o, f.event)
      /\ rest.panicSeen = o.panicSeen
  BY <1>5, WithoutKeeps DEF Keeps
<1>7. /\ DOMAIN q = ObserverFields /\ q.groups = rest.groups
      /\ q.panicSeen = (rest.panicSeen \/ (valid /\ payload = "panic"))
  BY <1>6 DEF ObserverFields
<1>. HIDE DEF q
<1> QED
  BY <1>1, <1>3, <1>4, <1>6, <1>7

LEMMA PushFrame ==
    ASSUME NEW o, Groups(o), o.panicSeen \in BOOLEAN, NEW f, IsFrame(f), NEW tracing
    PROVE  LET q == Push(o, f, tracing).observer
               notices == Push(o, f, tracing).notices
           IN  /\ DOMAIN q = ObserverFields
               /\ \/ Clashes(o, f, q, notices) \/ IsHeld(o, f, q, notices)
                  \/ Completes(o, f, tracing, q, notices)
<1>. DEFINE event == f.event
            held == Piece(o, event, f)
            group == GroupOf(o, event) \cup {f}
            r == Push(o, f, tracing)
<1>1. Line(o, f, tracing) = Frame(o, f, tracing)
  BY DEF Line, IsFrame
<1>2. Keeps(o, held)
  BY PieceKeeps DEF Groups
<1>. HIDE DEF held
<1>3. GroupOf(held, event) = GroupOf(o, event)
  BY <1>2, GroupSame DEF Keeps
<1>4. CASE ~IsConsistent(o, f)
  <2>. DEFINE q == Resolve(WithoutGroup(held, event), event, FALSE)
  <2>1. Line(o, f, tracing) = Result(q, <<Invalid>>)
    BY <1>1, <1>4 DEF Frame, held
  <2>2. Keeps(WithoutGroup(held, event), q)
    <3>1. DOMAIN held = ObserverFields
      BY <1>2 DEF Keeps
    <3>2. DOMAIN WithoutGroup(held, event) = ObserverFields
      BY <3>1, WithoutKeeps
    <3> QED
      BY <3>2, ResolveKeeps
  <2>. HIDE DEF q
  <2>3. DOMAIN q = ObserverFields /\ q.panicSeen = o.panicSeen
        /\ q.groups = o.groups \ GroupOf(o, event)
    BY <1>2, <1>3, <2>2, WithoutKeeps DEF Keeps
  <2>4. Keeps(q, r.observer) /\ r.notices = <<Invalid>>
    BY <2>1, <2>3, PushIs
  <2>5. f.data = "undecodable" \/ \E g \in o.groups : g.event = f.event /\ g.index = f.index
    BY <1>4 DEF IsConsistent, GroupOf, IsFrame, Groups
  <2> QED
    BY <2>3, <2>4, <2>5 DEF Clashes, Keeps
<1>5. CASE IsConsistent(o, f) /\ GroupOf(o, event) = {}
  <2>. DEFINE q == [held EXCEPT !.groups = @ \cup {f}]
  <2>1. Cardinality(group) = 1
    BY <1>5, FS_Singleton
  <2>2. Cardinality(group) < f.count
    BY <2>1 DEF IsFrame
  <2>3. Line(o, f, tracing) = Result(q, << >>)
    BY <1>1, <1>5, <2>2 DEF Frame, held
  <2>4. DOMAIN q = ObserverFields /\ q.groups = o.groups \cup {f} /\ q.panicSeen = o.panicSeen
    BY <1>2 DEF Keeps, ObserverFields
  <2>. HIDE DEF q
  <2>5. Keeps(q, r.observer) /\ r.notices = << >>
    BY <2>3, <2>4, PushIs
  <2> QED
    BY <1>5, <2>4, <2>5 DEF IsHeld, Keeps, IsConsistent
<1>6. CASE IsConsistent(o, f) /\ GroupOf(o, event) # {}
  <2>1. PICK g \in GroupOf(o, event) : TRUE
    BY <1>6
  <2>2. g \in o.groups /\ g.event = event /\ g.index # f.index
    BY <1>6, <2>1 DEF GroupOf, IsConsistent
  <2>3. group = {f, g}
    BY <2>1, <2>2 DEF Groups, GroupOf
  <2>4. Cardinality(group) = 2
    <3>1. f # g
      BY <2>2
    <3>2. IsFiniteSet({g}) /\ Cardinality({g}) = 1
      BY FS_Singleton
    <3>3. Cardinality({g} \cup {f}) = 1 + 1
      BY <3>1, <3>2, FS_AddElement
    <3>4. {g} \cup {f} = {f, g}
      OBVIOUS
    <3> QED
      BY <2>3, <3>3, <3>4
  <2>5. ~(Cardinality(group) < f.count)
    BY <2>4 DEF IsFrame
  <2>6. Line(o, f, tracing) = Reassembled(held, {f, g}, tracing)
    BY <1>1, <1>6, <2>3, <2>5 DEF Frame, held
  <2>7. PICK q : \E payload \in {f.payload, g.payload} :
              /\ Reassembled(held, {f, g}, tracing)
                   = Result(q, IF IsValid(f, g) THEN NoticesOf(payload, tracing) ELSE <<Invalid>>)
              /\ DOMAIN q = ObserverFields
              /\ q.groups = held.groups \ GroupOf(held, f.event)
              /\ q.panicSeen = (held.panicSeen \/ (IsValid(f, g) /\ payload = "panic"))
    BY <1>2, <2>2, ReassembledIs DEF Keeps
  <2>8. PICK payload \in {f.payload, g.payload} :
              /\ Reassembled(held, {f, g}, tracing)
                   = Result(q, IF IsValid(f, g) THEN NoticesOf(payload, tracing) ELSE <<Invalid>>)
              /\ DOMAIN q = ObserverFields
              /\ q.groups = held.groups \ GroupOf(held, f.event)
              /\ q.panicSeen = (held.panicSeen \/ (IsValid(f, g) /\ payload = "panic"))
    BY <2>7
  <2>. DEFINE notices == IF IsValid(f, g) THEN NoticesOf(payload, tracing) ELSE <<Invalid>>
  <2>9. Keeps(q, r.observer) /\ r.notices = notices
    BY <2>6, <2>8, PushIs
  <2>10. /\ r.observer.groups = o.groups \ GroupOf(o, event)
         /\ r.observer.panicSeen = (o.panicSeen \/ (IsValid(f, g) /\ payload = "panic"))
    BY <1>2, <1>3, <2>8, <2>9 DEF Keeps
  <2>11. Completes(o, f, tracing, r.observer, r.notices)
    BY <2>2, <2>9, <2>10 DEF Completes
  <2> QED
    BY <2>9, <2>11 DEF Keeps
<1> QED
  BY <1>4, <1>5, <1>6

\* finish(): nothing waits any more, and all it tells is that something did.
LEMMA FinishIs ==
    ASSUME NEW o, Groups(o)
    PROVE  /\ DOMAIN Finish(o).observer = ObserverFields
           /\ Finish(o).observer.groups = {} /\ Finish(o).observer.panicSeen = o.panicSeen
           /\ \E n \in Nat : Finish(o).notices = [i \in 1 .. n |-> Invalid]
<1>. DEFINE waiting == {frame.event : frame \in o.groups}
            loosed == IF o.torn THEN Piece([o EXCEPT !.torn = FALSE], 0, Torn) ELSE o
            count == Cardinality(waiting) + (IF o.torn THEN 1 ELSE 0)
            loose == [i \in DOMAIN loosed.pieces |-> [loosed.pieces[i] EXCEPT !.event = 0]]
            q == [loosed EXCEPT !.groups = {}, !.pieces = loose]
            notices == [i \in 1 .. count |-> Invalid]
<1>1. Finish(o) = Flushed(Result(q, notices))
  BY DEF Finish
<1>2. count \in Nat
  <2>0. waiting \subseteq 1 .. 2 /\ IsFiniteSet(1 .. 2)
    <3>1. \A f \in o.groups : f.event \in {1, 2}
      BY DEF Groups, IsFrame, Layer, Report
    <3>2. waiting \subseteq 1 .. 2
      BY <3>1
    <3>3. IsFiniteSet(1 .. 2)
      BY ONLY FS_Interval, 1 \in Int, 2 \in Int
    <3> QED
      BY <3>2, <3>3
  <2>1. IsFiniteSet(waiting)
    BY <2>0, FS_Subset
  <2>2. Cardinality(waiting) \in Nat
    BY <2>1, FS_CardinalityType
  <2>. HIDE DEF waiting
  <2> QED
    BY <2>2
<1>3. Keeps(o, loosed)
  <2>0. DOMAIN o = ObserverFields
    BY DEF Groups
  <2>1. CASE o.torn
    <3>. DEFINE calm == [o EXCEPT !.torn = FALSE]
    <3>1. Keeps(o, calm)
      BY <2>0 DEF Keeps, ObserverFields
    <3>. HIDE DEF calm
    <3>2. Keeps(calm, Piece(calm, 0, Torn))
      BY <3>1, PieceKeeps DEF Keeps
    <3>3. loosed = Piece(calm, 0, Torn)
      BY <2>1 DEF calm
    <3>. HIDE DEF loosed
    <3> QED
      BY <3>1, <3>2, <3>3 DEF Keeps
  <2>2. CASE ~o.torn
    BY <2>0, <2>2 DEF Keeps
  <2> QED
    BY <2>1, <2>2
<1>. HIDE DEF loosed, count, loose
<1>4. DOMAIN q = ObserverFields /\ q.groups = {} /\ q.panicSeen = o.panicSeen
  BY <1>3 DEF Keeps, ObserverFields
<1>. HIDE DEF q
<1>5. Finish(o) = [Result(q, notices) EXCEPT !.observer = Flush(q)]
  BY <1>1 DEF Flushed, Result
<1>6. Finish(o).observer = Flush(q) /\ Finish(o).notices = notices
  <2>. HIDE DEF notices
  <2> QED
    BY <1>5 DEF Result
<1> QED
  BY <1>2, <1>4, <1>6, FlushKeeps DEF Keeps

-----------------------------------------------------------------------------
(* What an observation does to the start *)

\* o is the observation before it was confirmed or given up.
Fate(p, q, o) ==
    /\ DOMAIN q = NowFields
    /\ q.told = p.told /\ q.reason = p.reason /\ q.events = p.events
    /\ \/ q.failed = FALSE /\ q.observation = o /\ q.ready = p.ready
       \/ /\ ~o.initialized /\ IsConfirmed(o) /\ q.failed = FALSE
          /\ q.observation = [o EXCEPT !.initialized = TRUE] /\ q.ready = Append(p.ready, "ok")
       \/ /\ ~o.initialized /\ q.failed = TRUE /\ q.observation = o
          /\ \E error \in {"launch", "unsupported", "invalidReady"} : q.ready = Append(p.ready, error)

LEMMA ConfirmedFate ==
    ASSUME NEW p, DOMAIN p = NowFields, p.failed = FALSE, p.observation.initialized \in BOOLEAN,
           setting.tracing \in BOOLEAN
    PROVE  Fate(p, Confirmed(p), p.observation)
<1>1. CASE p.observation.initialized
  BY <1>1 DEF Confirmed, Fate
<1>2. CASE ~p.observation.initialized /\ setting.tracing /\ p.observation.layer = "layerOff"
  BY <1>2 DEF Confirmed, Fate, NowFields
<1>3. CASE ~p.observation.initialized /\ ~(setting.tracing /\ p.observation.layer = "layerOff")
  <2>1. CASE IsConfirmed(p.observation)
    <3>. DEFINE q == [p EXCEPT !.observation.initialized = TRUE, !.ready = Append(@, "ok")]
    <3>1. Confirmed(p) = q
      BY <1>3, <2>1 DEF Confirmed
    <3>2. Fate(p, q, p.observation)
      BY <1>3, <2>1 DEF Fate, NowFields
    <3> QED
      BY <3>1, <3>2
  <2>2. CASE ~IsConfirmed(p.observation)
    BY <1>3, <2>2 DEF Confirmed, Fate
  <2> QED
    BY <2>1, <2>2
<1> QED
  BY <1>1, <1>2, <1>3

LEMMA NowIs ==
    /\ DOMAIN Now = NowFields /\ Now.observation = observation /\ Now.ready = ready
    /\ Now.events = events /\ Now.reason = reason /\ Now.told = told /\ Now.failed = FALSE
BY DEF Now, NowFields

Observations ==
    [wireReady : BOOLEAN, layer : {"unknown", "layerOn", "layerOff"}, initialized : BOOLEAN]

LEMMA LayerFate ==
    ASSUME observation \in Observations, setting.tracing \in BOOLEAN,
           NEW kind \in {"layerOn", "layerOff"}
    PROVE  Fate(Now, Noticed(Now, [kind |-> kind]), [observation EXCEPT !.layer = kind])
<1>. DEFINE p == [Now EXCEPT !.observation.layer = kind]
<1>1. Noticed(Now, [kind |-> kind]) = Confirmed(p)
  BY NowIs DEF Noticed
<1>2. /\ DOMAIN p = NowFields /\ p.failed = FALSE /\ p.ready = ready /\ p.told = told
      /\ p.reason = reason /\ p.events = events
      /\ p.observation = [observation EXCEPT !.layer = kind]
  BY NowIs DEF NowFields
<1>3. p.observation.initialized \in BOOLEAN
  BY <1>2 DEF Observations
<1>. HIDE DEF p
<1>4. Fate(p, Confirmed(p), p.observation)
  BY <1>2, <1>3, ConfirmedFate
<1> QED
  BY <1>1, <1>2, <1>4, NowIs DEF Fate

LEMMA LineFate ==
    ASSUME observation \in Observations, setting.tracing \in BOOLEAN, NEW line
    PROVE  \/ observation.initialized /\ Tells(Now, LineRead(line), "protocol")
           \/ /\ ~observation.initialized /\ line = "ready" /\ ~observation.wireReady
              /\ Fate(Now, LineRead(line), [observation EXCEPT !.wireReady = TRUE])
           \/ /\ ~observation.initialized /\ LineRead(line).failed = TRUE
              /\ Fate(Now, LineRead(line), observation)
<1>1. CASE observation.initialized
  <2>1. LineRead(line) = Told(Now, [kind |-> "protocol"])
    BY <1>1 DEF LineRead
  <2>2. Tells(Now, Told(Now, [kind |-> "protocol"]), "protocol")
    BY NowIs, ToldTells
  <2> QED
    BY <1>1, <2>1, <2>2
<1>2. CASE ~observation.initialized /\ line = "ready" /\ ~observation.wireReady
  <2>. DEFINE p == [Now EXCEPT !.observation.wireReady = TRUE]
  <2>1. LineRead(line) = Confirmed(p)
    BY <1>2 DEF LineRead
  <2>2. /\ DOMAIN p = NowFields /\ p.failed = FALSE /\ p.ready = ready /\ p.told = told
        /\ p.reason = reason /\ p.events = events
        /\ p.observation = [observation EXCEPT !.wireReady = TRUE]
    BY NowIs DEF NowFields
  <2>3. p.observation.initialized \in BOOLEAN
    BY <2>2 DEF Observations
  <2>. HIDE DEF p
  <2>4. Fate(p, Confirmed(p), p.observation)
    BY <2>2, <2>3, ConfirmedFate
  <2>5. Fate(Now, LineRead(line), [observation EXCEPT !.wireReady = TRUE])
    BY <2>1, <2>2, <2>4, NowIs DEF Fate
  <2> QED
    BY <1>2, <2>5
<1>3. CASE ~observation.initialized /\ ~(line = "ready" /\ ~observation.wireReady)
  <2>. DEFINE error == IF line = "oldReady" THEN "unsupported" ELSE "invalidReady"
              q == [Now EXCEPT !.failed = TRUE, !.ready = Append(@, error)]
  <2>1. LineRead(line) = q
    BY <1>3 DEF LineRead
  <2>2. error \in {"launch", "unsupported", "invalidReady"}
    OBVIOUS
  <2>. HIDE DEF error
  <2>3. Fate(Now, q, observation) /\ q.failed = TRUE
    BY <1>3, <2>2, NowIs DEF Fate, NowFields
  <2> QED
    BY <1>3, <2>1, <2>3
<1> QED
  BY <1>1, <1>2, <1>3

-----------------------------------------------------------------------------
(* Every outcome has its Pending *)

LEMMA IdsAreNumbers == \A id \in Ids : id \in Nat \ {0}
<1>. DEFINE n == Cardinality(Ids)
<1>1. n \in Nat
  BY IdsAssumption, FS_CardinalityType
<1>2. Ids = 1 .. n
  BY IdsAssumption
<1>. HIDE DEF n
<1> QED
  BY <1>1, <1>2

LEMMA DeliveryStarts == Init => DeliveryInv
<1>. SUFFICES ASSUME Init PROVE DeliveryInv
  OBVIOUS
<1> QED
  BY DEF Init, DeliveryInit, DeliveryInv, At, AnEvent, PendingStates

\* What the coordinator does to the state under the lock, besides the commands.
CoordinatorOnly ==
    /\ UNCHANGED <<accepted, open, results, abandoned, pending>>
    /\ caller' = Notified \/ (caller' = caller /\ events' = events /\ (ended' <=> ended))
    /\ ended => ended'
    /\ ended' <=> pc' = "done"

LEMMA NotifiedIs ==
    ASSUME DeliveryInv
    PROVE  /\ Notified.pc # "asleep" /\ Notified.target = caller.target
           /\ Notified \in [pc : {"idle", "submitting", "try", "test", "asleep", "gone"},
                            target : Ids \cup {AnEvent}]
BY DEF Notified, DeliveryInv

LEMMA CoordinatorDelivers ==
    ASSUME DeliveryInv, CoordinatorOnly PROVE DeliveryInv'
<1>1. CASE caller' = Notified
  <2>1. /\ caller'.pc # "asleep" /\ caller'.target = caller.target
        /\ caller' \in [pc : {"idle", "submitting", "try", "test", "asleep", "gone"},
                        target : Ids \cup {AnEvent}]
    BY <1>1, NotifiedIs
  <2> QED
    BY <2>1 DEF DeliveryInv, CoordinatorOnly
<1>2. CASE caller' = caller /\ events' = events /\ (ended' <=> ended)
  BY <1>2 DEF DeliveryInv, CoordinatorOnly, IsThere
<1> QED
  BY <1>1, <1>2 DEF CoordinatorOnly

LEMMA CompleteDelivers ==
    ASSUME DeliveryInv, NEW id \in Ids, Complete(id), pc # "done", pc' = pc
    PROVE  DeliveryInv'
<1>1. /\ caller'.pc # "asleep" /\ caller'.target = caller.target
      /\ caller' \in [pc : {"idle", "submitting", "try", "test", "asleep", "gone"},
                      target : Ids \cup {AnEvent}]
  BY NotifiedIs DEF Complete
<1>2. ~ended
  BY DEF DeliveryInv
<1>3. CASE id \in abandoned
  BY <1>1, <1>2, <1>3 DEF DeliveryInv, Complete, Settled
<1>4. CASE id \notin abandoned
  <2>1. pending[id] = "held"
    BY <1>2, <1>4 DEF DeliveryInv, Complete
  <2> QED
    BY <1>1, <1>2, <1>4, <2>1 DEF DeliveryInv, Complete, Settled
<1> QED
  BY <1>3, <1>4

LEMMA AcceptDelivers ==
    ASSUME DeliveryInv, NEW internal \in BOOLEAN, Accept(internal), pc # "done", pc' = pc
    PROVE  DeliveryInv'
<1>. DEFINE id == accepted + 1
<1>0. accepted \in Nat /\ id \in Ids /\ id \in Nat /\ id > accepted /\ ~ended
  BY DEF DeliveryInv, Accept
<1>1. pending[id] = "none" /\ id \notin open /\ id \notin results /\ id \notin abandoned
  BY <1>0 DEF DeliveryInv
<1>2. /\ accepted' = id /\ open' = open \cup {id} /\ results' = results
      /\ events' = events /\ ended' = ended
  BY DEF Accept
<1>. HIDE DEF id
<1>3. open' \subseteq 1 .. accepted' /\ \A n \in Ids : n > accepted' => n > accepted /\ n # id
  <2>1. open' \subseteq 1 .. accepted'
    <3>1. open \subseteq 1 .. accepted
      BY DEF DeliveryInv
    <3>2. 1 .. accepted \subseteq 1 .. accepted + 1 /\ accepted + 1 \in 1 .. accepted + 1
      BY <1>0
    <3> QED
      BY <1>2, <3>1, <3>2 DEF id
  <2>2. \A n \in Ids : n \in Nat \ {0}
    BY IdsAreNumbers
  <2>3. accepted' = accepted + 1
    BY <1>2 DEF id
  <2> QED
    BY <1>0, <2>1, <2>2, <2>3 DEF id
<1>4. CASE internal
  <2>1. abandoned' = abandoned \cup {id} /\ pending' = pending /\ caller' = caller
    BY <1>4 DEF Accept, id
  <2> QED
    BY <1>0, <1>1, <1>2, <1>3, <2>1 DEF DeliveryInv, IsThere
<1>5. CASE ~internal
  <2>1. /\ pending' = [pending EXCEPT ![id] = "held"] /\ caller' = At("idle", AnEvent)
        /\ abandoned' = abandoned
    BY <1>5 DEF Accept, id
  <2>2. /\ caller'.pc # "asleep" /\ caller'.target = AnEvent
        /\ caller' \in [pc : {"idle", "submitting", "try", "test", "asleep", "gone"},
                        target : Ids \cup {AnEvent}]
    BY <2>1 DEF At
  <2>3. /\ pending' \in [Ids -> PendingStates] /\ pending'[id] = "held"
        /\ \A n \in Ids : n # id => pending'[n] = pending[n]
    BY <1>0, <2>1 DEF DeliveryInv, PendingStates
  <2> QED
    BY <1>0, <1>1, <1>2, <1>3, <2>1, <2>2, <2>3 DEF DeliveryInv
<1> QED
  BY <1>4, <1>5

\* The calls of the owner of the session.
LEMMA OwnerDelivers ==
    ASSUME DeliveryInv, DeliveryStep, pc' = pc PROVE DeliveryInv'
<1>0. AnEvent \notin Ids /\ AnEvent \notin results
  BY IdsAreNumbers DEF AnEvent, DeliveryInv
<1>1. CASE Submit
  BY <1>1 DEF Submit, DeliveryInv, CallerOnly, At, IsThere
<1>2. CASE Try
  <2>. DEFINE target == caller.target
              takes == IsThere(target)
  <2>1. /\ caller' = IF takes \/ ended THEN At("idle", AnEvent) ELSE At("test", target)
        /\ pending' = IF target # AnEvent /\ (takes \/ ended)
                      THEN [pending EXCEPT ![target] = "consumed"] ELSE pending
        /\ results' = results \ {target}
        /\ UNCHANGED <<accepted, open, abandoned, ended>>
    BY <1>2 DEF Try
  <2>2. target \in Ids \cup {AnEvent}
    BY DEF DeliveryInv
  <2>3. /\ caller'.pc # "asleep" /\ caller'.target \in {AnEvent, target}
        /\ (takes \/ ended \/ target = AnEvent => caller'.target = AnEvent)
        /\ caller' \in [pc : {"idle", "submitting", "try", "test", "asleep", "gone"},
                        target : Ids \cup {AnEvent}]
    BY <2>1, <2>2 DEF At
  <2>4. CASE target = AnEvent
    <3>1. pending' = pending /\ results' = results
      BY <1>0, <2>1, <2>4
    <3> QED
      BY <2>1, <2>3, <3>1 DEF DeliveryInv
  <2>5. CASE target # AnEvent /\ (takes \/ ended)
    <3>1. target \in Ids /\ (takes => target \in results)
      BY <2>2, <2>5 DEF IsThere
    <3>2. /\ pending' \in [Ids -> PendingStates] /\ pending'[target] = "consumed"
          /\ \A n \in Ids : n # target => pending'[n] = pending[n]
      BY <2>1, <2>5, <3>1 DEF DeliveryInv, PendingStates
    <3>3. pending[target] = "held" /\ caller'.target = AnEvent
      BY <2>1, <2>5 DEF DeliveryInv, At
    <3>4. results' \subseteq Ids /\ results' \cap open = {} /\ \A id \in results' : pending'[id] = "held"
      BY <2>1, <3>2 DEF DeliveryInv
    <3>5. CASE ended
      BY <2>1, <2>3, <3>1, <3>2, <3>3, <3>4, <3>5 DEF DeliveryInv
    <3>6. CASE ~ended
      <4>1. target \in results /\ target \notin open /\ pending[target] = "held"
        BY <2>5, <3>1, <3>6 DEF DeliveryInv
      <4> QED
        BY <2>1, <2>3, <3>1, <3>2, <3>3, <3>4, <3>6, <4>1 DEF DeliveryInv
    <3> QED
      BY <3>5, <3>6
  <2>6. CASE target # AnEvent /\ ~(takes \/ ended)
    <3>1. target \notin results /\ pending' = pending /\ results' = results
      BY <2>1, <2>6 DEF IsThere
    <3> QED
      BY <2>1, <2>3, <3>1 DEF DeliveryInv
  <2> QED
    BY <2>4, <2>5, <2>6
<1>3. CASE Test
  <2>1. /\ caller' \in [pc : {"idle", "submitting", "try", "test", "asleep", "gone"},
                        target : Ids \cup {AnEvent}]
        /\ caller'.target = caller.target
        /\ caller'.pc = "asleep" => MaySleep(caller.target)
    BY <1>3 DEF Test, DeliveryInv
  <2> QED
    BY <1>3, <2>1 DEF Test, DeliveryInv, CallerOnly, IsThere, MaySleep
<1>4. CASE WakeSpuriously
  <2>1. /\ caller' \in [pc : {"idle", "submitting", "try", "test", "asleep", "gone"},
                        target : Ids \cup {AnEvent}]
        /\ caller'.pc # "asleep"
    BY <1>4 DEF WakeSpuriously, DeliveryInv
  <2> QED
    BY <1>4, <2>1 DEF WakeSpuriously, DeliveryInv, CallerOnly
<1>5. ASSUME NEW target \in Ids \cup {AnEvent}, Receive(target) PROVE DeliveryInv'
  BY <1>5 DEF Receive, DeliveryInv, CallerOnly, At
<1>6. ASSUME NEW id \in Ids, DropPending(id) PROVE DeliveryInv'
  <2>1. /\ pending[id] = "held" /\ caller.target # id
        /\ pending' = [pending EXCEPT ![id] = "dropped"]
        /\ results' = results \ {id}
        /\ abandoned' = IF id \notin results /\ ~ended THEN abandoned \cup {id} ELSE abandoned
        /\ UNCHANGED <<accepted, open, events, ended, caller>>
    BY <1>6 DEF DropPending
  <2>2. /\ pending' \in [Ids -> PendingStates] /\ pending'[id] = "dropped"
        /\ \A n \in Ids : n # id => pending'[n] = pending[n]
    BY <2>1 DEF DeliveryInv, PendingStates
  <2>3. results' \subseteq Ids /\ results' \cap open = {} /\ \A n \in results' : pending'[n] = "held"
    BY <2>1, <2>2 DEF DeliveryInv
  <2>4. \A n \in Ids : n > accepted => pending'[n] = "none"
    BY <2>1, <2>2 DEF DeliveryInv
  <2>5. caller'.pc = "asleep" => ~ended' /\ ~IsThere(caller.target)'
    BY <2>1 DEF DeliveryInv, IsThere
  <2>6. ASSUME ~ended
        PROVE /\ abandoned' \subseteq open
              /\ \A n \in open : n \in abandoned' <=> pending'[n] # "held"
              /\ \A n \in Ids : pending'[n] = "held" => n \in open \cup results'
    <3>1. id \in open \cup results /\ open \cap results = {} /\ open \subseteq Ids
      BY <2>1, <2>6 DEF DeliveryInv
    <3> QED
      BY <2>1, <2>2, <2>6, <3>1 DEF DeliveryInv
  <2> QED
    BY <2>1, <2>2, <2>3, <2>4, <2>5, <2>6 DEF DeliveryInv
<1> QED
  BY <1>1, <1>2, <1>3, <1>4, <1>5, <1>6 DEF DeliveryStep

-----------------------------------------------------------------------------
(* What the game writes *)

LEMMA AppendLine ==
    ASSUME NEW s, IsSequence(s), NEW e
    PROVE  /\ IsSequence(Append(s, e)) /\ Len(s) \in Nat
           /\ Len(Append(s, e)) = Len(s) + 1 /\ DOMAIN s = 1 .. Len(s)
           /\ DOMAIN Append(s, e) = 1 .. Len(s) + 1
           /\ Append(s, e)[Len(s) + 1] = e
           /\ \A i \in 1 .. Len(s) : Append(s, e)[i] = s[i]
<1>. DEFINE S == Range(s) \cup {e}
<1>1. s \in Seq(S) /\ e \in S
  BY DEF IsSequence
<1>2. /\ Append(s, e) \in Seq(S) /\ Len(Append(s, e)) = Len(s) + 1
      /\ Append(s, e)[Len(s) + 1] = e /\ Len(s) \in Nat
      /\ \A i \in 1 .. Len(s) : Append(s, e)[i] = s[i]
  BY <1>1, AppendProperties
<1> QED
  BY <1>1, <1>2, TimesAppend

LEMMA EncodeTwo ==
    ASSUME NEW event, NEW payload
    PROVE  Encode(event, payload, 2) = <<FrameLine(event, payload, 2, 1, "good"),
                                         FrameLine(event, payload, 2, 2, "good")>>
BY DEF Encode

LEMMA WholeIs ==
    ASSUME IsSequence(stderr), NEW n \in 0 .. Len(stderr), NEW event, NEW payload
    PROVE  Whole(event, payload, n) <=> Shown(event, payload, n)
<1>1. Range(Encode(event, payload, 2)) = {FrameLine(event, payload, 2, 1, "good"),
                                          FrameLine(event, payload, 2, 2, "good")}
  <2>. DEFINE a == FrameLine(event, payload, 2, 1, "good")
              b == FrameLine(event, payload, 2, 2, "good")
  <2>1. Encode(event, payload, 2) = <<a, b>>
    BY EncodeTwo
  <2>. HIDE DEF a, b
  <2>2. Range(<<a, b>>) = {a, b}
    BY DEF Range
  <2> QED
    BY <2>1, <2>2 DEF a, b
<1>2. Range(SubSeq(stderr, 1, n)) = {stderr[i] : i \in 1 .. n}
  <2>. DEFINE t == SubSeq(stderr, 1, n)
  <2>1. stderr \in Seq(Range(stderr)) /\ Len(stderr) \in Nat
    BY DEF IsSequence
  <2>2. n \in Int /\ 1 \in Int /\ 0 <= n /\ n <= Len(stderr)
    BY <2>1
  <2>3. t = [i \in 1 .. n |-> stderr[i]]
    BY <2>1, <2>2
  <2>. HIDE DEF t
  <2>4. DOMAIN t = 1 .. n /\ \A i \in 1 .. n : t[i] = stderr[i]
    BY <2>3
  <2> QED
    BY <2>4 DEF Range, t
<1> QED
  BY <1>1, <1>2 DEF Whole, Shown

LEMMA GameStarts == Init => LinesInv /\ EmitInv /\ PlaceInv
<1>. SUFFICES ASSUME Init PROVE LinesInv /\ EmitInv /\ PlaceInv
  OBVIOUS
<1>1. stderr = << >> /\ DOMAIN << >> = {}
  BY DEF Init
<1>2. LinesInv
  BY <1>1, TimesEmpty DEF LinesInv
<1>3. EmitInv
  BY DEF Init, EmitInv, Emitting
<1>4. PlaceInv
  BY DEF Init, PlaceInv, Launching, Runs
<1> QED
  BY <1>2, <1>3, <1>4

\* A line that is no frame, at the end.
LEMMA OtherLine ==
    ASSUME LinesInv, EmitInv, NEW line \in {Text, BadFrame, Torn},
           stderr' = Append(stderr, line), setting' = setting
    PROVE  /\ LinesInv'
           /\ \A thread \in Threads : emitting'[thread] = emitting[thread] => Emitting(thread)'
<1>. DEFINE n == Len(stderr)
<1>1. /\ IsSequence(stderr') /\ n \in Nat /\ Len(stderr') = n + 1 /\ DOMAIN stderr = 1 .. n
      /\ DOMAIN stderr' = 1 .. n + 1 /\ stderr'[n + 1] = line
      /\ \A i \in 1 .. n : stderr'[i] = stderr[i]
  BY AppendLine DEF LinesInv
<1>2. line.kind # "frame"
  BY DEF Text, BadFrame, Torn
<1>. HIDE DEF n
<1>3. \A i \in DOMAIN stderr' : FrameAt(i)' => i \in DOMAIN stderr /\ stderr'[i] = stderr[i]
  BY <1>1, <1>2 DEF FrameAt
<1>4. \A i \in DOMAIN stderr' : IsLine(stderr[i])'
  BY <1>1 DEF LinesInv, IsLine, IsFrame, Payloads, LayerStatus
<1>5. LinesInv'
  BY <1>1, <1>3, <1>4 DEF LinesInv, FrameAt
<1>6. ASSUME NEW thread \in Threads, emitting'[thread] = emitting[thread] PROVE Emitting(thread)'
  BY <1>3, <1>6 DEF EmitInv, Emitting, Payloads, LayerStatus, FrameAt
<1> QED
  BY <1>5, <1>6

\* What becomes of a frame on its way.
Arrivals(frame) ==
    {frame, BadFrame, [frame EXCEPT !.data = "undecodable"], [frame EXCEPT !.data = "altered"]}

LEMMA ArrivalIs ==
    ASSUME NEW event \in {Layer, Report}, NEW payload \in Payloads(event), NEW index \in {1, 2},
           NEW line \in Arrivals(FrameLine(event, payload, 2, index, "good"))
    PROVE  /\ IsLine(line)
           /\ line.kind = "frame" =>
                 line.event = event /\ line.payload = payload /\ line.index = index
<1>. DEFINE frame == FrameLine(event, payload, 2, index, "good")
<1>1. /\ frame.kind = "frame" /\ frame.event = event /\ frame.payload = payload
      /\ frame.count = 2 /\ frame.index = index /\ frame.data = "good"
      /\ frame = FrameLine(frame.event, frame.payload, 2, frame.index, frame.data)
  BY DEF FrameLine
<1>. HIDE DEF frame
<1>2. CASE line = BadFrame
  BY <1>2 DEF IsLine, BadFrame
<1>3. CASE line = frame
  BY <1>1, <1>3 DEF IsLine, IsFrame
<1>4. ASSUME NEW data \in {"undecodable", "altered"}, line = [frame EXCEPT !.data = data]
      PROVE  /\ IsLine(line) /\ line.event = event
             /\ line.payload = payload /\ line.index = index
  <2>1. line = FrameLine(event, payload, 2, index, data)
    BY <1>4 DEF frame, FrameLine
  <2>2. /\ line.kind = "frame" /\ line.event = event /\ line.payload = payload
        /\ line.count = 2 /\ line.index = index /\ line.data = data
    BY <2>1 DEF FrameLine
  <2> QED
    BY <2>1, <2>2 DEF IsLine, IsFrame
<1> QED
  BY <1>1, <1>2, <1>3, <1>4 DEF Arrivals, frame

LEMMA NewFrame ==
    ASSUME LinesInv, NEW event \in {Layer, Report}, NEW payload \in Payloads(event),
           NEW index \in {1, 2},
           NEW line \in Arrivals(FrameLine(event, payload, 2, index, "good")),
           stderr' = Append(stderr, line), setting' = setting,
           \A i \in DOMAIN stderr : FrameAt(i) /\ stderr[i].event = event =>
              stderr[i].index # index /\ stderr[i].payload = payload
    PROVE  /\ LinesInv'
           /\ \A i \in DOMAIN stderr' : FrameAt(i)' =>
                 \/ i \in DOMAIN stderr /\ FrameAt(i) /\ stderr'[i] = stderr[i]
                 \/ /\ stderr'[i].event = event /\ stderr'[i].payload = payload
                    /\ stderr'[i].index = index
<1>. DEFINE n == Len(stderr)
<1>1. /\ IsSequence(stderr') /\ n \in Nat /\ Len(stderr') = n + 1 /\ DOMAIN stderr = 1 .. n
      /\ DOMAIN stderr' = 1 .. n + 1 /\ stderr'[n + 1] = line
      /\ \A i \in 1 .. n : stderr'[i] = stderr[i]
  BY AppendLine DEF LinesInv
<1>2. /\ IsLine(line)
      /\ line.kind = "frame" => line.event = event /\ line.payload = payload /\ line.index = index
  BY ArrivalIs
<1>. HIDE DEF n
<1>3. \A i \in DOMAIN stderr' : FrameAt(i)' =>
         \/ i \in DOMAIN stderr /\ FrameAt(i) /\ stderr'[i] = stderr[i]
         \/ /\ i = n + 1 /\ stderr'[i].event = event /\ stderr'[i].payload = payload
            /\ stderr'[i].index = index
  BY <1>1, <1>2 DEF FrameAt
<1>4. \A i \in DOMAIN stderr' : IsLine(stderr[i])'
  BY <1>1, <1>2 DEF LinesInv, IsLine, IsFrame, Payloads, LayerStatus
<1>5. ASSUME NEW i \in DOMAIN stderr', NEW j \in DOMAIN stderr', FrameAt(i)', FrameAt(j)',
             stderr'[i].event = stderr'[j].event
      PROVE  /\ stderr'[i].payload = stderr'[j].payload
             /\ (stderr'[i].index = stderr'[j].index => i = j)
  BY <1>3, <1>5 DEF LinesInv
<1>6. LinesInv'
  BY <1>1, <1>4, <1>5 DEF LinesInv, FrameAt
<1> QED
  BY <1>3, <1>6

LEMMA EventsOfThreads ==
    /\ \A thread \in Threads : EventOf(thread) \in {Layer, Report}
    /\ \A thread, other \in Threads : EventOf(thread) = EventOf(other) => thread = other
BY DEF Threads, EventOf, Layer, Report

LEMMA EmittingStays ==
    ASSUME NEW thread \in Threads, Emitting(thread), emitting'[thread] = emitting[thread],
           setting' = setting,
           \A i \in DOMAIN stderr' : FrameAt(i)' /\ stderr'[i].event = EventOf(thread) =>
              i \in DOMAIN stderr /\ FrameAt(i) /\ stderr'[i] = stderr[i]
    PROVE  Emitting(thread)'
<1>. DEFINE event == EventOf(thread)
<1>1. CASE emitting[thread] = << >>
  BY <1>1 DEF Emitting
<1>2. ASSUME NEW payload \in Payloads(event),
             emitting[thread] = Encode(event, payload, 2),
             \A i \in DOMAIN stderr : FrameAt(i) => stderr[i].event # event
      PROVE  Emitting(thread)'
  <2>1. /\ payload \in Payloads(event)' /\ emitting'[thread] = Encode(event, payload, 2)
        /\ \A i \in DOMAIN stderr' : FrameAt(i)' => stderr'[i].event # event
    BY <1>2 DEF Payloads, LayerStatus
  <2> QED
    BY <2>1 DEF Emitting
<1>3. ASSUME NEW payload \in Payloads(event),
             emitting[thread] = <<FrameLine(event, payload, 2, 2, "good")>>,
             \A i \in DOMAIN stderr : FrameAt(i) /\ stderr[i].event = event =>
                stderr[i].index = 1 /\ stderr[i].payload = payload
      PROVE  Emitting(thread)'
  <2>1. /\ payload \in Payloads(event)'
        /\ emitting'[thread] = <<FrameLine(event, payload, 2, 2, "good")>>
        /\ \A i \in DOMAIN stderr' : FrameAt(i)' /\ stderr'[i].event = event =>
              stderr'[i].index = 1 /\ stderr'[i].payload = payload
    BY <1>3 DEF Payloads, LayerStatus
  <2> QED
    BY <2>1 DEF Emitting
<1> QED
  BY <1>1, <1>2, <1>3 DEF Emitting

LEMMA WriteFrameGame ==
    ASSUME LinesInv, EmitInv, NEW thread \in Threads, WriteFrame(thread)
    PROVE  /\ LinesInv' /\ EmitInv' /\ \E line : stderr' = Append(stderr, line)
<1>. DEFINE event == EventOf(thread)
            frame == Head(emitting[thread])
<1>1. /\ emitting[thread] # << >> /\ setting' = setting
      /\ emitting' = [emitting EXCEPT ![thread] = Tail(emitting[thread])]
      /\ \E line \in Arrivals(frame) : stderr' = Append(stderr, line)
  BY DEF WriteFrame, Spoilt, Arrivals
<1>2. /\ DOMAIN emitting' = Threads /\ emitting'[thread] = Tail(emitting[thread])
      /\ \A other \in Threads : other # thread => emitting'[other] = emitting[other]
  BY <1>1 DEF EmitInv
<1>3. PICK payload \in Payloads(event) :
          \/ /\ emitting[thread] = Encode(event, payload, 2)
             /\ \A i \in DOMAIN stderr : FrameAt(i) => stderr[i].event # event
          \/ /\ emitting[thread] = <<FrameLine(event, payload, 2, 2, "good")>>
             /\ \A i \in DOMAIN stderr : FrameAt(i) /\ stderr[i].event = event =>
                   stderr[i].index = 1 /\ stderr[i].payload = payload
  BY <1>1 DEF EmitInv, Emitting
<1>. DEFINE first == FrameLine(event, payload, 2, 1, "good")
            second == FrameLine(event, payload, 2, 2, "good")
<1>4. event \in {Layer, Report}
  BY EventsOfThreads
<1>5. ASSUME NEW index \in {1, 2}, frame = FrameLine(event, payload, 2, index, "good"),
             \A i \in DOMAIN stderr : FrameAt(i) /\ stderr[i].event = event =>
                stderr[i].index # index /\ stderr[i].payload = payload
      PROVE  /\ LinesInv'
             /\ \A i \in DOMAIN stderr' : FrameAt(i)' =>
                   \/ i \in DOMAIN stderr /\ FrameAt(i) /\ stderr'[i] = stderr[i]
                   \/ /\ stderr'[i].event = event /\ stderr'[i].payload = payload
                      /\ stderr'[i].index = index
  <2>1. PICK line \in Arrivals(FrameLine(event, payload, 2, index, "good")) :
               stderr' = Append(stderr, line)
    BY <1>1, <1>5
  <2>. HIDE DEF event, frame
  <2> QED
    BY <1>1, <1>4, <1>5, <2>1, NewFrame
<1>6. ASSUME NEW other \in Threads, other # thread,
             \A i \in DOMAIN stderr' : FrameAt(i)' =>
                   \/ i \in DOMAIN stderr /\ FrameAt(i) /\ stderr'[i] = stderr[i]
                   \/ stderr'[i].event = event
      PROVE  Emitting(other)'
  <2>1. EventOf(other) # event /\ emitting'[other] = emitting[other]
    BY <1>2, <1>6, EventsOfThreads
  <2>2. \A i \in DOMAIN stderr' : FrameAt(i)' /\ stderr'[i].event = EventOf(other) =>
           i \in DOMAIN stderr /\ FrameAt(i) /\ stderr'[i] = stderr[i]
    BY <1>6, <2>1
  <2>3. Emitting(other)
    BY DEF EmitInv
  <2>. HIDE DEF event
  <2> QED
    BY <1>1, <2>1, <2>2, <2>3, EmittingStays
<1>7. CASE /\ emitting[thread] = Encode(event, payload, 2)
           /\ \A i \in DOMAIN stderr : FrameAt(i) => stderr[i].event # event
  <2>1. emitting[thread] = <<first, second>>
    BY <1>7, EncodeTwo
  <2>. HIDE DEF first, second
  <2>2. frame = first /\ Tail(emitting[thread]) = <<second>>
    BY <2>1
  <2>. HIDE DEF frame
  <2>3. /\ LinesInv'
        /\ \A i \in DOMAIN stderr' : FrameAt(i)' =>
                   \/ i \in DOMAIN stderr /\ FrameAt(i) /\ stderr'[i] = stderr[i]
                   \/ /\ stderr'[i].event = event /\ stderr'[i].payload = payload
                      /\ stderr'[i].index = 1
    BY <1>5, <1>7, <2>2 DEF first
  <2>4. Emitting(thread)'
    <3>1. emitting'[thread] = <<second>>
      BY <1>2, <2>2
    <3>2. \A i \in DOMAIN stderr' : FrameAt(i)' /\ stderr'[i].event = event =>
             stderr'[i].index = 1 /\ stderr'[i].payload = payload
      BY <1>7, <2>3
    <3>3. payload \in Payloads(event)'
      BY <1>1, <1>3 DEF Payloads, LayerStatus
    <3> QED
      BY <3>1, <3>2, <3>3 DEF Emitting, second, FrameAt
  <2> QED
    BY <1>1, <1>2, <1>6, <2>3, <2>4 DEF EmitInv
<1>8. CASE /\ emitting[thread] = <<FrameLine(event, payload, 2, 2, "good")>>
           /\ \A i \in DOMAIN stderr : FrameAt(i) /\ stderr[i].event = event =>
                 stderr[i].index = 1 /\ stderr[i].payload = payload
  <2>1. emitting[thread] = <<second>>
    BY <1>8
  <2>. HIDE DEF first, second
  <2>2. frame = second /\ Tail(emitting[thread]) = << >>
    BY <2>1
  <2>. HIDE DEF frame
  <2>3. /\ LinesInv'
        /\ \A i \in DOMAIN stderr' : FrameAt(i)' =>
                   \/ i \in DOMAIN stderr /\ FrameAt(i) /\ stderr'[i] = stderr[i]
                   \/ /\ stderr'[i].event = event /\ stderr'[i].payload = payload
                      /\ stderr'[i].index = 2
    BY <1>5, <1>8, <2>2 DEF second
  <2>4. Emitting(thread)'
    BY <1>2, <2>2 DEF Emitting
  <2> QED
    BY <1>1, <1>2, <1>6, <2>3, <2>4 DEF EmitInv
<1> QED
  BY <1>3, <1>7, <1>8

\* The game is as it was, or its process is dead.
LEMMA QuietGame ==
    ASSUME LinesInv, EmitInv, UNCHANGED <<setting, stderr, emitting>>
    PROVE  LinesInv' /\ EmitInv'
<1>1. LinesInv'
  <2>1. \A i \in DOMAIN stderr : IsLine(stderr[i]) => IsLine(stderr[i])'
    BY DEF IsLine, IsFrame, Payloads, LayerStatus
  <2> QED
    BY <2>1 DEF LinesInv, FrameAt
<1>2. ASSUME NEW thread \in Threads PROVE Emitting(thread)'
  <2>1. Emitting(thread) /\ emitting'[thread] = emitting[thread]
    BY DEF EmitInv
  <2>2. \A i \in DOMAIN stderr' : FrameAt(i)' => i \in DOMAIN stderr /\ FrameAt(i) /\ stderr'[i] = stderr[i]
    BY DEF FrameAt
  <2> QED
    BY <2>1, <2>2, EmittingStays
<1> QED
  BY <1>1, <1>2 DEF EmitInv

\* stderr is as it was, or has one line more, of a game that runs.
Grows ==
    \/ stderr' = stderr
    \/ pc' = pc /\ Runs /\ "stderr" \notin closed /\ \E line : stderr' = Append(stderr, line)

LEMMA GameSteps ==
    ASSUME GameInv, GameStep PROVE GameInv' /\ Grows
<1>a. LinesInv /\ EmitInv /\ PlaceInv
  BY DEF GameInv
<1>. HIDE DEF GameInv
<1>0. /\ Runs /\ pc' = pc /\ pc \in {"loop", "end"} /\ ~Launching /\ setting' = setting
      /\ UNCHANGED <<loopVars, startVars, deliveryVars, told>>
  BY <1>a DEF GameStep, WriteFrame, SayReady, WriteText, Exit, Raise, GameOnly, loopVars, PlaceInv,
         Launching, Runs
<1>1. PlaceInv'
  BY <1>0, <1>a DEF PlaceInv, Launching
<1>2. ASSUME NEW thread \in Threads, WriteFrame(thread) PROVE LinesInv' /\ EmitInv' /\ Grows
  <2>1. "stderr" \notin closed
    BY <1>2 DEF WriteFrame
  <2> QED
    BY <1>0, <1>a, <1>2, <2>1, WriteFrameGame DEF Grows
<1>3. ASSUME SayReady PROVE LinesInv' /\ EmitInv' /\ Grows
  <2>1. UNCHANGED <<setting, stderr, emitting>>
    BY <1>3 DEF SayReady
  <2>2. LinesInv' /\ EmitInv'
    BY <2>1, <1>a, QuietGame
  <2> QED
    BY <2>1, <2>2 DEF Grows
<1>4. ASSUME WriteText PROVE LinesInv' /\ EmitInv' /\ Grows
  <2>1. /\ stderr' = Append(stderr, Text) /\ "stderr" \notin closed
        /\ setting' = setting /\ emitting' = emitting
    BY <1>4 DEF WriteText
  <2>2. LinesInv' /\ \A thread \in Threads : Emitting(thread)'
    BY <2>1, <1>a, OtherLine
  <2>3. EmitInv'
    BY <2>1, <2>2, <1>a DEF EmitInv
  <2> QED
    BY <1>0, <2>1, <2>2, <2>3 DEF Grows
<1>5. ASSUME Exit PROVE LinesInv' /\ EmitInv' /\ Grows
  <2>1. setting' = setting /\ emitting' = emitting
    BY <1>5 DEF Exit
  <2>2. CASE stderr' = stderr
    <3>1. LinesInv' /\ EmitInv'
      BY <2>1, <2>2, <1>a, QuietGame
    <3> QED
      BY <2>2, <3>1 DEF Grows
  <2>3. CASE stderr' = Append(stderr, Torn) /\ "stderr" \notin closed
    <3>1. LinesInv' /\ \A thread \in Threads : Emitting(thread)'
      BY <2>1, <2>3, <1>a, OtherLine
    <3>2. EmitInv'
      BY <2>1, <3>1, <1>a DEF EmitInv
    <3> QED
      BY <1>0, <2>3, <3>1, <3>2 DEF Grows
  <2> QED
    BY <1>5, <2>2, <2>3 DEF Exit
<1>6. ASSUME NEW payload \in setting.reports, Raise(payload) PROVE LinesInv' /\ EmitInv' /\ Grows
  <2>1. /\ emitting' = [emitting EXCEPT !["other"] = Encode(Report, payload, 2)]
        /\ stderr' = stderr /\ setting' = setting /\ ~HasReported
    BY <1>6 DEF Raise
  <2>2. payload \in {"panic", "tracing", "processExit"}
    BY <1>a, SettingsAssumption DEF PlaceInv
  <2>3. LinesInv'
    <3>1. \A i \in DOMAIN stderr : IsLine(stderr[i]) => IsLine(stderr[i])'
      BY <2>1 DEF IsLine, IsFrame, Payloads, LayerStatus
    <3> QED
      BY <1>a, <2>1, <3>1 DEF LinesInv, FrameAt
  <2>4. /\ DOMAIN emitting' = Threads /\ emitting'["other"] = Encode(Report, payload, 2)
        /\ emitting'["main"] = emitting["main"]
    BY <1>a, <2>1 DEF EmitInv, Threads
  <2>5. Emitting("main")'
    <3>1. Emitting("main")
      BY <1>a DEF EmitInv, Threads
    <3>2. \A i \in DOMAIN stderr' : FrameAt(i)' =>
             i \in DOMAIN stderr /\ FrameAt(i) /\ stderr'[i] = stderr[i]
      BY <2>1 DEF FrameAt
    <3> QED
      BY <2>1, <2>4, <3>1, <3>2, EmittingStays DEF Threads
  <2>6. Emitting("other")'
    <3>1. EventOf("other") = Report
      BY DEF EventOf
    <3>2. \A i \in DOMAIN stderr' : FrameAt(i)' => stderr'[i].event # Report
      BY <2>1 DEF FrameAt, HasReported
    <3>3. payload \in Payloads(Report)'
      BY <2>2 DEF Payloads, Layer, Report
    <3> QED
      BY <2>4, <3>1, <3>2, <3>3 DEF Emitting
  <2> QED
    BY <2>1, <2>3, <2>4, <2>5, <2>6 DEF EmitInv, Threads, Grows
<1> QED
  BY <1>1, <1>2, <1>3, <1>4, <1>5, <1>6 DEF GameStep, GameInv

LEMMA KilledIs == Killed # "running"
BY DEF Killed, Runs

LEMMA LoopGame ==
    ASSUME GameInv, LoopStep PROVE GameInv' /\ Grows
<1>. USE DEF GameInv
<1>1. CASE LaunchFails
  <2>1. /\ Launching /\ pc' = "done" /\ UNCHANGED <<setting, game, stderr, emitting>>
    BY <1>1 DEF LaunchFails, GivesUp, LaunchOnly, gameVars, Launching
  <2> QED
    BY <2>1, QuietGame DEF PlaceInv, Launching, Grows, Runs
<1>2. CASE ResolveMetadata \/ ResolveOptional
  <2>1. /\ Launching /\ Launching' /\ UNCHANGED gameVars /\ UNCHANGED <<observation, said>>
    BY <1>2 DEF ResolveMetadata, ResolveOptional, LaunchOnly, Launching
  <2>2. UNCHANGED <<setting, stderr, emitting, game, stdout>>
    BY <2>1 DEF gameVars
  <2> QED
    BY <2>1, <2>2, QuietGame DEF PlaceInv, Launching, Grows, Runs
<1>3. CASE Spawn
  <2>1. /\ Launching /\ pc' = "loop" /\ stderr' = stderr /\ setting' = setting
        /\ emitting' = [emitting EXCEPT !["main"] = Encode(Layer, LayerStatus, 2)]
    BY <1>3 DEF Spawn, Launching, LayerStatus
  <2>2. stderr = << >>
    BY <2>1 DEF PlaceInv
  <2>3. LinesInv'
    BY <2>1, <2>2, TimesEmpty DEF LinesInv
  <2>4. /\ DOMAIN emitting' = Threads /\ emitting'["main"] = Encode(Layer, LayerStatus, 2)
        /\ emitting'["other"] = emitting["other"]
    BY <2>1 DEF EmitInv, Threads
  <2>5. Emitting("other")'
    <3>1. Emitting("other")
      BY DEF EmitInv, Threads
    <3> QED
      BY <2>1, <2>2, <2>4, <3>1, EmittingStays DEF Threads
  <2>6. Emitting("main")'
    <3>1. EventOf("main") = Layer
      BY DEF EventOf
    <3>2. LayerStatus \in Payloads(Layer)'
      BY <2>1 DEF Payloads, LayerStatus
    <3> QED
      BY <2>1, <2>2, <2>4, <3>1, <3>2 DEF Emitting
  <2> QED
    BY <2>1, <2>3, <2>4, <2>5, <2>6 DEF EmitInv, Threads, Grows, PlaceInv, Launching
<1>4. ASSUME NEW now, pc = "loop", Becomes(now), stderr' = stderr PROVE GameInv' /\ Grows
  <2>1. /\ UNCHANGED <<setting, emitting>> /\ pc' \in {"loop", "done"}
        /\ pc' = "done" => game' # "running"
    BY <1>4, KilledIs DEF Becomes
  <2> QED
    BY <1>4, <2>1, QuietGame DEF PlaceInv, Launching, Grows, Runs
<1>5. CASE TakeLine \/ TakeDiagnostic \/ TakeClosedStdout \/ TakeClosedStderr
  <2>1. pc = "loop" /\ stderr' = stderr /\ \E now : Becomes(now)
    BY <1>5, Zenon DEF TakeLine, TakeDiagnostic, TakeClosedStdout, TakeClosedStderr, Closes, Loops
  <2> QED
    BY <1>4, <2>1
<1>6. CASE DeadlinePasses \/ Terminate
  <2>1. pc = "loop" /\ pc' = pc /\ UNCHANGED <<setting, stderr, emitting>>
    BY <1>6 DEF DeadlinePasses, Terminate, Loops, gameVars
  <2> QED
    BY <2>1, QuietGame DEF PlaceInv, Launching, Grows
<1>7. CASE Exited \/ Cancelled
  <2>1. pc' = "end" /\ UNCHANGED <<setting, stderr, emitting>>
    BY <1>7 DEF Exited, Cancelled, gameVars
  <2> QED
    BY <2>1, QuietGame DEF PlaceInv, Launching, Grows
<1>8. CASE EndSession
  <2>1. pc' = "done" /\ game' = Killed /\ UNCHANGED <<setting, stderr, emitting>>
    BY <1>8 DEF EndSession
  <2> QED
    BY <2>1, QuietGame, KilledIs DEF PlaceInv, Launching, Grows, Runs
<1> QED
  BY <1>1, <1>2, <1>3, <1>5, <1>6, <1>7, <1>8 DEF LoopStep

-----------------------------------------------------------------------------
(* What the observer has seen *)

LEMMA ObserverStarts == Init => ObserverInv
<1>. SUFFICES ASSUME Init PROVE ObserverInv
  OBVIOUS
<1>1. /\ stderr = << >> /\ read = 0 /\ observer = NewObserver /\ closed = {}
      /\ Len(<< >>) = 0
  BY EmptySeq DEF Init
<1>2. /\ DOMAIN observer = ObserverFields /\ observer.groups = {} /\ observer.panicSeen = FALSE
  BY <1>1 DEF NewObserver, ObserverFields
<1>3. ~PanicShown
  BY <1>1 DEF PanicShown, Shown
<1>4. read \in 0 .. Len(stderr) /\ 1 .. read = {} /\ "stderr" \notin closed
  BY <1>1
<1> QED
  BY <1>2, <1>3, <1>4 DEF ObserverInv, ObserverFields

LEMMA GrowsKeeps ==
    ASSUME LinesInv, Grows
    PROVE  /\ Len(stderr) \in Nat /\ Len(stderr') \in Nat /\ Len(stderr) <= Len(stderr')
           /\ \A i \in 1 .. Len(stderr) : stderr'[i] = stderr[i]
           /\ "stderr" \in closed => stderr' = stderr
<1>1. Len(stderr) \in Nat
  BY DEF LinesInv, IsSequence
<1>2. CASE stderr' = stderr
  BY <1>1, <1>2
<1>3. ASSUME NEW line, stderr' = Append(stderr, line), "stderr" \notin closed
      PROVE  /\ Len(stderr') = Len(stderr) + 1
             /\ \A i \in 1 .. Len(stderr) : stderr'[i] = stderr[i]
  BY <1>3, AppendLine DEF LinesInv
<1>4. CASE "stderr" \notin closed /\ \E line : stderr' = Append(stderr, line)
  BY <1>1, <1>3, <1>4
<1> QED
  BY <1>2, <1>4 DEF Grows

\* What was read stays what it is.
LEMMA ShownStays ==
    ASSUME LinesInv, Grows, ObserverInv, read' = read, NEW event, NEW payload
    PROVE  Shown(event, payload, read)' <=> Shown(event, payload, read)
<1>1. read \in Nat /\ \A i \in 1 .. read : stderr'[i] = stderr[i]
  BY GrowsKeeps DEF ObserverInv
<1> QED
  BY <1>1 DEF Shown

LEMMA ObserverStays ==
    ASSUME LinesInv, ObserverInv, Grows, UNCHANGED <<setting, read, observer>>,
           "stderr" \in closed' <=> "stderr" \in closed, pc = "done" => pc' = "done"
    PROVE  ObserverInv'
<1>1. /\ Len(stderr) \in Nat /\ Len(stderr') \in Nat /\ Len(stderr) <= Len(stderr')
      /\ \A i \in 1 .. read : stderr'[i] = stderr[i]
      /\ "stderr" \in closed => stderr' = stderr
      /\ read \in 0 .. Len(stderr) /\ read \in Nat
  BY GrowsKeeps DEF ObserverInv
<1>2. PanicShown' <=> PanicShown
  BY ShownStays DEF PanicShown
<1>3. ASSUME NEW f \in observer.groups
      PROVE  /\ IsFrame(f)' /\ f.data # "undecodable"
             /\ \E i \in 1 .. read : stderr'[i] = f
  <2>1. IsFrame(f) /\ f.data # "undecodable" /\ \E i \in 1 .. read : stderr[i] = f
    BY DEF ObserverInv
  <2>2. IsFrame(f)'
    BY <2>1 DEF IsFrame, Payloads, LayerStatus
  <2> QED
    BY <1>1, <2>1, <2>2
<1>4. ASSUME "stderr" \notin closed, pc # "done", NEW i \in 1 .. read,
             FrameAt(i)', stderr'[i].data = "good",
             \A j \in 1 .. read : FrameAt(j)' /\ stderr'[j].event = stderr'[i].event => j = i
      PROVE  stderr'[i] \in observer.groups
  <2>1. stderr'[i] = stderr[i] /\ FrameAt(i)
    BY <1>1, <1>4 DEF FrameAt
  <2>2. \A j \in 1 .. read : FrameAt(j) /\ stderr[j].event = stderr[i].event => j = i
    BY <1>1, <1>4 DEF FrameAt
  <2> QED
    BY <1>4, <2>1, <2>2 DEF ObserverInv
<1>5. /\ read' = read /\ observer' = observer
      /\ "stderr" \in closed' <=> "stderr" \in closed
      /\ pc' # "done" => pc # "done"
  OBVIOUS
<1>6. read' \in 0 .. Len(stderr') /\ ("stderr" \in closed' => read' = Len(stderr'))
  BY <1>1, <1>5 DEF ObserverInv
<1>7. "stderr" \notin closed' /\ pc' # "done" =>
          \A i \in 1 .. read' :
             /\ FrameAt(i)' /\ stderr'[i].data = "good"
             /\ \A j \in 1 .. read' : FrameAt(j)' /\ stderr'[j].event = stderr'[i].event => j = i
             => stderr'[i] \in observer'.groups
  BY <1>4, <1>5
<1>8. \A f \in observer'.groups : /\ IsFrame(f)' /\ f.data # "undecodable"
                                  /\ \E i \in 1 .. read' : stderr'[i] = f
  BY <1>3, <1>5
<1>9. /\ DOMAIN observer' = {"pieces", "groups", "panicSeen", "human", "torn"}
      /\ \A f, g \in observer'.groups : f.event = g.event => f = g
      /\ observer'.panicSeen \in BOOLEAN
      /\ observer'.panicSeen <=> PanicShown'
  BY <1>2, <1>5 DEF ObserverInv
<1> QED
  BY <1>6, <1>7, <1>8, <1>9 DEF ObserverInv, FrameAt

\* What one line more shows.
LEMMA ShownNext ==
    ASSUME NEW n \in Nat, NEW event, NEW payload,
           stderr[n + 1].kind = "frame" /\ stderr[n + 1].data = "good" => stderr[n + 1].event # event
    PROVE  Shown(event, payload, n + 1) <=> Shown(event, payload, n)
<1>1. \A index \in {1, 2} : stderr[n + 1] # FrameLine(event, payload, 2, index, "good")
  BY DEF FrameLine
<1>2. \A i : i \in 1 .. n + 1 <=> i \in 1 .. n \/ i = n + 1
  OBVIOUS
<1> QED
  BY <1>1, <1>2 DEF Shown

\* A whole marker has no third frame.
LEMMA NoThird ==
    ASSUME LinesInv, NEW n \in Nat, n + 1 <= Len(stderr), Len(stderr) \in Nat, NEW payload,
           IsFrame(stderr[n + 1]), Shown(stderr[n + 1].event, payload, n)
    PROVE  FALSE
<1>. DEFINE f == stderr[n + 1]
<1>1. DOMAIN stderr = 1 .. Len(stderr) /\ n + 1 \in DOMAIN stderr
  BY DEF LinesInv, IsSequence
<1>2. f.index \in {1, 2} /\ FrameAt(n + 1)
  BY DEF IsFrame, FrameAt
<1>3. PICK i \in 1 .. n : stderr[i] = FrameLine(f.event, payload, 2, f.index, "good")
  BY <1>2 DEF Shown
<1>4. /\ FrameAt(i) /\ stderr[i].event = stderr[n + 1].event
      /\ stderr[i].index = stderr[n + 1].index /\ i \in DOMAIN stderr
  BY <1>1, <1>3 DEF FrameLine, FrameAt
<1>5. i = n + 1
  BY <1>1, <1>2, <1>4 DEF LinesInv
<1> QED
  BY <1>5

\* The two frames of a marker, the second of them read last.
LEMMA TwoFrames ==
    ASSUME LinesInv, NEW n \in Nat, n + 1 <= Len(stderr), Len(stderr) \in Nat,
           IsFrame(stderr[n + 1]), NEW j \in 1 .. n, IsFrame(stderr[j]),
           stderr[j].event = stderr[n + 1].event
    PROVE  /\ stderr[j].payload = stderr[n + 1].payload
           /\ stderr[j].index # stderr[n + 1].index
           /\ \A payload : Shown(stderr[j].event, payload, n + 1) <=>
                 /\ stderr[j].data = "good" /\ stderr[n + 1].data = "good"
                 /\ payload = stderr[j].payload
<1>. DEFINE f == stderr[n + 1]
            g == stderr[j]
<1>1. /\ DOMAIN stderr = 1 .. Len(stderr) /\ n + 1 \in DOMAIN stderr /\ j \in DOMAIN stderr
      /\ FrameAt(n + 1) /\ FrameAt(j) /\ j # n + 1
  BY DEF LinesInv, IsSequence, FrameAt, IsFrame
<1>2. g.payload = f.payload /\ g.index # f.index
  BY <1>1 DEF LinesInv
<1>3. \A x : IsFrame(x) => x = FrameLine(x.event, x.payload, 2, x.index, x.data)
  BY DEF IsFrame
<1>4. ASSUME NEW payload, Shown(g.event, payload, n + 1)
      PROVE  g.data = "good" /\ f.data = "good" /\ payload = g.payload
  <2>1. ASSUME NEW k \in {j, n + 1}
        PROVE  stderr[k].data = "good" /\ stderr[k].payload = payload
    <3>1. stderr[k].index \in {1, 2} /\ stderr[k].event = g.event /\ FrameAt(k)
      BY <1>1, <2>1 DEF IsFrame
    <3>2. PICK i \in 1 .. n + 1 : stderr[i] = FrameLine(g.event, payload, 2, stderr[k].index, "good")
      BY <1>4, <3>1 DEF Shown
    <3>3. /\ FrameAt(i) /\ stderr[i].event = stderr[k].event /\ stderr[i].index = stderr[k].index
          /\ stderr[i].payload = payload /\ stderr[i].data = "good"
      BY <3>1, <3>2 DEF FrameLine, FrameAt
    <3>4. i \in DOMAIN stderr /\ k \in DOMAIN stderr
      BY <1>1
    <3>5. i = k
      BY <3>1, <3>3, <3>4 DEF LinesInv
    <3> QED
      BY <3>3, <3>5
  <2>2. stderr[j].data = "good" /\ stderr[j].payload = payload
    BY <2>1
  <2>3. stderr[n + 1].data = "good"
    BY <2>1
  <2> QED
    BY <2>2, <2>3
<1>5. ASSUME g.data = "good", f.data = "good" PROVE Shown(g.event, g.payload, n + 1)
  <2>1. /\ g = FrameLine(g.event, g.payload, 2, g.index, "good")
        /\ f = FrameLine(g.event, g.payload, 2, f.index, "good")
    BY <1>2, <1>3, <1>5
  <2>2. {g.index, f.index} = {1, 2}
    BY <1>2 DEF IsFrame
  <2>3. \A index \in {1, 2} : index = g.index \/ index = f.index
    BY <2>2
  <2>4. j \in 1 .. n + 1 /\ n + 1 \in 1 .. n + 1
    OBVIOUS
  <2> QED
    BY <2>1, <2>3, <2>4 DEF Shown
<1> QED
  BY <1>2, <1>4, <1>5

\* What an observer knows after n lines, with stderr open.
SeenBy(o, n) ==
    /\ Groups(o)
    /\ \A f \in o.groups : f.data # "undecodable" /\ \E i \in 1 .. n : stderr[i] = f
    /\ \A i \in 1 .. n :
          /\ FrameAt(i) /\ stderr[i].data = "good"
          /\ \A j \in 1 .. n : FrameAt(j) /\ stderr[j].event = stderr[i].event => j = i
          => stderr[i] \in o.groups
    /\ o.panicSeen \in BOOLEAN
    /\ o.panicSeen <=> Shown(Report, "panic", n)

\* What the next line tells, and only once what it completes.
News(o, q, n, notices) ==
    \/ notices \in {<< >>, <<Invalid>>} /\ q.panicSeen = o.panicSeen
    \/ \E payload \in {"layerOn", "layerOff"} :
          /\ notices = << [kind |-> payload] >> /\ Shown(Layer, payload, n)
          /\ q.panicSeen = o.panicSeen
    \/ notices = << [kind |-> "tracing"] >> /\ q.panicSeen = o.panicSeen
    \/ notices = << [kind |-> "panic"] >> /\ ~o.panicSeen /\ q.panicSeen

LEMMA PlainSeen ==
    ASSUME NEW n \in Nat, stderr[n + 1] \in {Text, BadFrame, Torn},
           NEW o, SeenBy(o, n), NEW q, Keeps(o, q)
    PROVE  SeenBy(q, n + 1)
<1>1. ~FrameAt(n + 1)
  BY DEF FrameAt, Text, BadFrame, Torn
<1>2. \A i : i \in 1 .. n + 1 <=> i \in 1 .. n \/ i = n + 1
  OBVIOUS
<1>3. Shown(Report, "panic", n + 1) <=> Shown(Report, "panic", n)
  BY <1>1, ShownNext DEF FrameAt
<1>4. /\ DOMAIN q = ObserverFields /\ q.groups = o.groups /\ q.panicSeen = o.panicSeen
  BY DEF Keeps
<1>5. Groups(q)
  BY <1>4 DEF Groups, SeenBy
<1>6. \A f \in q.groups : f.data # "undecodable" /\ \E i \in 1 .. n + 1 : stderr[i] = f
  BY <1>2, <1>4 DEF SeenBy
<1>7. ASSUME NEW i \in 1 .. n + 1, FrameAt(i), stderr[i].data = "good",
             \A j \in 1 .. n + 1 : FrameAt(j) /\ stderr[j].event = stderr[i].event => j = i
      PROVE  stderr[i] \in q.groups
  <2>1. i \in 1 .. n
    BY <1>1, <1>2, <1>7
  <2>2. \A j \in 1 .. n : FrameAt(j) /\ stderr[j].event = stderr[i].event => j = i
    BY <1>2, <1>7
  <2> QED
    BY <1>4, <1>7, <2>1, <2>2 DEF SeenBy
<1> QED
  BY <1>3, <1>4, <1>5, <1>6, <1>7 DEF SeenBy

LEMMA ClashSeen ==
    ASSUME LinesInv, NEW n \in Nat, n + 1 <= Len(stderr), Len(stderr) \in Nat,
           IsFrame(stderr[n + 1]), NEW o, SeenBy(o, n), NEW q, DOMAIN q = ObserverFields,
           NEW notices, Clashes(o, stderr[n + 1], q, notices)
    PROVE  SeenBy(q, n + 1) /\ News(o, q, n + 1, notices)
<1>. DEFINE f == stderr[n + 1]
<1>0. \A i : i \in 1 .. n + 1 <=> i \in 1 .. n \/ i = n + 1
  OBVIOUS
<1>1. DOMAIN stderr = 1 .. Len(stderr) /\ n + 1 \in DOMAIN stderr /\ FrameAt(n + 1)
  BY DEF LinesInv, IsSequence, FrameAt, IsFrame
<1>2. f.data = "undecodable"
  <2>1. ASSUME NEW g \in o.groups, g.event = f.event, g.index = f.index PROVE FALSE
    <3>1. PICK i \in 1 .. n : stderr[i] = g
      BY DEF SeenBy
    <3>2. i \in DOMAIN stderr /\ FrameAt(i)
      BY <1>1, <3>1 DEF SeenBy, Groups, IsFrame, FrameAt
    <3>3. i = n + 1
      BY <1>1, <2>1, <3>1, <3>2 DEF LinesInv
    <3> QED
      BY <3>3
  <2> QED
    BY <2>1 DEF Clashes
<1>3. Shown(Report, "panic", n + 1) <=> Shown(Report, "panic", n)
  BY <1>2, ShownNext
<1>4. /\ q.groups \subseteq o.groups /\ q.panicSeen = o.panicSeen /\ notices = <<Invalid>>
      /\ \A g \in o.groups : g.event # f.event => g \in q.groups
  BY DEF Clashes, GroupOf
<1>5. Groups(q)
  BY <1>4 DEF Groups, SeenBy
<1>6. \A g \in q.groups : g.data # "undecodable" /\ \E i \in 1 .. n + 1 : stderr[i] = g
  BY <1>0, <1>4 DEF SeenBy
<1>7. ASSUME NEW i \in 1 .. n + 1, FrameAt(i), stderr[i].data = "good",
             \A j \in 1 .. n + 1 : FrameAt(j) /\ stderr[j].event = stderr[i].event => j = i
      PROVE  stderr[i] \in q.groups
  <2>1. i \in 1 .. n /\ f.event # stderr[i].event
    BY <1>0, <1>1, <1>2, <1>7
  <2>2. \A j \in 1 .. n : FrameAt(j) /\ stderr[j].event = stderr[i].event => j = i
    BY <1>0, <1>7
  <2>3. stderr[i] \in o.groups
    BY <1>7, <2>1, <2>2 DEF SeenBy
  <2> QED
    BY <1>4, <1>7, <2>1, <2>3
<1>8. SeenBy(q, n + 1)
  BY <1>3, <1>4, <1>5, <1>6, <1>7 DEF SeenBy
<1> QED
  BY <1>4, <1>8 DEF News

LEMMA HeldSeen ==
    ASSUME LinesInv, NEW n \in Nat, n + 1 <= Len(stderr), Len(stderr) \in Nat,
           IsFrame(stderr[n + 1]), NEW o, SeenBy(o, n), NEW q, DOMAIN q = ObserverFields,
           NEW notices, IsHeld(o, stderr[n + 1], q, notices)
    PROVE  SeenBy(q, n + 1) /\ News(o, q, n + 1, notices)
<1>. DEFINE f == stderr[n + 1]
<1>0. \A i : i \in 1 .. n + 1 <=> i \in 1 .. n \/ i = n + 1
  OBVIOUS
<1>1. DOMAIN stderr = 1 .. Len(stderr) /\ n + 1 \in DOMAIN stderr /\ FrameAt(n + 1)
  BY DEF LinesInv, IsSequence, FrameAt, IsFrame
<1>2. /\ q.groups = o.groups \cup {f} /\ q.panicSeen = o.panicSeen /\ notices = << >>
      /\ f.data # "undecodable" /\ \A g \in o.groups : g.event # f.event
  BY DEF IsHeld, GroupOf
<1>3. Groups(q)
  BY <1>2 DEF Groups, SeenBy
<1>4. \A g \in q.groups : g.data # "undecodable" /\ \E i \in 1 .. n + 1 : stderr[i] = g
  BY <1>0, <1>2 DEF SeenBy
<1>5. ASSUME NEW i \in 1 .. n + 1, FrameAt(i), stderr[i].data = "good",
             \A j \in 1 .. n + 1 : FrameAt(j) /\ stderr[j].event = stderr[i].event => j = i
      PROVE  stderr[i] \in q.groups
  <2>1. CASE i = n + 1
    BY <1>2, <2>1
  <2>2. CASE i \in 1 .. n
    <3>1. \A j \in 1 .. n : FrameAt(j) /\ stderr[j].event = stderr[i].event => j = i
      BY <1>0, <1>5
    <3> QED
      BY <1>2, <1>5, <2>2, <3>1 DEF SeenBy
  <2> QED
    BY <1>0, <2>1, <2>2
<1>6. Shown(Report, "panic", n + 1) <=> Shown(Report, "panic", n)
  <2>1. CASE f.event # Report \/ f.data # "good"
    BY <2>1, ShownNext
  <2>2. CASE f.event = Report /\ f.data = "good"
    <3>1. ~Shown(Report, "panic", n)
      BY <2>2, NoThird
    <3>2. ASSUME Shown(Report, "panic", n + 1) PROVE FALSE
      <4>1. f.index \in {1, 2}
        BY DEF IsFrame
      <4>2. PICK index \in {1, 2} : index # f.index
        BY <4>1
      <4>3. PICK j \in 1 .. n + 1 : stderr[j] = FrameLine(Report, "panic", 2, index, "good")
        BY <3>2 DEF Shown
      <4>4. /\ FrameAt(j) /\ stderr[j].event = Report /\ stderr[j].data = "good"
            /\ stderr[j].index = index
        BY <4>3 DEF FrameLine, FrameAt
      <4>5. j \in 1 .. n /\ j \in DOMAIN stderr
        BY <1>0, <1>1, <4>2, <4>4
      <4>6. ASSUME NEW i \in 1 .. n, FrameAt(i), stderr[i].event = Report PROVE i = j
        <5>1. i \in DOMAIN stderr /\ i # n + 1
          BY <1>1
        <5>2. stderr[i].index # f.index
          BY <1>1, <2>2, <4>6, <5>1 DEF LinesInv
        <5>3. IsFrame(stderr[i])
          BY <4>6, <5>1 DEF LinesInv, IsLine, FrameAt, Text, BadFrame, Torn
        <5>4. stderr[i].index = stderr[j].index
          BY <4>1, <4>2, <4>4, <5>2, <5>3 DEF IsFrame
        <5> QED
          BY <4>4, <4>5, <4>6, <5>1, <5>4 DEF LinesInv
      <4>7. stderr[j] \in o.groups
        BY <4>4, <4>5, <4>6 DEF SeenBy
      <4> QED
        BY <1>2, <2>2, <4>4, <4>7
    <3> QED
      BY <3>1, <3>2
  <2> QED
    BY <2>1, <2>2
<1>7. SeenBy(q, n + 1)
  BY <1>2, <1>3, <1>4, <1>5, <1>6 DEF SeenBy
<1> QED
  BY <1>2, <1>7 DEF News

LEMMA CompleteSeen ==
    ASSUME LinesInv, NEW n \in Nat, n + 1 <= Len(stderr), Len(stderr) \in Nat,
           IsFrame(stderr[n + 1]), NEW o, SeenBy(o, n), NEW q, DOMAIN q = ObserverFields,
           NEW notices, NEW tracing, Completes(o, stderr[n + 1], tracing, q, notices)
    PROVE  SeenBy(q, n + 1) /\ News(o, q, n + 1, notices)
<1>. DEFINE f == stderr[n + 1]
<1>0. \A i : i \in 1 .. n + 1 <=> i \in 1 .. n \/ i = n + 1
  OBVIOUS
<1>1. DOMAIN stderr = 1 .. Len(stderr) /\ n + 1 \in DOMAIN stderr /\ FrameAt(n + 1)
  BY DEF LinesInv, IsSequence, FrameAt, IsFrame
<1>2. PICK g \in o.groups : \E payload \in {f.payload, g.payload} :
         /\ g.event = f.event /\ g.index # f.index
         /\ q.groups = o.groups \ GroupOf(o, f.event)
         /\ q.panicSeen = (o.panicSeen \/ (IsValid(f, g) /\ payload = "panic"))
         /\ notices = IF IsValid(f, g) THEN NoticesOf(payload, tracing) ELSE <<Invalid>>
  BY DEF Completes
<1>3. PICK m \in 1 .. n : stderr[m] = g
  BY DEF SeenBy
<1>4. IsFrame(g) /\ g.event = f.event
  BY <1>2 DEF SeenBy, Groups
<1>5. /\ g.payload = f.payload /\ g.index # f.index
      /\ \A payload : Shown(g.event, payload, n + 1) <=>
            g.data = "good" /\ f.data = "good" /\ payload = g.payload
  BY <1>3, <1>4, TwoFrames
<1>6. /\ q.groups \subseteq o.groups /\ \A x \in o.groups : x.event # f.event => x \in q.groups
      /\ q.panicSeen = (o.panicSeen \/ (IsValid(f, g) /\ g.payload = "panic"))
      /\ notices = IF IsValid(f, g) THEN NoticesOf(g.payload, tracing) ELSE <<Invalid>>
  BY <1>2, <1>5 DEF GroupOf
<1>7. Groups(q)
  BY <1>6 DEF Groups, SeenBy
<1>8. \A x \in q.groups : x.data # "undecodable" /\ \E i \in 1 .. n + 1 : stderr[i] = x
  BY <1>0, <1>6 DEF SeenBy
<1>9. ASSUME NEW i \in 1 .. n + 1, FrameAt(i), stderr[i].data = "good",
             \A j \in 1 .. n + 1 : FrameAt(j) /\ stderr[j].event = stderr[i].event => j = i
      PROVE  stderr[i] \in q.groups
  <2>1. f.event # stderr[i].event
    <3>1. SUFFICES ASSUME f.event = stderr[i].event PROVE FALSE
      OBVIOUS
    <3>2. FrameAt(m) /\ stderr[m].event = stderr[i].event
      BY <1>3, <1>4, <3>1 DEF FrameAt, IsFrame
    <3>3. i = n + 1 /\ i = m
      BY <1>0, <1>1, <1>9, <3>1, <3>2
    <3> QED
      BY <3>3
  <2>2. i \in 1 .. n
    BY <1>0, <1>9, <2>1
  <2>3. \A j \in 1 .. n : FrameAt(j) /\ stderr[j].event = stderr[i].event => j = i
    BY <1>0, <1>9
  <2>4. stderr[i] \in o.groups
    BY <1>9, <2>2, <2>3 DEF SeenBy
  <2> QED
    BY <1>6, <1>9, <2>1, <2>4
<1>10. g.payload \in Payloads(f.event) /\ f.event \in {Layer, Report}
  BY <1>4 DEF IsFrame
<1>11. CASE f.event = Layer
  <2>1. g.payload \in {"layerOn", "layerOff"}
    BY <1>10, <1>11 DEF Payloads, LayerStatus
  <2>2. q.panicSeen = o.panicSeen
    BY <1>6, <2>1 DEF SeenBy
  <2>3. Shown(Report, "panic", n + 1) <=> Shown(Report, "panic", n)
    <3>1. f.event # Report
      BY <1>11 DEF Layer, Report
    <3> QED
      BY <3>1, ShownNext
  <2>4. SeenBy(q, n + 1)
    BY <1>7, <1>8, <1>9, <2>2, <2>3 DEF SeenBy
  <2>5. CASE IsValid(f, g)
    <3>1. notices = << [kind |-> g.payload] >>
      BY <1>6, <2>1, <2>5 DEF NoticesOf
    <3>2. Shown(Layer, g.payload, n + 1)
      BY <1>4, <1>5, <1>11, <2>5 DEF IsValid
    <3> QED
      BY <2>1, <2>2, <2>4, <3>1, <3>2 DEF News
  <2>6. CASE ~IsValid(f, g)
    BY <1>6, <2>2, <2>4, <2>6 DEF News
  <2> QED
    BY <2>5, <2>6
<1>12. CASE f.event = Report
  <2>1. g.payload \in {"panic", "tracing", "processExit"}
    BY <1>10, <1>12 DEF Payloads, Layer, Report
  <2>2. ~Shown(Report, "panic", n)
    BY <1>12, NoThird
  <2>3. ~o.panicSeen
    BY <2>2 DEF SeenBy
  <2>4. q.panicSeen <=> IsValid(f, g) /\ g.payload = "panic"
    BY <1>6, <2>3
  <2>5. Shown(Report, "panic", n + 1) <=> g.data = "good" /\ f.data = "good" /\ g.payload = "panic"
    BY <1>4, <1>5, <1>12
  <2>6. q.panicSeen <=> Shown(Report, "panic", n + 1)
    BY <1>5, <2>4, <2>5 DEF IsValid
  <2>7. q.panicSeen \in BOOLEAN
    BY <1>6, <2>3 DEF SeenBy, IsValid
  <2>8. SeenBy(q, n + 1)
    BY <1>7, <1>8, <1>9, <2>6, <2>7 DEF SeenBy
  <2>9. News(o, q, n + 1, notices)
    <3>0. q.panicSeen \in BOOLEAN /\ o.panicSeen \in BOOLEAN
      BY <2>7 DEF SeenBy
    <3>1. CASE ~IsValid(f, g)
      BY <1>6, <2>3, <2>4, <3>0, <3>1 DEF News
    <3>2. CASE IsValid(f, g) /\ g.payload = "panic"
      <4>1. notices = << [kind |-> "panic"] >>
        BY <1>6, <3>2 DEF NoticesOf
      <4> QED
        BY <2>3, <2>4, <3>2, <4>1 DEF News
    <3>3. CASE IsValid(f, g) /\ g.payload = "tracing"
      <4>1. notices \in {<< >>, << [kind |-> "tracing"] >>}
        BY <1>6, <3>3 DEF NoticesOf
      <4>2. q.panicSeen = o.panicSeen
        BY <2>3, <2>4, <3>0, <3>3
      <4> QED
        BY <4>1, <4>2 DEF News
    <3>4. CASE g.payload = "processExit"
      BY <3>1, <3>4 DEF IsValid
    <3> QED
      BY <2>1, <3>1, <3>2, <3>3, <3>4
  <2> QED
    BY <2>8, <2>9
<1> QED
  BY <1>10, <1>11, <1>12

LEMMA PushSeen ==
    ASSUME LinesInv, NEW n \in Nat, n + 1 <= Len(stderr), Len(stderr) \in Nat,
           NEW o, SeenBy(o, n), NEW tracing
    PROVE  LET result == Push(o, stderr[n + 1], tracing) IN
           SeenBy(result.observer, n + 1) /\ News(o, result.observer, n + 1, result.notices)
<1>. DEFINE line == stderr[n + 1]
            q == Push(o, line, tracing).observer
            notices == Push(o, line, tracing).notices
<1>1. IsLine(line)
  <2>1. n + 1 \in DOMAIN stderr
    BY DEF LinesInv, IsSequence
  <2> QED
    BY <2>1 DEF LinesInv
<1>2. CASE line \in {Text, BadFrame, Torn}
  <2>1. Keeps(o, q) /\ notices \in {<< >>, <<Invalid>>}
    BY <1>2, PushPlain DEF SeenBy, Groups
  <2>. HIDE DEF q, notices
  <2>2. SeenBy(q, n + 1)
    BY <1>2, <2>1, PlainSeen
  <2>3. News(o, q, n + 1, notices)
    BY <2>1 DEF News, Keeps
  <2> QED
    BY <2>2, <2>3 DEF q, notices
<1>3. CASE IsFrame(line)
  <2>1. /\ DOMAIN q = ObserverFields
        /\ \/ Clashes(o, line, q, notices) \/ IsHeld(o, line, q, notices)
           \/ Completes(o, line, tracing, q, notices)
    BY <1>3, PushFrame DEF SeenBy
  <2>. HIDE DEF q, notices
  <2>2. SeenBy(q, n + 1) /\ News(o, q, n + 1, notices)
    BY <1>3, <2>1, ClashSeen, HeldSeen, CompleteSeen
  <2> QED
    BY <2>2 DEF q, notices
<1> QED
  BY <1>1, <1>2, <1>3 DEF IsLine

LEMMA DiagnosticSeen ==
    ASSUME LinesInv, ObserverInv, TakeDiagnostic
    PROVE  /\ ObserverInv'
           /\ News(observer, observer', read + 1,
                   Push(observer, stderr[read + 1], setting.tracing).notices)
<1>. DEFINE result == Push(observer, stderr[read + 1], setting.tracing)
<1>1. /\ pc = "loop" /\ read < Len(stderr) /\ observer' = result.observer
      /\ read' = read + 1 /\ stderr' = stderr /\ closed' = closed /\ setting' = setting
  BY DEF TakeDiagnostic, Loops, Becomes
<1>2. /\ read \in Nat /\ Len(stderr) \in Nat /\ read + 1 <= Len(stderr)
  BY <1>1 DEF ObserverInv, LinesInv, IsSequence
<1>3. "stderr" \notin closed
  BY <1>1, <1>2 DEF ObserverInv
<1>4. SeenBy(observer, read)
  BY <1>1, <1>3 DEF ObserverInv, SeenBy, Groups, ObserverFields, PanicShown
<1>5. /\ SeenBy(observer', read + 1)
      /\ News(observer, observer', read + 1, result.notices)
  <2>1. /\ SeenBy(result.observer, read + 1)
        /\ News(observer, result.observer, read + 1, result.notices)
    BY <1>2, <1>4, PushSeen
  <2>. HIDE DEF result
  <2> QED
    BY <1>1, <2>1
<1>. HIDE DEF result
<1>6. \A f : IsFrame(f)' <=> IsFrame(f)
  BY <1>1 DEF IsFrame, Payloads, LayerStatus
<1>7. PanicShown' <=> Shown(Report, "panic", read + 1)
  BY <1>1 DEF PanicShown, Shown
<1>8. /\ DOMAIN observer' = ObserverFields
      /\ \A f, g \in observer'.groups : f.event = g.event => f = g
      /\ \A f \in observer'.groups : /\ IsFrame(f)' /\ f.data # "undecodable"
                                     /\ \E i \in 1 .. read' : stderr'[i] = f
  BY <1>1, <1>5, <1>6 DEF SeenBy, Groups
<1>9. \A i \in 1 .. read' :
             /\ FrameAt(i)' /\ stderr'[i].data = "good"
             /\ \A j \in 1 .. read' : FrameAt(j)' /\ stderr'[j].event = stderr'[i].event => j = i
             => stderr'[i] \in observer'.groups
  BY <1>1, <1>5 DEF SeenBy, FrameAt
<1>10. observer'.panicSeen \in BOOLEAN /\ (observer'.panicSeen <=> PanicShown')
  BY <1>5, <1>7 DEF SeenBy
<1>11. read' \in 0 .. Len(stderr') /\ "stderr" \notin closed'
  BY <1>1, <1>2, <1>3
<1>12. \A i \in 1 .. read' :
             (/\ FrameAt(i)' /\ stderr'[i].data = "good"
              /\ \A j \in 1 .. read' : FrameAt(j)' /\ stderr'[j].event = stderr'[i].event => j = i)
             => stderr'[i] \in observer'.groups
  BY <1>9
<1>13. ObserverInv'
  BY <1>8, <1>10, <1>11, <1>12 DEF ObserverInv, ObserverFields, FrameAt
<1> QED
  BY <1>5, <1>13 DEF result

LEMMA FinishSeen ==
    ASSUME LinesInv, ObserverInv, observer' = Finish(observer).observer,
           UNCHANGED <<setting, stderr, read>>, "stderr" \in closed' \/ pc' = "done",
           "stderr" \in closed' => read = Len(stderr)
    PROVE  /\ ObserverInv' /\ observer'.panicSeen = observer.panicSeen
           /\ \E n \in Nat : Finish(observer).notices = [i \in 1 .. n |-> Invalid]
<1>1. Groups(observer)
  BY DEF ObserverInv, Groups, ObserverFields
<1>2. /\ DOMAIN observer' = ObserverFields /\ observer'.groups = {}
      /\ observer'.panicSeen = observer.panicSeen
      /\ \E n \in Nat : Finish(observer).notices = [i \in 1 .. n |-> Invalid]
  BY <1>1, FinishIs
<1>3. PanicShown' <=> PanicShown
  BY DEF PanicShown, Shown
<1>4. read' \in 0 .. Len(stderr') /\ ("stderr" \in closed' => read' = Len(stderr'))
  BY DEF ObserverInv
<1>5. observer'.panicSeen \in BOOLEAN /\ (observer'.panicSeen <=> PanicShown')
  BY <1>2, <1>3 DEF ObserverInv
<1>6. ObserverInv'
  BY <1>2, <1>4, <1>5 DEF ObserverInv, ObserverFields
<1> QED
  BY <1>2, <1>6

LEMMA LoopObserver ==
    ASSUME GameInv, ObserverInv, LoopStep PROVE ObserverInv'
<1>1. LinesInv /\ PlaceInv /\ Grows
  BY LoopGame DEF GameInv
<1>2. CASE LaunchFails \/ ResolveMetadata \/ ResolveOptional
  <2>1. UNCHANGED <<setting, read, observer, closed>> /\ pc # "done"
    BY <1>2 DEF LaunchFails, ResolveMetadata, ResolveOptional, LaunchOnly, gameVars
  <2> QED
    BY <1>1, <2>1, ObserverStays
<1>3. CASE Spawn
  <2>1. UNCHANGED <<setting, read, observer, closed>> /\ pc # "done"
    BY <1>3 DEF Spawn
  <2> QED
    BY <1>1, <2>1, ObserverStays
<1>4. CASE TakeLine
  <2>1. UNCHANGED <<setting, read, observer, closed>> /\ pc # "done"
    BY <1>4 DEF TakeLine, Loops, Becomes
  <2> QED
    BY <1>1, <2>1, ObserverStays
<1>5. CASE TakeDiagnostic
  BY <1>1, <1>5, DiagnosticSeen
<1>6. CASE TakeClosedStdout
  <2>1. /\ UNCHANGED <<setting, read, observer>> /\ pc # "done"
        /\ closed' = closed \cup {"stdout"}
    BY <1>6 DEF TakeClosedStdout, Closes, Loops, Becomes
  <2>2. "stderr" \in closed' <=> "stderr" \in closed
    BY <2>1
  <2> QED
    BY <1>1, <2>1, <2>2, ObserverStays
<1>7. CASE TakeClosedStderr
  <2>1. /\ UNCHANGED <<setting, stderr, read>> /\ observer' = Finish(observer).observer
        /\ "stderr" \in closed' /\ read = Len(stderr)
    BY <1>7 DEF TakeClosedStderr, Closes, Becomes
  <2> QED
    BY <1>1, <2>1, FinishSeen
<1>8. CASE DeadlinePasses \/ Terminate \/ Cancelled
  <2>1. UNCHANGED <<setting, read, observer, closed>> /\ pc # "done"
    BY <1>8 DEF DeadlinePasses, Terminate, Cancelled, Loops, gameVars
  <2> QED
    BY <1>1, <2>1, ObserverStays
<1>9. CASE Exited
  <2>1. UNCHANGED <<setting, read, observer, closed>> /\ pc # "done"
    BY <1>9 DEF Exited, Loops, gameVars
  <2> QED
    BY <1>1, <2>1, ObserverStays
<1>10. CASE EndSession
  <2>1. /\ UNCHANGED <<setting, stderr, read, closed>> /\ observer' = Finish(observer).observer
        /\ pc' = "done"
    BY <1>10 DEF EndSession
  <2>2. "stderr" \in closed' => read = Len(stderr)
    BY <2>1 DEF ObserverInv
  <2> QED
    BY <1>1, <2>1, <2>2, FinishSeen
<1> QED
  BY <1>2, <1>3, <1>4, <1>5, <1>6, <1>7, <1>8, <1>9, <1>10 DEF LoopStep

-----------------------------------------------------------------------------
(* What an observation does to the start and to the reports *)

\* What the notices of a diagnostic do to the step of the loop.
DiagnosticIs(now) ==
    \/ Goes(Now, now) /\ observer'.panicSeen = observer.panicSeen
    \/ Goes(Now, now) /\ observer'.panicSeen
    \/ /\ observation.initialized /\ Tells(Now, now, "panic")
       /\ ~observer.panicSeen /\ observer'.panicSeen
    \/ \E layer \in {"layerOn", "layerOff"} :
          /\ Fate(Now, now, [observation EXCEPT !.layer = layer])
          /\ Shown(Layer, layer, read + 1) /\ observer'.panicSeen = observer.panicSeen

LEMMA DiagnosticGoes ==
    ASSUME LinesInv, ObserverInv, observation \in Observations, setting.tracing \in BOOLEAN,
           IsSequence(told), TakeDiagnostic
    PROVE  DiagnosticIs(Delivered(Push(observer, stderr[read + 1], setting.tracing).notices))
<1>. DEFINE notices == Push(observer, stderr[read + 1], setting.tracing).notices
<1>1. News(observer, observer', read + 1, notices)
  BY DiagnosticSeen
<1>0. SUFFICES DiagnosticIs(Delivered(notices))
  OBVIOUS
<1>. HIDE DEF notices
<1>2. Delivered(notices) = Notices(Now, notices)
  BY DEF Delivered, Notices
<1>3. DOMAIN Now = NowFields /\ IsSequence(Now.told)
  BY NowIs
<1>4. Goes(Now, Now)
  BY <1>3, GoesSelf
<1>5. CASE notices = << >> /\ observer'.panicSeen = observer.panicSeen
  <2>1. Notices(Now, notices) = Now
    BY <1>5, NoNotice
  <2> QED
    BY <1>2, <1>4, <1>5, <2>1 DEF DiagnosticIs
<1>6. CASE notices = <<Invalid>> /\ observer'.panicSeen = observer.panicSeen
  <2>1. Notices(Now, notices) = Noticed(Now, Invalid)
    BY <1>6, OneNotice
  <2>2. Goes(Now, Noticed(Now, Invalid))
    BY <1>3, NoticedInvalid
  <2> QED
    BY <1>2, <1>6, <2>1, <2>2 DEF DiagnosticIs
<1>7. ASSUME NEW layer \in {"layerOn", "layerOff"}, notices = << [kind |-> layer] >>,
             Shown(Layer, layer, read + 1), observer'.panicSeen = observer.panicSeen
      PROVE  DiagnosticIs(Delivered(notices))
  <2>1. Notices(Now, notices) = Noticed(Now, [kind |-> layer])
    BY <1>7, OneNotice
  <2>2. Fate(Now, Noticed(Now, [kind |-> layer]), [observation EXCEPT !.layer = layer])
    BY LayerFate
  <2> QED
    BY <1>2, <1>7, <2>1, <2>2 DEF DiagnosticIs
<1>8. ASSUME NEW kind \in {"tracing", "panic"}, notices = << [kind |-> kind] >>
      PROVE  \/ Delivered(notices) = Now
             \/ observation.initialized /\ Tells(Now, Delivered(notices), kind)
  <2>. DEFINE notice == [kind |-> kind]
  <2>1. Delivered(notices) = Noticed(Now, notice)
    BY <1>2, <1>8, OneNotice
  <2>2. notice.kind = kind
    OBVIOUS
  <2>3. Tells(Now, Told(Now, notice), notice.kind)
    BY <1>3, ToldTells
  <2>. HIDE DEF notice
  <2>4. Noticed(Now, notice) = IF observation.initialized THEN Told(Now, notice) ELSE Now
    BY <2>2, NowIs DEF Noticed
  <2> QED
    BY <2>1, <2>2, <2>3, <2>4 DEF Observations
<1>9. CASE notices = << [kind |-> "tracing"] >> /\ observer'.panicSeen = observer.panicSeen
  <2>1. Delivered(notices) = Now \/ Tells(Now, Delivered(notices), "tracing")
    BY <1>8, <1>9
  <2>2. Goes(Now, Delivered(notices))
    BY <1>3, <1>4, <2>1, TellsGoes
  <2> QED
    BY <1>9, <2>2 DEF DiagnosticIs
<1>10. CASE notices = << [kind |-> "panic"] >> /\ ~observer.panicSeen /\ observer'.panicSeen
  <2>1. Delivered(notices) = Now \/ (observation.initialized /\ Tells(Now, Delivered(notices), "panic"))
    BY <1>8, <1>10
  <2> QED
    BY <1>4, <1>10, <2>1 DEF DiagnosticIs
<1> QED
  BY <1>1, <1>5, <1>6, <1>7, <1>9, <1>10 DEF News

LEMMA StartStarts == Init => StartInv /\ DeathInv
<1>. SUFFICES ASSUME Init PROVE StartInv /\ DeathInv
  OBVIOUS
<1>1. StartInv
  BY DEF Init, StartInv
<1>2. told = << >> /\ Times(told, "panic") = 0 /\ Times(told, "processExit") = 0 /\ IsSequence(told)
  BY TimesEmpty DEF Init
<1>3. DeathInv
  BY <1>2 DEF Init, DeathInv
<1> QED
  BY <1>1, <1>3

\* The start is as it was.
LEMMA StartStays ==
    ASSUME StartInv, UNCHANGED <<setting, observation, ready, said>>, cancel => cancel',
           pc' = pc \/ (pc # "done" /\ pc' = "end"),
           stdout' = stdout \/ observation.wireReady,
           Shown(Layer, "layerOn", read) => Shown(Layer, "layerOn", read)'
    PROVE  StartInv'
BY DEF StartInv

\* A line or the marker of the layer changes the observation to o.
LEMMA StartFate ==
    ASSUME StartInv, pc = "loop", NEW now, Becomes(now), NEW o \in Observations, Fate(Now, now, o),
           o.initialized = observation.initialized, observation.wireReady => o.wireReady,
           o.wireReady => said # << >> /\ Head(said) = "ready",
           ~o.wireReady /\ now.failed = FALSE => stdout' = said,
           o.layer = "layerOn" => Shown(Layer, "layerOn", read)',
           Shown(Layer, "layerOn", read) => Shown(Layer, "layerOn", read)'
    PROVE  StartInv'
<1>1. /\ setting' = setting /\ said' = said /\ cancel' = cancel
      /\ observation' = now.observation /\ ready' = now.ready
      /\ pc' = IF now.failed THEN "done" ELSE pc
  BY DEF Becomes
<1>2. observation.initialized \in BOOLEAN /\ (~observation.initialized => ready = << >>)
  BY DEF StartInv
<1>3. CASE now.failed = FALSE /\ now.observation = o /\ now.ready = ready
  <2>1. observation' = o /\ ready' = ready /\ pc' = "loop"
    BY <1>1, <1>3
  <2> QED
    BY <1>1, <1>2, <1>3, <2>1 DEF StartInv, Observations
<1>4. CASE /\ ~o.initialized /\ IsConfirmed(o) /\ now.failed = FALSE
           /\ now.observation = [o EXCEPT !.initialized = TRUE] /\ now.ready = Append(ready, "ok")
  <2>0. ready = << >> /\ Append(<< >>, "ok") = <<"ok">>
    BY <1>2, <1>4
  <2>1. /\ ready' = <<"ok">> /\ pc' = "loop"
        /\ observation' \in Observations /\ observation'.initialized = TRUE
        /\ observation'.wireReady = o.wireReady /\ observation'.layer = o.layer
    BY <1>1, <1>4, <2>0 DEF Observations
  <2>2. o.wireReady /\ (setting.tracing => o.layer = "layerOn")
    BY <1>4 DEF IsConfirmed
  <2> QED
    BY <1>1, <1>4, <2>1, <2>2 DEF StartInv, Observations
<1>5. ASSUME ~o.initialized, now.failed = TRUE, now.observation = o,
             NEW error \in {"launch", "unsupported", "invalidReady"}, now.ready = Append(ready, error)
      PROVE  StartInv'
  <2>0. ready = << >> /\ Append(<< >>, error) = <<error>>
    BY <1>2, <1>5
  <2>1. observation' = o /\ ready' = <<error>> /\ pc' = "done"
    BY <1>1, <1>5, <2>0
  <2> QED
    BY <1>1, <1>5, <2>1 DEF StartInv, Observations
<1> QED
  BY <1>3, <1>4, <1>5, NowIs DEF Fate

\* No report of a panic or an exit, and no other death.
LEMMA DeathStays ==
    ASSUME DeathInv, NEW now, Goes(Now, now), told' = now.told, reason' = now.reason,
           observer.panicSeen => observer'.panicSeen, UNCHANGED <<stopping, cleanup>>,
           pc \in {"end", "done"} => /\ pc' \in {"end", "done"} /\ observation' = observation
                                    /\ observer'.panicSeen = observer.panicSeen
    PROVE  DeathInv'
<1>1. /\ IsSequence(told') /\ Times(told', "panic") = Times(told, "panic")
      /\ Times(told', "processExit") = Times(told, "processExit")
      /\ reason' = reason \/ (reason = "none" /\ reason' = "overflow")
  BY NowIs DEF Goes
<1> QED
  BY <1>1 DEF DeathInv

LEMMA TypesOf ==
    ASSUME PlaceInv, StartInv
    PROVE  observation \in Observations /\ setting.tracing \in BOOLEAN
BY SettingsAssumption DEF PlaceInv, StartInv, Observations

LEMMA LaunchVerdict ==
    ASSUME GameInv, ObserverInv, StartInv, DeathInv,
           LaunchFails \/ ResolveMetadata \/ ResolveOptional \/ Spawn
    PROVE  StartInv' /\ DeathInv'
<1>. DEFINE shown == Shown(Layer, "layerOn", read)
<1>1. LinesInv /\ PlaceInv /\ Grows
  BY LoopGame DEF GameInv, LoopStep
<1>2. /\ Launching /\ UNCHANGED <<setting, read, observer, observation, said, stdout, told,
                                  reason, stopping, cleanup, cancel>>
  BY DEF LaunchFails, ResolveMetadata, ResolveOptional, Spawn, LaunchOnly, startVars, gameVars,
         Launching
<1>3. shown' <=> shown
  BY <1>1, <1>2, ShownStays
<1>. HIDE DEF shown
<1>4. DeathInv'
  BY <1>2, DeathStays, GoesSelf, NowIs DEF Launching, DeathInv
<1>5. ~observation.wireReady /\ stdout = said /\ ~observation.initialized /\ ready = << >>
  BY <1>1, <1>2 DEF PlaceInv, StartInv, Launching
<1>6. CASE LaunchFails
  <2>1. PICK error \in {"ended", "launch"} :
           /\ ready' = Append(ready, error) /\ pc' = "done" /\ (error = "ended" => cancel)
    BY <1>6 DEF LaunchFails, GivesUp
  <2>2. Append(<< >>, error) = <<error>>
    OBVIOUS
  <2>3. ready' = <<error>>
    BY <1>5, <2>1, <2>2
  <2>4. StartInv'
    BY <1>2, <1>3, <1>5, <2>1, <2>3 DEF StartInv, shown
  <2> QED
    BY <1>4, <2>4
<1>7. CASE ResolveMetadata \/ ResolveOptional \/ Spawn
  <2>1. ready' = ready /\ pc' # "done"
    BY <1>7 DEF ResolveMetadata, ResolveOptional, Spawn, startVars
  <2>2. StartInv'
    BY <1>2, <1>3, <1>5, <2>1 DEF StartInv, shown
  <2> QED
    BY <1>4, <2>2
<1> QED
  BY <1>6, <1>7

LEMMA LineVerdict ==
    ASSUME GameInv, ObserverInv, StartInv, DeathInv, TakeLine
    PROVE  StartInv' /\ DeathInv'
<1>. DEFINE line == Head(stdout)
            now == LineRead(line)
<1>1. LinesInv /\ PlaceInv /\ Grows
  BY LoopGame DEF GameInv, LoopStep
<1>2. /\ pc = "loop" /\ stdout # << >> /\ stdout' = Tail(stdout) /\ Becomes(now)
      /\ UNCHANGED <<stderr, read, observer, closed>>
  BY DEF TakeLine, Loops
<1>3. observation \in Observations /\ setting.tracing \in BOOLEAN
  BY <1>1, TypesOf
<1>4. \/ observation.initialized /\ Tells(Now, now, "protocol")
      \/ /\ ~observation.initialized /\ line = "ready" /\ ~observation.wireReady
         /\ Fate(Now, now, [observation EXCEPT !.wireReady = TRUE])
      \/ /\ ~observation.initialized /\ now.failed = TRUE /\ Fate(Now, now, observation)
  BY <1>3, LineFate
<1>5. Shown(Layer, "layerOn", read)' <=> Shown(Layer, "layerOn", read)
  BY <1>1, <1>2, ShownStays
<1>6. ~observation.wireReady => stdout = said
  BY <1>2 DEF StartInv
<1>. HIDE DEF now
<1>7. /\ told' = now.told /\ reason' = now.reason /\ observation' = now.observation
      /\ ready' = now.ready /\ UNCHANGED <<stopping, cleanup, setting, said, cancel>>
      /\ pc' = IF now.failed THEN "done" ELSE pc
  BY <1>2 DEF Becomes
<1>8. DOMAIN Now = NowFields /\ IsSequence(Now.told)
  BY NowIs DEF DeathInv
<1>9. CASE observation.initialized /\ Tells(Now, now, "protocol")
  <2>1. Goes(Now, now)
    BY <1>8, <1>9, TellsGoes
  <2>2. DeathInv'
    BY <1>2, <1>7, <2>1, DeathStays
  <2>3. observation' = observation /\ ready' = ready /\ pc' = pc /\ observation.wireReady
    BY <1>7, <1>9, NowIs DEF Tells, StartInv
  <2> QED
    BY <1>5, <1>7, <2>2, <2>3, StartStays
<1>10. ASSUME NEW o \in Observations, Fate(Now, now, o),
              o.initialized = observation.initialized, observation.wireReady => o.wireReady,
              o.wireReady => said # << >> /\ Head(said) = "ready",
              o.wireReady \/ now.failed = TRUE, o.layer = observation.layer
       PROVE  StartInv' /\ DeathInv'
  <2>1. told' = Now.told /\ reason' = Now.reason
    BY <1>7, <1>10 DEF Fate
  <2>2. DeathInv'
    BY <1>2, <1>7, <1>8, <2>1, GoesSelf, DeathStays
  <2>3. o.layer = "layerOn" => Shown(Layer, "layerOn", read)'
    BY <1>5, <1>10 DEF StartInv
  <2>4. ~o.wireReady /\ now.failed = FALSE => stdout' = said
    BY <1>10
  <2> QED
    BY <1>2, <1>5, <1>10, <2>2, <2>3, <2>4, StartFate
<1>11. CASE /\ ~observation.initialized /\ line = "ready" /\ ~observation.wireReady
            /\ Fate(Now, now, [observation EXCEPT !.wireReady = TRUE])
  <2>. DEFINE o == [observation EXCEPT !.wireReady = TRUE]
  <2>1. o \in Observations /\ o.initialized = observation.initialized /\ o.wireReady = TRUE
        /\ o.layer = observation.layer
    BY <1>3 DEF Observations
  <2>2. said # << >> /\ Head(said) = "ready"
    BY <1>2, <1>6, <1>11
  <2>. HIDE DEF o
  <2>3. Fate(Now, now, o)
    BY <1>11 DEF o
  <2> QED
    BY <1>10, <2>1, <2>2, <2>3
<1>12. CASE ~observation.initialized /\ now.failed = TRUE /\ Fate(Now, now, observation)
  BY <1>3, <1>10, <1>12 DEF StartInv
<1> QED
  BY <1>4, <1>9, <1>11, <1>12

LEMMA DiagnosticVerdict ==
    ASSUME GameInv, ObserverInv, StartInv, DeathInv, TakeDiagnostic
    PROVE  StartInv' /\ DeathInv'
<1>. DEFINE now == Delivered(Push(observer, stderr[read + 1], setting.tracing).notices)
<1>1. LinesInv /\ PlaceInv /\ ObserverInv'
  BY DiagnosticSeen DEF GameInv
<1>2. /\ pc = "loop" /\ read' = read + 1 /\ Becomes(now) /\ UNCHANGED <<stderr, stdout>>
  BY DEF TakeDiagnostic, Loops
<1>3. observation \in Observations /\ setting.tracing \in BOOLEAN
  BY <1>1, TypesOf
<1>4. DiagnosticIs(now)
  BY <1>1, <1>3, DiagnosticGoes DEF DeathInv
<1>. HIDE DEF now
<1>5. \A layer : Shown(Layer, layer, read)' <=> Shown(Layer, layer, read + 1)
  BY <1>2 DEF Shown
<1>6. Shown(Layer, "layerOn", read) => Shown(Layer, "layerOn", read)'
  <2>1. \A i : i \in 1 .. read => i \in 1 .. read + 1
    BY DEF ObserverInv
  <2> QED
    BY <1>5, <2>1 DEF Shown
<1>7. /\ told' = now.told /\ reason' = now.reason /\ observation' = now.observation
      /\ ready' = now.ready /\ UNCHANGED <<stopping, cleanup, setting, said, cancel>>
      /\ pc' = IF now.failed THEN "done" ELSE pc
  BY <1>2 DEF Becomes
<1>8. DOMAIN Now = NowFields /\ IsSequence(Now.told)
  BY NowIs DEF DeathInv
<1>9. observer.panicSeen \in BOOLEAN /\ observer'.panicSeen \in BOOLEAN
  BY <1>1 DEF ObserverInv
<1>10. ASSUME now.observation = observation, now.ready = ready, now.failed = FALSE
       PROVE  StartInv'
  BY <1>2, <1>6, <1>7, <1>10, StartStays
<1>11. CASE Goes(Now, now) /\ (observer'.panicSeen = observer.panicSeen \/ observer'.panicSeen)
  <2>1. DeathInv'
    BY <1>2, <1>7, <1>9, <1>11, DeathStays
  <2> QED
    BY <1>10, <1>11, <2>1, NowIs DEF Goes
<1>12. CASE /\ observation.initialized /\ Tells(Now, now, "panic")
            /\ ~observer.panicSeen /\ observer'.panicSeen
  <2>1. now.told = Append(told, "panic")
    BY <1>12, NowIs DEF Tells
  <2>2. /\ IsSequence(now.told)
        /\ Times(now.told, "panic") = Times(told, "panic") + 1
        /\ Times(now.told, "processExit") = Times(told, "processExit") + 0
    BY <1>8, <2>1, NowIs, TimesAppend
  <2>3. Times(told, "panic") = 0 /\ Times(told, "processExit") = 0
    BY <1>2, <1>12 DEF DeathInv
  <2>4. Times(told', "panic") = 1 /\ Times(told', "processExit") = 0 /\ IsSequence(told')
    BY <1>7, <2>2, <2>3
  <2>5. pc' = "loop" /\ reason' # "exit" /\ (cleanup' => reason' # "none")
    BY <1>2, <1>7, <1>12, NowIs DEF Tells, DeathInv
  <2>6. DeathInv'
    BY <1>12, <2>4, <2>5 DEF DeathInv
  <2> QED
    BY <1>10, <1>12, <2>6, NowIs DEF Tells
<1>13. ASSUME NEW layer \in {"layerOn", "layerOff"},
              Fate(Now, now, [observation EXCEPT !.layer = layer]),
              Shown(Layer, layer, read + 1), observer'.panicSeen = observer.panicSeen
       PROVE  StartInv' /\ DeathInv'
  <2>. DEFINE o == [observation EXCEPT !.layer = layer]
  <2>1. /\ o \in Observations /\ o.initialized = observation.initialized
        /\ o.wireReady = observation.wireReady /\ o.layer = layer
    BY <1>3 DEF Observations
  <2>. HIDE DEF o
  <2>2. Fate(Now, now, o)
    BY <1>13 DEF o
  <2>3. told' = Now.told /\ reason' = Now.reason
    BY <1>7, <2>2 DEF Fate
  <2>4. DeathInv'
    BY <1>2, <1>7, <1>8, <1>13, <2>3, GoesSelf, DeathStays
  <2>5. o.layer = "layerOn" => Shown(Layer, "layerOn", read)'
    BY <1>5, <1>13, <2>1
  <2>6. o.wireReady => said # << >> /\ Head(said) = "ready"
    BY <2>1 DEF StartInv
  <2>7. ~o.wireReady /\ now.failed = FALSE => stdout' = said
    BY <1>2, <2>1 DEF StartInv
  <2>8. StartInv'
    BY <1>2, <1>6, <2>1, <2>2, <2>5, <2>6, <2>7, StartFate
  <2> QED
    BY <2>4, <2>8
<1> QED
  BY <1>4, <1>11, <1>12, <1>13 DEF DiagnosticIs

\* Becomes(now) after notices that tell nothing of a start or a death.
LEMMA ClosingVerdict ==
    ASSUME GameInv, ObserverInv, StartInv, DeathInv, TakeClosedStdout \/ TakeClosedStderr
    PROVE  StartInv' /\ DeathInv'
<1>1. LinesInv /\ PlaceInv /\ Grows
  BY LoopGame DEF GameInv, LoopStep
<1>2. pc = "loop" /\ UNCHANGED <<stdout, read>>
  BY DEF TakeClosedStdout, TakeClosedStderr, Closes, Loops
<1>3. Shown(Layer, "layerOn", read)' <=> Shown(Layer, "layerOn", read)
  BY <1>1, <1>2, ShownStays
<1>4. DOMAIN Now = NowFields /\ IsSequence(Now.told)
  BY NowIs DEF DeathInv
<1>5. ASSUME NEW now, Goes(Now, now), Becomes(now), observer'.panicSeen = observer.panicSeen
      PROVE  StartInv' /\ DeathInv'
  <2>1. /\ told' = now.told /\ reason' = now.reason /\ observation' = now.observation
        /\ ready' = now.ready /\ UNCHANGED <<stopping, cleanup, setting, said, cancel>>
        /\ pc' = IF now.failed THEN "done" ELSE pc
    BY <1>5 DEF Becomes
  <2>2. now.observation = observation /\ now.ready = ready /\ now.failed = FALSE
    BY <1>5, NowIs DEF Goes
  <2>3. DeathInv'
    BY <1>2, <1>5, <2>1, DeathStays
  <2>4. StartInv'
    BY <1>2, <1>3, <2>1, <2>2, StartStays
  <2> QED
    BY <2>3, <2>4
<1>6. CASE TakeClosedStdout
  <2>1. Becomes(Now) /\ observer' = observer
    BY <1>6 DEF TakeClosedStdout
  <2> QED
    BY <1>4, <1>5, <2>1, GoesSelf
<1>7. CASE TakeClosedStderr
  <2>1. /\ UNCHANGED <<setting, stderr, read>> /\ observer' = Finish(observer).observer
        /\ "stderr" \in closed' /\ read = Len(stderr) /\ Becomes(Delivered(Finish(observer).notices))
    BY <1>7 DEF TakeClosedStderr, Closes, Becomes
  <2>2. /\ observer'.panicSeen = observer.panicSeen
        /\ \E n \in Nat : Finish(observer).notices = [i \in 1 .. n |-> Invalid]
    BY <1>1, <2>1, FinishSeen
  <2>3. Goes(Now, Delivered(Finish(observer).notices))
    BY <1>4, <2>2, InvalidNotices DEF Delivered, Notices
  <2> QED
    BY <1>5, <2>1, <2>2, <2>3
<1> QED
  BY <1>6, <1>7

LEMMA StopVerdict ==
    ASSUME GameInv, ObserverInv, StartInv, DeathInv, DeadlinePasses \/ Terminate \/ Cancelled
    PROVE  StartInv' /\ DeathInv'
<1>1. LinesInv /\ Grows
  BY LoopGame DEF GameInv, LoopStep
<1>2. /\ pc = "loop" /\ pc' \in {"loop", "end"} /\ observer' = observer
      /\ UNCHANGED <<setting, stdout, read, observation, ready, said, cancel, told, stopping>>
      /\ \/ reason' = reason /\ cleanup' = cleanup
         \/ reason' # "none" /\ reason' \in {reason, "closed"}
  BY DEF DeadlinePasses, Terminate, Cancelled, Loops, gameVars, startVars
<1>3. Shown(Layer, "layerOn", read)' <=> Shown(Layer, "layerOn", read)
  BY <1>1, <1>2, ShownStays
<1>4. StartInv'
  BY <1>2, <1>3, StartStays
<1>5. DeathInv'
  BY <1>2 DEF DeathInv
<1> QED
  BY <1>4, <1>5

\* The exit is told, unless a panic, a shutdown or a cleanup explains it.
LEMMA ExitVerdict ==
    ASSUME GameInv, ObserverInv, StartInv, DeathInv, Exited
    PROVE  StartInv' /\ DeathInv'
<1>. DEFINE told1 == ProcessExit(observer, stopping \/ cleanup)
            notices == IF observation.initialized THEN told1 ELSE << >>
            now == FoldLeft(Told, Now, notices)
<1>1. LinesInv /\ Grows
  BY LoopGame DEF GameInv, LoopStep
<1>2. /\ pc = "loop" /\ pc' = "end"
      /\ UNCHANGED <<setting, stdout, read, observer, observation, ready, said, cancel, stopping,
                     cleanup>>
  BY DEF Exited, Loops, gameVars, startVars
<1>3. told' = now.told /\ (reason' = now.reason \/ (reason' = "exit" /\ now.reason = "none"))
  BY DEF Exited
<1>4. Shown(Layer, "layerOn", read)' <=> Shown(Layer, "layerOn", read)
  BY <1>1, <1>2, ShownStays
<1>5. StartInv'
  BY <1>2, <1>4, StartStays
<1>6. /\ IsSequence(told) /\ Times(told, "processExit") = 0 /\ reason # "exit"
      /\ observer.panicSeen \in BOOLEAN
  BY <1>2 DEF DeathInv, ObserverInv
<1>7. /\ now = Tellers(Now, notices) /\ DOMAIN Now = NowFields
  BY NowIs DEF Tellers
<1>. HIDE DEF now
<1>8. CASE observation.initialized /\ ~stopping /\ ~cleanup /\ ~observer.panicSeen
  <2>1. notices = << [kind |-> "processExit"] >>
    BY <1>8 DEF ProcessExit
  <2>. HIDE DEF notices
  <2>. DEFINE notice == [kind |-> "processExit"]
  <2>2. now = Told(Now, notice)
    BY <1>7, <2>1, OneTelling
  <2>3. notice.kind = "processExit"
    OBVIOUS
  <2>. HIDE DEF notice
  <2>4. Tells(Now, now, "processExit")
    BY <1>7, <2>2, <2>3, ToldTells
  <2>5. told' = Append(told, "processExit")
    BY <1>3, <2>4, NowIs DEF Tells
  <2>6. /\ IsSequence(told') /\ Times(told', "processExit") = 1
        /\ Times(told', "panic") = Times(told, "panic") + 0
    BY <1>6, <2>5, TimesAppend
  <2>7. Times(told', "panic") = Times(told, "panic")
    BY <2>6 DEF DeathInv
  <2>8. DeathInv'
    BY <1>2, <1>8, <2>6, <2>7 DEF DeathInv
  <2> QED
    BY <1>5, <2>8
<1>9. CASE ~(observation.initialized /\ ~stopping /\ ~cleanup /\ ~observer.panicSeen)
  <2>1. notices = << >>
    BY <1>9 DEF ProcessExit
  <2>. HIDE DEF notices
  <2>2. now = Now
    BY <1>7, <2>1, NoTelling
  <2>3. told' = told /\ (reason' = reason \/ (reason' = "exit" /\ reason = "none"))
    BY <1>3, <2>2, NowIs
  <2>4. DeathInv'
    BY <1>2, <1>6, <1>9, <2>3 DEF DeathInv
  <2> QED
    BY <1>5, <2>4
<1> QED
  BY <1>8, <1>9

LEMMA EndVerdict ==
    ASSUME GameInv, ObserverInv, StartInv, DeathInv, EndSession
    PROVE  StartInv' /\ DeathInv'
<1>. DEFINE now == Delivered(Finish(observer).notices)
            closing == IF cancel THEN "ended" ELSE "launch"
<1>1. LinesInv /\ Grows
  BY LoopGame DEF GameInv, LoopStep
<1>2. /\ pc = "end" /\ pc' = "done" /\ observer' = Finish(observer).observer
      /\ UNCHANGED <<setting, stdout, stderr, read, closed, said, cancel, stopping, cleanup>>
      /\ told' = now.told /\ reason' = now.reason /\ observation' = now.observation
      /\ ready' = IF now.observation.initialized THEN now.ready ELSE Append(now.ready, closing)
  BY DEF EndSession
<1>3. Shown(Layer, "layerOn", read)' <=> Shown(Layer, "layerOn", read)
  BY <1>1, <1>2, ShownStays
<1>4. DOMAIN Now = NowFields /\ IsSequence(Now.told)
  BY NowIs DEF DeathInv
<1>5. /\ observer'.panicSeen = observer.panicSeen
      /\ \E n \in Nat : Finish(observer).notices = [i \in 1 .. n |-> Invalid]
  <2>1. "stderr" \in closed' => read = Len(stderr)
    BY <1>2 DEF ObserverInv
  <2> QED
    BY <1>1, <1>2, <2>1, FinishSeen
<1>6. Goes(Now, now)
  BY <1>4, <1>5, InvalidNotices DEF Delivered, Notices
<1>. HIDE DEF now, closing
<1>7. now.observation = observation /\ now.ready = ready
  BY <1>6, NowIs DEF Goes
<1>8. DeathInv'
  BY <1>2, <1>5, <1>6, <1>7, DeathStays
<1>9. CASE observation.initialized
  BY <1>2, <1>3, <1>7, <1>8, <1>9 DEF StartInv
<1>10. CASE ~observation.initialized
  <2>1. ready = << >> /\ Append(<< >>, closing) = <<closing>>
    BY <1>2, <1>10 DEF StartInv
  <2>2. ready' = <<closing>> /\ observation' = observation
    BY <1>2, <1>7, <1>10, <2>1
  <2>3. closing \in {"ended", "launch"} /\ (closing = "ended" => cancel')
    BY <1>2 DEF closing
  <2> QED
    BY <1>2, <1>3, <1>8, <1>10, <2>2, <2>3 DEF StartInv
<1> QED
  BY <1>9, <1>10 DEF StartInv

LEMMA LoopVerdict ==
    ASSUME GameInv, ObserverInv, StartInv, DeathInv, LoopStep PROVE StartInv' /\ DeathInv'
BY LaunchVerdict, LineVerdict, DiagnosticVerdict, ClosingVerdict, StopVerdict, ExitVerdict,
   EndVerdict DEF LoopStep

-----------------------------------------------------------------------------
(* The steps of the game and of the owner *)

LEMMA GameVerdict ==
    ASSUME GameInv, ObserverInv, StartInv, DeathInv, GameStep
    PROVE  ObserverInv' /\ StartInv' /\ DeathInv'
<1>1. LinesInv /\ Grows
  BY GameSteps DEF GameInv
<1>2. /\ UNCHANGED <<read, observer, observation, pc, closed, reason, stopping, cleanup, cancel,
                     ready, told, setting>>
      /\ \/ UNCHANGED <<stdout, said>>
         \/ said = << >> /\ said' = stdout'
  BY DEF GameStep, WriteFrame, SayReady, WriteText, Exit, Raise, GameOnly, loopVars, startVars
<1>3. ObserverInv'
  BY <1>1, <1>2, ObserverStays
<1>4. Shown(Layer, "layerOn", read)' <=> Shown(Layer, "layerOn", read)
  BY <1>1, <1>2, ShownStays
<1>5. StartInv'
  <2>1. CASE UNCHANGED <<stdout, said>>
    BY <1>2, <1>4, <2>1, StartStays
  <2>2. CASE said = << >> /\ said' = stdout'
    <3>1. ~observation.wireReady
      BY <2>2 DEF StartInv
    <3> QED
      BY <1>2, <1>4, <2>2, <3>1 DEF StartInv
  <2> QED
    BY <1>2, <2>1, <2>2
<1>6. DeathInv'
  BY <1>2 DEF DeathInv
<1> QED
  BY <1>3, <1>5, <1>6

\* What the owner does leaves the game and the observation alone.
OthersOnly ==
    /\ UNCHANGED <<gameVars, read, observer, observation, pc, closed, reason, cleanup, ready, said,
                   told>>
    /\ cancel => cancel'
    /\ stopping' = stopping \/ pc = "loop"

LEMMA OthersVerdict ==
    ASSUME GameInv, ObserverInv, StartInv, DeathInv, OthersOnly
    PROVE  GameInv' /\ ObserverInv' /\ StartInv' /\ DeathInv'
<1>1. LinesInv /\ EmitInv /\ PlaceInv
  BY DEF GameInv
<1>2. UNCHANGED <<setting, game, stdout, stderr, emitting, read, observer, observation, pc, closed,
                  reason, cleanup, ready, said, told>>
  BY DEF OthersOnly, gameVars
<1>3. Grows
  BY <1>2 DEF Grows
<1>4. LinesInv' /\ EmitInv'
  BY <1>1, <1>2, QuietGame
<1>5. PlaceInv'
  BY <1>1, <1>2 DEF PlaceInv, Launching, Runs
<1>6. ObserverInv'
  BY <1>1, <1>2, <1>3, ObserverStays
<1>7. Shown(Layer, "layerOn", read)' <=> Shown(Layer, "layerOn", read)
  BY <1>1, <1>2, <1>3, ShownStays
<1>8. StartInv'
  BY <1>2, <1>7, StartStays DEF OthersOnly
<1>9. DeathInv'
  BY <1>2 DEF DeathInv, OthersOnly
<1> QED
  BY <1>4, <1>5, <1>6, <1>8, <1>9 DEF GameInv

\* The coordinator's side of the lock, in its loop.
LEMMA LoopDelivers ==
    ASSUME DeliveryInv, LoopStep PROVE DeliveryInv'
<1>. SUFFICES CoordinatorOnly
  BY CoordinatorDelivers
<1>1. ended <=> pc = "done"
  BY DEF DeliveryInv
<1>2. CASE LaunchFails
  BY <1>1, <1>2 DEF LaunchFails, GivesUp, CoordinatorOnly
<1>3. CASE ResolveMetadata \/ ResolveOptional \/ Spawn \/ Cancelled
  BY <1>1, <1>3 DEF ResolveMetadata, ResolveOptional, Spawn, Cancelled, deliveryVars, CoordinatorOnly
<1>4. CASE DeadlinePasses \/ Terminate
  BY <1>1, <1>4 DEF DeadlinePasses, Terminate, Loops, deliveryVars, CoordinatorOnly
<1>5. ASSUME NEW now, pc = "loop", Becomes(now) PROVE CoordinatorOnly
  BY <1>1, <1>5 DEF Becomes, CoordinatorOnly
<1>6. CASE TakeLine \/ TakeDiagnostic \/ TakeClosedStdout \/ TakeClosedStderr
  <2>1. pc = "loop" /\ \E now : Becomes(now)
    BY <1>6, Zenon DEF TakeLine, TakeDiagnostic, TakeClosedStdout, TakeClosedStderr, Closes, Loops
  <2> QED
    BY <1>5, <2>1
<1>7. CASE Exited
  BY <1>1, <1>7 DEF Exited, Loops, CoordinatorOnly
<1>8. CASE EndSession
  BY <1>1, <1>8 DEF EndSession, CoordinatorOnly
<1> QED
  BY <1>2, <1>3, <1>4, <1>6, <1>7, <1>8 DEF LoopStep

Inv == GameInv /\ DeliveryInv /\ ObserverInv /\ StartInv /\ DeathInv

LEMMA OwnerSteps ==
    ASSUME Inv,
           \/ \E internal \in BOOLEAN : AcceptCommand(internal)
           \/ \E id \in Ids : CompleteCommand(id)
           \/ RefuseCommand \/ AcceptShutdown \/ OwnerStep
           \/ Starts \/ CancelStart \/ DropSession \/ UNCHANGED vars
    PROVE  OthersOnly /\ DeliveryInv'
<1>0. DeliveryInv /\ PlaceInv
  BY DEF Inv, GameInv
<1>1. ASSUME NEW internal \in BOOLEAN, AcceptCommand(internal) PROVE OthersOnly /\ DeliveryInv'
  <2>1. Accept(internal) /\ pc = "loop" /\ pc' = pc /\ OthersOnly
    BY <1>1 DEF AcceptCommand, MayAccept, Loops, CommandOnly, OthersOnly, startVars
  <2> QED
    BY <1>0, <2>1, AcceptDelivers
<1>2. ASSUME NEW id \in Ids, CompleteCommand(id) PROVE OthersOnly /\ DeliveryInv'
  <2>1. Complete(id) /\ pc # "done" /\ pc' = pc /\ OthersOnly
    BY <1>2 DEF CompleteCommand, CommandOnly, OthersOnly, startVars
  <2> QED
    BY <1>0, <2>1, CompleteDelivers
<1>3. CASE RefuseCommand
  <2>1. Refused /\ pc' = pc /\ OthersOnly
    BY <1>3 DEF RefuseCommand, CommandOnly, OthersOnly, startVars
  <2>2. DeliveryInv'
    BY <1>0, <2>1 DEF DeliveryInv, Refused, CallerOnly, At, IsThere
  <2> QED
    BY <2>1, <2>2
<1>4. CASE AcceptShutdown
  <2>1. /\ pc = "loop" /\ pc' = pc /\ OthersOnly /\ caller' = At("idle", AnEvent)
        /\ UNCHANGED <<accepted, open, results, abandoned, events, ended, pending>>
    BY <1>4 DEF AcceptShutdown, MayAccept, Loops, CommandOnly, OthersOnly, startVars
  <2>2. DeliveryInv'
    BY <1>0, <2>1 DEF DeliveryInv, At, IsThere
  <2> QED
    BY <2>1, <2>2
<1>5. CASE OwnerStep
  <2>1. DeliveryStep /\ pc' = pc /\ OthersOnly
    BY <1>5 DEF OwnerStep, CommandOnly, OthersOnly, startVars
  <2> QED
    BY <1>0, <2>1, OwnerDelivers
<1>6. CASE Starts \/ CancelStart
  <2>1. UNCHANGED deliveryVars /\ pc' = pc /\ OthersOnly
    BY <1>6 DEF Starts, CancelStart, StartOnly, OthersOnly, loopVars
  <2>2. DeliveryInv'
    BY <1>0, <2>1 DEF DeliveryInv, deliveryVars, IsThere
  <2> QED
    BY <2>1, <2>2
<1>7. CASE DropSession
  <2>1. /\ pc' = pc /\ OthersOnly /\ caller' = At("gone", AnEvent)
        /\ UNCHANGED <<accepted, open, results, abandoned, events, ended, pending>>
    BY <1>7 DEF DropSession, StartOnly, OthersOnly, loopVars
  <2>2. DeliveryInv'
    BY <1>0, <2>1 DEF DeliveryInv, At, IsThere
  <2> QED
    BY <2>1, <2>2
<1>8. CASE UNCHANGED vars
  <2>1. UNCHANGED deliveryVars /\ pc' = pc /\ OthersOnly
    BY <1>8 DEF vars, loopVars, startVars, OthersOnly
  <2>2. DeliveryInv'
    BY <1>0, <2>1 DEF DeliveryInv, deliveryVars, IsThere
  <2> QED
    BY <2>1, <2>2
<1> QED
  BY <1>1, <1>2, <1>3, <1>4, <1>5, <1>6, <1>7, <1>8

-----------------------------------------------------------------------------
(* The inductive invariant, and what it means *)

LEMMA InvStarts == Init => Inv
BY GameStarts, DeliveryStarts, ObserverStarts, StartStarts DEF Inv, GameInv

LEMMA InvStays == Inv /\ [Next]_vars => Inv'
<1>. SUFFICES ASSUME Inv, [Next]_vars PROVE Inv'
  OBVIOUS
<1>1. GameInv /\ DeliveryInv /\ ObserverInv /\ StartInv /\ DeathInv
  BY DEF Inv
<1>2. CASE GameStep
  <2>1. GameInv'
    BY <1>1, <1>2, GameSteps
  <2>2. ObserverInv' /\ StartInv' /\ DeathInv'
    BY <1>1, <1>2, GameVerdict
  <2>3. UNCHANGED deliveryVars /\ pc' = pc
    BY <1>2 DEF GameStep, WriteFrame, SayReady, WriteText, Exit, Raise, GameOnly, loopVars
  <2>4. DeliveryInv'
    BY <1>1, <2>3 DEF DeliveryInv, deliveryVars, IsThere
  <2> QED
    BY <2>1, <2>2, <2>4 DEF Inv
<1>3. CASE LoopStep
  <2>1. GameInv'
    BY <1>1, <1>3, LoopGame
  <2>2. ObserverInv'
    BY <1>1, <1>3, LoopObserver
  <2>3. StartInv' /\ DeathInv'
    BY <1>1, <1>3, LoopVerdict
  <2>4. DeliveryInv'
    BY <1>1, <1>3, LoopDelivers
  <2> QED
    BY <2>1, <2>2, <2>3, <2>4 DEF Inv
<1>4. CASE \/ \E internal \in BOOLEAN : AcceptCommand(internal)
           \/ \E id \in Ids : CompleteCommand(id)
           \/ RefuseCommand \/ AcceptShutdown \/ OwnerStep
           \/ Starts \/ CancelStart \/ DropSession \/ UNCHANGED vars
  <2>1. OthersOnly /\ DeliveryInv'
    BY <1>4, OwnerSteps
  <2>2. GameInv' /\ ObserverInv' /\ StartInv' /\ DeathInv'
    BY <1>1, <2>1, OthersVerdict
  <2> QED
    BY <2>1, <2>2 DEF Inv
<1> QED
  BY <1>2, <1>3, <1>4 DEF Next, Rest

LEMMA InvHolds == Spec => []Inv
BY InvStarts, InvStays, PTL DEF Spec

LEMMA WholeIsShown ==
    ASSUME Inv, NEW event, NEW payload
    PROVE  Whole(event, payload, read) <=> Shown(event, payload, read)
<1>1. IsSequence(stderr) /\ read \in 0 .. Len(stderr)
  BY DEF Inv, GameInv, LinesInv, ObserverInv
<1> QED
  BY <1>1, WholeIs

(***************************************************************************)
(* Every outcome that lies under the lock has the Pending that will take   *)
(* it, only open commands are marked as abandoned, and the owner sleeps    *)
(* only while there is nothing for it (session/mod.rs:83-92, 259-272), for *)
(* any number of commands and any room for events.                         *)
(***************************************************************************)
THEOREM OutcomesAreServed == Spec => []PendingsAreServed
<1>1. Inv => PendingsAreServed
  BY DEF Inv, DeliveryInv, PendingsAreServed
<1> QED
  BY <1>1, InvHolds, PTL

(***************************************************************************)
(* A start has one verdict: Ok after the Ready and, when tracing is        *)
(* observed, the whole marker of an installed layer, in any order of the   *)
(* lines on two pipes; and with another verdict no game is left            *)
(* (observation.rs:63-93, coordinator.rs:451-466, mod.rs:175-201).         *)
(***************************************************************************)
THEOREM StartsAreConfirmed == Spec => []StartIsConfirmed
<1>1. ASSUME Inv PROVE StartIsConfirmed
  <2>1. /\ StartInv /\ (pc = "done" => ~Runs)
        /\ Whole(Layer, "layerOn", read) <=> Shown(Layer, "layerOn", read)
    BY <1>1, WholeIsShown DEF Inv, GameInv, PlaceInv
  <2>2. CASE observation.initialized
    <3>1. ready = <<"ok">> /\ Len(<<"ok">>) = 1 /\ <<"ok">> # <<"ended">>
      BY <2>1, <2>2 DEF StartInv
    <3> QED
      BY <2>1, <2>2, <3>1 DEF StartInv, StartIsConfirmed
  <2>3. CASE ~observation.initialized /\ pc # "done"
    <3>1. ready = << >> /\ Len(<< >>) = 0 /\ << >> # <<"ok">> /\ << >> # <<"ended">>
      BY <2>1, <2>3, EmptySeq DEF StartInv
    <3> QED
      BY <3>1 DEF StartIsConfirmed
  <2>4. CASE ~observation.initialized /\ pc = "done"
    <3>1. PICK error \in {"ended", "launch", "unsupported", "invalidReady"} :
             ready = <<error>> /\ (error = "ended" => cancel)
      BY <2>1, <2>4 DEF StartInv
    <3>2. Len(<<error>>) = 1 /\ <<error>> # <<"ok">> /\ (<<error>> = <<"ended">> => error = "ended")
      OBVIOUS
    <3> QED
      BY <2>1, <2>4, <3>1, <3>2 DEF StartIsConfirmed
  <2> QED
    BY <2>2, <2>3, <2>4
<1> QED
  BY <1>1, InvHolds, PTL

(***************************************************************************)
(* A game that died by itself after its start is one failure: of the panic *)
(* whose marker came through as a whole, or of the exit of the process,    *)
(* whatever was read, damaged or cut off, and before or after the Ready    *)
(* (observer.rs:113-206, observation.rs:105-142).                          *)
(***************************************************************************)
THEOREM DeathsAreReportedOnce == Spec => []DeathIsReportedOnce
<1>1. ASSUME Inv PROVE DeathIsReportedOnce
  <2>1. DeathInv /\ (observer.panicSeen <=> Whole(Report, "panic", read))
    BY <1>1, WholeIsShown DEF Inv, ObserverInv, PanicShown
  <2>2. \A kind : Count(kind) = Times(told, kind)
    BY DEF Count, Times, Tellings
  <2>3. Count("panic") + Count("processExit") <= 1
    BY <2>1, <2>2 DEF DeathInv
  <2> QED
    BY <2>1, <2>2, <2>3 DEF DeathInv, DeathIsReportedOnce
<1> QED
  BY <1>1, InvHolds, PTL

-----------------------------------------------------------------------------
(* Sequences without those of their elements that are gone *)

Kept(rest, x, gone) == IF x \in gone THEN rest ELSE Append(rest, x)

\* What is kept of the first n elements, one after the other.
Keeping(seq, n, gone, h) ==
    h[0] = << >> /\ \A i \in 1 .. n : h[i] = Kept(h[i - 1], seq[i], gone)

\* The sequences that the fold goes through.
LEMMA WithoutFold ==
    ASSUME NEW gone, NEW n \in Nat, NEW seq, DOMAIN seq = 1 .. n
    PROVE  \E h : Keeping(seq, n, gone, h) /\ Without(seq, gone) = h[n]
<1>. DEFINE Is(g, k) == g = [s \in SUBSET (1 .. k) |->
                                IF s = {} THEN << >>
                                ELSE LET x == Max(s) IN Kept(g[s \ {x}], seq[x], gone)]
            Good == {k \in Nat : \E g : Is(g, k)}
            it == CHOOSE g : Is(g, n)
            h == [i \in 0 .. n |-> it[1 .. i]]
<1>1. Without(seq, gone) = it[1 .. n]
  BY DEF Without, Kept, FoldLeft, MapThenFoldSet
<1>2. 0 \in Good
  <2>1. Is([s \in SUBSET (1 .. 0) |-> << >>], 0)
    OBVIOUS
  <2> QED
    BY <2>1
<1>3. ASSUME NEW k \in Nat, k \in Good PROVE k + 1 \in Good
  <2>1. PICK f : Is(f, k)
    BY <1>3
  <2>. DEFINE g == [s \in SUBSET (1 .. k + 1) |->
                       IF k + 1 \in s THEN Kept(f[s \ {k + 1}], seq[k + 1], gone) ELSE f[s]]
  <2>2. ASSUME NEW s \in SUBSET (1 .. k + 1)
        PROVE  g[s] = IF s = {} THEN << >>
                      ELSE LET x == Max(s) IN Kept(g[s \ {x}], seq[x], gone)
    <3>1. CASE k + 1 \in s
      <4>1. Max(s) = k + 1
        BY <3>1, MaxOfRange
      <4>2. s \ {k + 1} \in SUBSET (1 .. k + 1) /\ s # {}
        BY <3>1
      <4>3. g[s \ {k + 1}] = f[s \ {k + 1}]
        BY <4>2
      <4> QED
        BY <3>1, <4>1, <4>2, <4>3
    <3>2. CASE k + 1 \notin s
      <4>1. s \in SUBSET (1 .. k)
        BY <3>2
      <4>2. g[s] = f[s]
        BY <3>2
      <4>3. CASE s = {}
        BY <2>1, <4>1, <4>2, <4>3
      <4>4. CASE s # {}
        <5>. DEFINE x == Max(s)
        <5>1. f[s] = Kept(f[s \ {x}], seq[x], gone)
          BY <2>1, <4>1, <4>4
        <5>2. s \ {x} \in SUBSET (1 .. k + 1) /\ k + 1 \notin s \ {x}
          BY <3>2
        <5>3. g[s \ {x}] = f[s \ {x}]
          BY <5>2
        <5> QED
          BY <4>2, <4>4, <5>1, <5>3
      <4> QED
        BY <4>3, <4>4
    <3> QED
      BY <3>1, <3>2
  <2>3. Is(g, k + 1)
    BY <2>2
  <2>. HIDE DEF g, Is
  <2>4. \E e : Is(e, k + 1)
    BY <2>3
  <2> QED
    BY <2>4
<1>4. Nat \subseteq Good
  <2>. HIDE DEF Good
  <2> QED
    BY <1>2, <1>3, NatsIn
<1>5. Is(it, n)
  <2>. HIDE DEF Is
  <2>1. \E g : Is(g, n)
    BY <1>4
  <2> QED
    BY <2>1
<1>6. \A s \in SUBSET (1 .. n) :
         it[s] = IF s = {} THEN << >> ELSE LET x == Max(s) IN Kept(it[s \ {x}], seq[x], gone)
  <2>. HIDE DEF it
  <2> QED
    BY <1>5
<1>. HIDE DEF it, Is
<1>7. h[0] = << >>
  <2>1. 1 .. 0 = {} /\ {} \in SUBSET (1 .. n) /\ h[0] = it[1 .. 0]
    OBVIOUS
  <2> QED
    BY <1>6, <2>1
<1>8. ASSUME NEW i \in 1 .. n PROVE h[i] = Kept(h[i - 1], seq[i], gone)
  <2>1. 1 .. i \in SUBSET (1 .. n) /\ i \in 1 .. i
    OBVIOUS
  <2>2. (1 .. i) \ {i} = 1 .. i - 1
    OBVIOUS
  <2>3. Max(1 .. i) = i
    <3>1. 1 .. i \subseteq Nat /\ \A y \in 1 .. i : y <= i
      OBVIOUS
    <3> QED
      BY <2>1, <3>1, MaxIs
  <2>4. it[1 .. i] = Kept(it[1 .. i - 1], seq[i], gone)
    BY <1>6, <2>1, <2>2, <2>3
  <2> QED
    BY <2>4
<1>9. h[n] = it[1 .. n]
  OBVIOUS
<1>10. Keeping(seq, n, gone, h)
  BY <1>7, <1>8 DEF Keeping
<1>. HIDE DEF h
<1> QED
  BY <1>1, <1>9, <1>10

\* The fold over a beginning of a sequence is the beginning of the fold.
LEMMA WithoutSame ==
    ASSUME NEW n \in Nat, NEW gone, NEW seq, NEW other, \A i \in 1 .. n : seq[i] = other[i],
           NEW h, Keeping(seq, n, gone, h), NEW g, Keeping(other, n, gone, g)
    PROVE  h[n] = g[n]
<1>. DEFINE S == {k \in Nat : k <= n => h[k] = g[k]}
<1>1. 0 \in S
  BY DEF Keeping
<1>2. ASSUME NEW k \in Nat, k \in S PROVE k + 1 \in S
  <2>1. SUFFICES ASSUME k + 1 <= n PROVE h[k + 1] = g[k + 1]
    OBVIOUS
  <2>2. k + 1 \in 1 .. n /\ (k + 1) - 1 = k /\ h[k] = g[k]
    BY <1>2, <2>1
  <2> QED
    BY <2>2 DEF Keeping
<1>3. Nat \subseteq S
  <2>. HIDE DEF S
  <2> QED
    BY <1>1, <1>2, NatsIn
<1>4. n \in S
  <2>. HIDE DEF S
  <2> QED
    BY <1>3
<1> QED
  BY <1>4

LEMMA WithoutEmpty == ASSUME NEW gone PROVE Without(<< >>, gone) = << >>
<1>1. DOMAIN << >> = 1 .. 0
  OBVIOUS
<1>2. PICK h : Keeping(<< >>, 0, gone, h) /\ Without(<< >>, gone) = h[0]
  BY <1>1, WithoutFold
<1> QED
  BY <1>2 DEF Keeping

LEMMA WithoutAppend ==
    ASSUME NEW T, NEW s \in Seq(T), NEW x \in T, NEW gone
    PROVE  Without(Append(s, x), gone) = Kept(Without(s, gone), x, gone)
<1>. DEFINE n == Len(s)
            t == Append(s, x)
<1>1. /\ n \in Nat /\ DOMAIN s = 1 .. n /\ DOMAIN t = 1 .. n + 1
      /\ t[n + 1] = x /\ \A i \in 1 .. n : t[i] = s[i]
  BY AppendProperties
<1>. HIDE DEF n, t
<1>2. PICK h : Keeping(s, n, gone, h) /\ Without(s, gone) = h[n]
  BY <1>1, WithoutFold
<1>3. PICK g : Keeping(t, n + 1, gone, g) /\ Without(t, gone) = g[n + 1]
  <2>1. n + 1 \in Nat
    BY <1>1
  <2> QED
    BY <1>1, <2>1, WithoutFold
<1>4. Keeping(t, n, gone, g)
  <2>1. \A i \in 1 .. n : i \in 1 .. n + 1
    BY <1>1
  <2> QED
    BY <1>3, <2>1 DEF Keeping
<1>5. h[n] = g[n]
  BY <1>1, <1>2, <1>4, WithoutSame
<1>6. n + 1 \in 1 .. n + 1 /\ (n + 1) - 1 = n
  BY <1>1
<1> QED
  BY <1>1, <1>2, <1>3, <1>5, <1>6 DEF Keeping, t

\* Induction over sequences, with a set for the property.
LEMMA SeqsIn ==
    ASSUME NEW T, NEW S, << >> \in S,
           \A s \in Seq(T) : \A x \in T : s \in S => Append(s, x) \in S
    PROVE  Seq(T) \subseteq S
<1>. SUFFICES ASSUME NEW s \in Seq(T) PROVE s \in S
  OBVIOUS
<1>. DEFINE N == {k \in Nat : k <= Len(s) => SubSeq(s, 1, k) \in S}
<1>1. Len(s) \in Nat /\ DOMAIN s = 1 .. Len(s)
  OBVIOUS
<1>2. 0 \in N
  <2>1. SubSeq(s, 1, 0) = << >>
    BY <1>1
  <2> QED
    BY <2>1
<1>3. ASSUME NEW k \in Nat, k \in N PROVE k + 1 \in N
  <2>1. SUFFICES ASSUME k + 1 <= Len(s) PROVE SubSeq(s, 1, k + 1) \in S
    OBVIOUS
  <2>2. /\ SubSeq(s, 1, k) \in S /\ SubSeq(s, 1, k) \in Seq(T) /\ s[k + 1] \in T
        /\ SubSeq(s, 1, k + 1) = Append(SubSeq(s, 1, k), s[k + 1])
    BY <1>1, <1>3, <2>1
  <2> QED
    BY <2>2
<1>4. Nat \subseteq N
  <2>. HIDE DEF N
  <2> QED
    BY <1>2, <1>3, NatsIn
<1>5. SubSeq(s, 1, Len(s)) \in S
  <2>1. Len(s) \in N
    <3>. HIDE DEF N
    <3> QED
      BY <1>1, <1>4
  <2> QED
    BY <1>1, <2>1
<1>6. SubSeq(s, 1, Len(s)) = s
  BY <1>1
<1> QED
  BY <1>5, <1>6

LEMMA AppendIs ==
    ASSUME NEW T, NEW s \in Seq(T), NEW x \in T
    PROVE  /\ Append(s, x) \in Seq(T) /\ Range(Append(s, x)) = Range(s) \cup {x}
           /\ Range(s) \subseteq T
<1>1. /\ Append(s, x) \in Seq(T) /\ Len(s) \in Nat /\ DOMAIN s = 1 .. Len(s)
      /\ DOMAIN Append(s, x) = 1 .. Len(s) + 1 /\ Append(s, x)[Len(s) + 1] = x
      /\ \A i \in 1 .. Len(s) : Append(s, x)[i] = s[i] /\ s[i] \in T
  BY AppendProperties, ElementOfSeq
<1>. DEFINE t == Append(s, x)
<1>. HIDE DEF t
<1>2. \A i : i \in 1 .. Len(s) + 1 <=> i \in 1 .. Len(s) \/ i = Len(s) + 1
  BY <1>1
<1>3. Range(t) = Range(s) \cup {x}
  BY <1>1, <1>2 DEF Range, t
<1> QED
  BY <1>1, <1>3 DEF t, Range

LEMMA RangeEmpty == Range(<< >>) = {}
<1>1. DOMAIN << >> = {}
  OBVIOUS
<1> QED
  BY <1>1 DEF Range

\* What is kept is what was there and is not gone.
LEMMA WithoutRange ==
    ASSUME NEW T, NEW s \in Seq(T), NEW gone
    PROVE  Without(s, gone) \in Seq(T) /\ Range(Without(s, gone)) = Range(s) \ gone
<1>. DEFINE S == {r \in Seq(T) : /\ Without(r, gone) \in Seq(T)
                                 /\ Range(Without(r, gone)) = Range(r) \ gone}
<1>1. << >> \in S
  BY WithoutEmpty, RangeEmpty, EmptySeq
<1>2. ASSUME NEW r \in Seq(T), NEW x \in T, r \in S PROVE Append(r, x) \in S
  <2>1. /\ Append(r, x) \in Seq(T) /\ Range(Append(r, x)) = Range(r) \cup {x}
        /\ Without(Append(r, x), gone) = Kept(Without(r, gone), x, gone)
    BY AppendIs, WithoutAppend
  <2>2. Without(r, gone) \in Seq(T) /\ Range(Without(r, gone)) = Range(r) \ gone
    BY <1>2
  <2>3. /\ Append(Without(r, gone), x) \in Seq(T)
        /\ Range(Append(Without(r, gone), x)) = Range(Without(r, gone)) \cup {x}
    BY <2>2, AppendIs
  <2> QED
    BY <2>1, <2>2, <2>3 DEF Kept
<1>3. Seq(T) \subseteq S
  <2>. HIDE DEF S
  <2> QED
    BY <1>1, <1>2, SeqsIn
<1> QED
  BY <1>3

LEMMA AppendConcat ==
    ASSUME NEW T, NEW s \in Seq(T), NEW t \in Seq(T), NEW x \in T
    PROVE  /\ s \o t \in Seq(T) /\ s \o Append(t, x) = Append(s \o t, x)
           /\ s \o << >> = s /\ << >> \o s = s
OBVIOUS

LEMMA WithoutConcat ==
    ASSUME NEW T, NEW s \in Seq(T), NEW t \in Seq(T), NEW gone
    PROVE  Without(s \o t, gone) = Without(s, gone) \o Without(t, gone)
<1>. DEFINE S == {r \in Seq(T) : Without(s \o r, gone) = Without(s, gone) \o Without(r, gone)}
<1>0. Without(s, gone) \in Seq(T)
  BY WithoutRange
<1>1. << >> \in S
  <2>1. s \o << >> = s /\ Without(s, gone) \o << >> = Without(s, gone)
    BY <1>0, ConcatEmptySeq
  <2> QED
    BY <2>1, WithoutEmpty, EmptySeq
<1>2. ASSUME NEW r \in Seq(T), NEW x \in T, r \in S PROVE Append(r, x) \in S
  <2>1. /\ Append(r, x) \in Seq(T) /\ s \o r \in Seq(T)
        /\ s \o Append(r, x) = Append(s \o r, x) /\ Without(r, gone) \in Seq(T)
    BY AppendIs, AppendConcat, WithoutRange
  <2>2. /\ Without(Append(s \o r, x), gone) = Kept(Without(s \o r, gone), x, gone)
        /\ Without(Append(r, x), gone) = Kept(Without(r, gone), x, gone)
    BY <2>1, WithoutAppend
  <2>3. Without(s, gone) \o Append(Without(r, gone), x)
           = Append(Without(s, gone) \o Without(r, gone), x)
    BY <1>0, <2>1, AppendConcat
  <2> QED
    BY <1>2, <2>1, <2>2, <2>3 DEF Kept
<1>3. Seq(T) \subseteq S
  <2>. HIDE DEF S
  <2> QED
    BY <1>1, <1>2, SeqsIn
<1> QED
  BY <1>3

\* What is gone twice is gone at once.
LEMMA WithoutTwice ==
    ASSUME NEW T, NEW s \in Seq(T), NEW gone, NEW more
    PROVE  Without(Without(s, gone), more) = Without(s, gone \cup more)
<1>. DEFINE S == {r \in Seq(T) : Without(Without(r, gone), more) = Without(r, gone \cup more)}
<1>1. << >> \in S
  BY WithoutEmpty, EmptySeq
<1>2. ASSUME NEW r \in Seq(T), NEW x \in T, r \in S PROVE Append(r, x) \in S
  <2>1. Append(r, x) \in Seq(T) /\ Without(r, gone) \in Seq(T)
    BY AppendIs, WithoutRange
  <2>2. /\ Without(Append(r, x), gone) = Kept(Without(r, gone), x, gone)
        /\ Without(Append(r, x), gone \cup more) = Kept(Without(r, gone \cup more), x, gone \cup more)
        /\ Without(Append(Without(r, gone), x), more)
              = Kept(Without(Without(r, gone), more), x, more)
    BY <2>1, WithoutAppend
  <2> QED
    BY <1>2, <2>1, <2>2 DEF Kept
<1>3. Seq(T) \subseteq S
  <2>. HIDE DEF S
  <2> QED
    BY <1>1, <1>2, SeqsIn
<1> QED
  BY <1>3

LEMMA WithoutNone ==
    ASSUME NEW T, NEW s \in Seq(T), NEW gone, Range(s) \cap gone = {}
    PROVE  Without(s, gone) = s
<1>. DEFINE S == {r \in Seq(T) : Range(r) \cap gone = {} => Without(r, gone) = r}
<1>1. << >> \in S
  BY WithoutEmpty, EmptySeq
<1>2. ASSUME NEW r \in Seq(T), NEW x \in T, r \in S PROVE Append(r, x) \in S
  <2>1. /\ Append(r, x) \in Seq(T) /\ Range(Append(r, x)) = Range(r) \cup {x}
        /\ Without(Append(r, x), gone) = Kept(Without(r, gone), x, gone)
    BY AppendIs, WithoutAppend
  <2> QED
    BY <1>2, <2>1 DEF Kept
<1>3. Seq(T) \subseteq S
  <2>. HIDE DEF S
  <2> QED
    BY <1>1, <1>2, SeqsIn
<1> QED
  BY <1>3

\* The lines of pieces.
LinesOf(pieces) == [i \in DOMAIN pieces |-> pieces[i].line]
PiecesOver(T) == [event : Nat, line : T]

LEMMA LinesAppend ==
    ASSUME NEW T, NEW p \in Seq(PiecesOver(T)), NEW x \in PiecesOver(T)
    PROVE  /\ LinesOf(p) \in Seq(T) /\ LinesOf(Append(p, x)) = Append(LinesOf(p), x.line)
           /\ Range(LinesOf(p)) = {y.line : y \in Range(p)}
<1>1. /\ Len(p) \in Nat /\ DOMAIN p = 1 .. Len(p)
      /\ DOMAIN Append(p, x) = 1 .. Len(p) + 1 /\ Append(p, x)[Len(p) + 1] = x
      /\ \A i \in 1 .. Len(p) : Append(p, x)[i] = p[i] /\ p[i] \in PiecesOver(T)
  BY AppendProperties, ElementOfSeq
<1>2. \A i \in 1 .. Len(p) : p[i].line \in T
  BY <1>1 DEF PiecesOver
<1>3. x.line \in T
  BY DEF PiecesOver
<1>4. LinesOf(p) = [i \in 1 .. Len(p) |-> p[i].line] /\ LinesOf(p) \in Seq(T)
  BY <1>1, <1>2 DEF LinesOf
<1>5. LinesOf(Append(p, x)) = [i \in 1 .. Len(p) + 1 |-> Append(p, x)[i].line]
  BY <1>1 DEF LinesOf
<1>6. Append(LinesOf(p), x.line) = [i \in 1 .. Len(p) + 1 |-> IF i = Len(p) + 1 THEN x.line ELSE p[i].line]
  BY <1>1, <1>3, <1>4
<1>7. \A i \in 1 .. Len(p) + 1 :
         Append(p, x)[i].line = IF i = Len(p) + 1 THEN x.line ELSE p[i].line
  BY <1>1
<1>8. Range(LinesOf(p)) = {y.line : y \in Range(p)}
  BY <1>1, <1>4 DEF Range
<1> QED
  BY <1>4, <1>5, <1>6, <1>7, <1>8

LEMMA LinesIs ==
    ASSUME NEW T, NEW p \in Seq(PiecesOver(T))
    PROVE  /\ LinesOf(p) \in Seq(T) /\ LinesOf(<< >>) = << >>
           /\ Range(LinesOf(p)) = {y.line : y \in Range(p)}
<1>1. /\ Len(p) \in Nat /\ DOMAIN p = 1 .. Len(p)
      /\ \A i \in 1 .. Len(p) : p[i] \in PiecesOver(T)
  BY ElementOfSeq
<1>2. \A i \in 1 .. Len(p) : p[i].line \in T
  BY <1>1 DEF PiecesOver
<1>3. LinesOf(p) = [i \in 1 .. Len(p) |-> p[i].line] /\ LinesOf(p) \in Seq(T)
  BY <1>1, <1>2 DEF LinesOf
<1>4. LinesOf(<< >>) = << >>
  BY DEF LinesOf
<1>5. Range(LinesOf(p)) = {y.line : y \in Range(p)}
  BY <1>1, <1>3 DEF Range
<1> QED
  BY <1>3, <1>4, <1>5

\* Pieces are gone with their lines.
LEMMA WithoutLines ==
    ASSUME NEW T, NEW p \in Seq(PiecesOver(T)), NEW gone, NEW marks,
           \A x \in Range(p) : x \in gone <=> x.line \in marks
    PROVE  LinesOf(Without(p, gone)) = Without(LinesOf(p), marks)
<1>. DEFINE P == PiecesOver(T)
            S == {r \in Seq(P) : (\A x \in Range(r) : x \in gone <=> x.line \in marks)
                                    => LinesOf(Without(r, gone)) = Without(LinesOf(r), marks)}
<1>. HIDE DEF P
<1>1. << >> \in S
  <2>1. LinesOf(<< >>) = << >>
    BY DEF LinesOf
  <2> QED
    BY <2>1, WithoutEmpty, EmptySeq
<1>2. ASSUME NEW r \in Seq(P), NEW x \in P, r \in S PROVE Append(r, x) \in S
  <2>1. /\ Append(r, x) \in Seq(P) /\ Range(Append(r, x)) = Range(r) \cup {x}
        /\ Without(Append(r, x), gone) = Kept(Without(r, gone), x, gone)
        /\ Without(r, gone) \in Seq(P)
    BY AppendIs, WithoutAppend, WithoutRange
  <2>2. SUFFICES ASSUME \A y \in Range(Append(r, x)) : y \in gone <=> y.line \in marks
                 PROVE  LinesOf(Without(Append(r, x), gone)) = Without(LinesOf(Append(r, x)), marks)
    BY <2>1
  <2>3. LinesOf(Without(r, gone)) = Without(LinesOf(r), marks)
    BY <1>2, <2>1, <2>2
  <2>4. x \in gone <=> x.line \in marks
    BY <2>1, <2>2
  <2>5. /\ LinesOf(r) \in Seq(T) /\ LinesOf(Append(r, x)) = Append(LinesOf(r), x.line)
        /\ LinesOf(Append(Without(r, gone), x)) = Append(LinesOf(Without(r, gone)), x.line)
    BY <2>1, LinesAppend DEF P
  <2>6. x.line \in T
    BY DEF P, PiecesOver
  <2>7. Without(Append(LinesOf(r), x.line), marks) = Kept(Without(LinesOf(r), marks), x.line, marks)
    BY <2>5, <2>6, WithoutAppend
  <2> QED
    BY <2>1, <2>3, <2>4, <2>5, <2>7 DEF Kept
<1>3. Seq(P) \subseteq S
  <2>. HIDE DEF S
  <2> QED
    BY <1>1, <1>2, SeqsIn
<1>4. p \in S
  <2>. HIDE DEF S
  <2> QED
    BY <1>3 DEF P
<1> QED
  BY <1>4

LEMMA RangeConcat ==
    ASSUME NEW T, NEW s \in Seq(T), NEW t \in Seq(T)
    PROVE  s \o t \in Seq(T) /\ Range(s \o t) = Range(s) \cup Range(t)
<1>. DEFINE S == {r \in Seq(T) : Range(s \o r) = Range(s) \cup Range(r)}
<1>1. << >> \in S
  <2>1. s \o << >> = s
    BY ConcatEmptySeq
  <2> QED
    BY <2>1, RangeEmpty, EmptySeq
<1>2. ASSUME NEW r \in Seq(T), NEW x \in T, r \in S PROVE Append(r, x) \in S
  <2>1. /\ s \o r \in Seq(T) /\ s \o Append(r, x) = Append(s \o r, x)
        /\ Append(r, x) \in Seq(T) /\ Range(Append(r, x)) = Range(r) \cup {x}
    BY AppendIs, AppendConcat
  <2>2. Range(Append(s \o r, x)) = Range(s \o r) \cup {x}
    <3>. DEFINE u == s \o r
    <3>1. u \in Seq(T)
      BY <2>1
    <3>. HIDE DEF u
    <3>2. Range(Append(u, x)) = Range(u) \cup {x}
      BY <3>1, AppendIs
    <3> QED
      BY <3>2 DEF u
  <2> QED
    BY <1>2, <2>1, <2>2
<1>3. Seq(T) \subseteq S
  <2>. HIDE DEF S
  <2> QED
    BY <1>1, <1>2, SeqsIn
<1> QED
  BY <1>3, AppendConcat



-----------------------------------------------------------------------------
(* What the observer shows, and what it holds back *)

AllPayloads == {"layerOn", "layerOff", "panic", "tracing", "processExit"}
AllFrames ==
    {FrameLine(event, payload, 2, index, data) :
        event \in {Layer, Report}, payload \in AllPayloads, index \in {1, 2},
        data \in {"good", "undecodable", "altered"}}
AllLines == {Text, BadFrame, Torn} \cup AllFrames

LEMMA FramesAre ==
    /\ \A f : IsFrame(f) => f \in AllFrames
    /\ \A f \in AllFrames : f.kind = "frame" /\ f.event \in Nat \ {0}
    /\ \A line : IsLine(line) => line \in AllLines
    /\ Text \notin AllFrames /\ BadFrame \notin AllFrames /\ Torn \notin AllFrames
<1>1. ASSUME NEW f, IsFrame(f) PROVE f \in AllFrames
  <2>1. /\ f = FrameLine(f.event, f.payload, 2, f.index, f.data)
        /\ f.event \in {Layer, Report} /\ f.index \in {1, 2}
        /\ f.data \in {"good", "undecodable", "altered"}
    BY <1>1 DEF IsFrame
  <2>2. f.payload \in AllPayloads
    BY <1>1 DEF IsFrame, Payloads, LayerStatus, AllPayloads
  <2> QED
    BY <2>1, <2>2 DEF AllFrames
<1>2. ASSUME NEW f \in AllFrames PROVE f.kind = "frame" /\ f.event \in Nat \ {0}
  BY DEF AllFrames, FrameLine, Layer, Report
<1>3. Text.kind # "frame" /\ BadFrame.kind # "frame" /\ Torn.kind # "frame"
  BY DEF Text, BadFrame, Torn
<1> QED
  BY <1>1, <1>2, <1>3 DEF IsLine, AllLines

Pieces == PiecesOver(AllLines)

\* What people see if nothing waits any more.
Shows(o) == o.human \o LinesOf(o.pieces)

\* A piece waits exactly for the marker that its line is a part of.
Waits(pieces, groups) ==
    \A x \in Range(pieces) : x.event = IF x.line \in groups THEN x.line.event ELSE 0

Holds(o) ==
    /\ DOMAIN o = ObserverFields
    /\ o.pieces \in Seq(Pieces) /\ o.human \in Seq(AllLines) /\ o.torn \in BOOLEAN
    /\ o.groups \subseteq AllFrames
    /\ Waits(o.pieces, o.groups)
    /\ o.groups \cap Range(o.human) = {}

LEMMA ShowsIs ==
    ASSUME NEW o, Holds(o)
    PROVE  /\ LinesOf(o.pieces) \in Seq(AllLines) /\ Shows(o) \in Seq(AllLines)
           /\ Range(Shows(o)) = Range(o.human) \cup {x.line : x \in Range(o.pieces)}
<1>1. /\ LinesOf(o.pieces) \in Seq(AllLines)
      /\ Range(LinesOf(o.pieces)) = {x.line : x \in Range(o.pieces)}
      /\ o.human \in Seq(AllLines)
  BY LinesIs DEF Holds, Pieces
<1>2. /\ Shows(o) \in Seq(AllLines)
      /\ Range(Shows(o)) = Range(o.human) \cup Range(LinesOf(o.pieces))
  BY <1>1, RangeConcat DEF Shows
<1> QED
  BY <1>1, <1>2

LEMMA ReleasedIs ==
    ASSUME NEW o, o.pieces \in Seq(Pieces)
    PROVE  /\ Len(o.pieces) \in Nat /\ Released(o) \in 0 .. Len(o.pieces)
           /\ \A i \in 1 .. Released(o) : o.pieces[i].event = 0
<1>1. Len(o.pieces) \in Nat /\ DOMAIN o.pieces = 1 .. Len(o.pieces)
  OBVIOUS
<1>2. CASE Waiting(o) = {}
  <2>1. Released(o) = Len(o.pieces)
    BY <1>2 DEF Released
  <2> QED
    BY <1>1, <1>2, <2>1 DEF Waiting
<1>3. CASE Waiting(o) # {}
  <2>1. Waiting(o) \subseteq 1 .. Len(o.pieces) /\ Waiting(o) \subseteq Nat
    BY <1>1 DEF Waiting
  <2>2. PICK x \in Waiting(o) : \A y \in Waiting(o) : x <= y
    BY <1>3, <2>1, LeastOf
  <2>3. \A z \in Waiting(o) : (\A y \in Waiting(o) : z <= y) => z = x
    BY <2>1, <2>2
  <2>4. Min(Waiting(o)) = x
    BY <2>2, <2>3 DEF Min
  <2>5. Released(o) = x - 1 /\ x \in 1 .. Len(o.pieces)
    BY <1>3, <2>1, <2>4 DEF Released
  <2>6. \A i \in 1 .. x - 1 : i \in DOMAIN o.pieces /\ i \notin Waiting(o)
    BY <1>1, <2>1, <2>2, <2>5
  <2>7. \A i \in 1 .. x - 1 : o.pieces[i].event = 0
    BY <2>6 DEF Waiting
  <2> QED
    BY <1>1, <2>5, <2>7
<1> QED
  BY <1>2, <1>3

LEMMA FlushHolds ==
    ASSUME NEW o, Holds(o)
    PROVE  LET q == Flush(o) IN
           /\ Holds(q) /\ Shows(q) = Shows(o) /\ q.torn = o.torn /\ q.groups = o.groups
           /\ (\A x \in Range(o.pieces) : x.event = 0) => q.pieces = << >>
<1>. DEFINE n == Len(o.pieces)
            k == Released(o)
            q == Flush(o)
            front == [i \in 1 .. k |-> o.pieces[i].line]
            back == SubSeq(o.pieces, k + 1, n)
<1>1. /\ o.pieces \in Seq(Pieces) /\ o.human \in Seq(AllLines) /\ DOMAIN o = ObserverFields
      /\ DOMAIN o.pieces = 1 .. n
  BY DEF Holds
<1>2. n \in Nat /\ k \in 0 .. n /\ \A i \in 1 .. k : o.pieces[i].event = 0
  BY <1>1, ReleasedIs
<1>3. q = [o EXCEPT !.human = o.human \o front, !.pieces = back]
  BY DEF Flush
<1>. HIDE DEF k, front, back, q, n
<1>4. /\ DOMAIN q = ObserverFields /\ q.human = o.human \o front /\ q.pieces = back
      /\ q.groups = o.groups /\ q.torn = o.torn
  BY <1>1, <1>3 DEF ObserverFields
<1>5. ASSUME NEW i \in 1 .. n
      PROVE  /\ o.pieces[i] \in Pieces /\ o.pieces[i].line \in AllLines
             /\ o.pieces[i] \in Range(o.pieces)
  <2>1. o.pieces[i] \in Pieces
    BY <1>1, ElementOfSeq DEF n
  <2>2. o.pieces[i] \in Range(o.pieces)
    BY <1>1 DEF Range
  <2> QED
    BY <2>1, <2>2 DEF Pieces, PiecesOver
<1>6. front \in Seq(AllLines) /\ DOMAIN front = 1 .. k /\ Len(front) = k
  BY <1>2, <1>5 DEF front
<1>7. /\ back \in Seq(Pieces) /\ DOMAIN back = 1 .. n - k /\ Len(back) = n - k
      /\ \A i \in 1 .. n - k : back[i] = o.pieces[k + i]
  BY <1>1, <1>2, <1>5 DEF back, n
<1>8. Range(back) \subseteq Range(o.pieces)
  BY <1>2, <1>5, <1>7 DEF Range
<1>9. \A line \in Range(front) : line \notin o.groups
  <2>1. ASSUME NEW i \in 1 .. k PROVE front[i] \notin o.groups
    <3>1. /\ o.pieces[i].event = 0 /\ o.pieces[i] \in Range(o.pieces)
          /\ front[i] = o.pieces[i].line
      BY <1>2, <1>5 DEF front
    <3> QED
      BY <3>1, FramesAre DEF Holds, Waits
  <2> QED
    BY <1>6, <2>1 DEF Range
<1>10. q.human \in Seq(AllLines) /\ Range(q.human) = Range(o.human) \cup Range(front)
  BY <1>1, <1>4, <1>6, RangeConcat
<1>11. Holds(q)
  BY <1>4, <1>7, <1>8, <1>9, <1>10 DEF Holds, Waits
<1>12. front \o LinesOf(back) = LinesOf(o.pieces)
  <2>1. LinesOf(back) = [i \in 1 .. n - k |-> o.pieces[k + i].line]
    BY <1>7 DEF LinesOf
  <2>2. LinesOf(o.pieces) = [i \in 1 .. n |-> o.pieces[i].line]
    BY <1>1 DEF LinesOf
  <2>3. \A i \in 1 .. n - k : k + i \in 1 .. n
    BY <1>2
  <2>4. LinesOf(back) \in Seq(AllLines) /\ Len(LinesOf(back)) = n - k
    BY <1>2, <1>5, <2>1, <2>3
  <2>5. /\ Len(front \o LinesOf(back)) = n /\ front \o LinesOf(back) \in Seq(AllLines)
        /\ \A i \in 1 .. n : (front \o LinesOf(back))[i] =
              IF i <= k THEN front[i] ELSE LinesOf(back)[i - k]
    <3>. DEFINE b == LinesOf(back)
    <3>1. b \in Seq(AllLines) /\ Len(b) = n - k
      BY <2>4
    <3>. HIDE DEF b
    <3>2. /\ front \o b \in Seq(AllLines) /\ Len(front \o b) = k + (n - k)
          /\ \A i \in 1 .. k + (n - k) : (front \o b)[i] = IF i <= k THEN front[i] ELSE b[i - k]
      <4>1. /\ front \o b \in Seq(AllLines) /\ Len(front \o b) = Len(front) + Len(b)
            /\ \A i \in 1 .. Len(front) + Len(b) : (front \o b)[i] =
                  IF i <= Len(front) THEN front[i] ELSE b[i - Len(front)]
        <5>1. front \in Seq(AllLines)
          BY <1>6
        <5>2. b \in Seq(AllLines)
          BY <3>1
        <5> QED
          BY <5>1, <5>2, ConcatProperties, Zenon
      <4>2. Len(front) = k /\ Len(b) = n - k
        BY <1>6, <3>1
      <4> QED
        BY <4>1, <4>2, Zenon
    <3>3. k + (n - k) = n
      BY <1>2
    <3> QED
      BY <3>2, <3>3 DEF b
  <2>6. \A i \in 1 .. n : (front \o LinesOf(back))[i] = o.pieces[i].line
    <3>1. ASSUME NEW i \in 1 .. n, i <= k PROVE front[i] = o.pieces[i].line
      BY <1>2, <3>1 DEF front
    <3>2. ASSUME NEW i \in 1 .. n, ~(i <= k) PROVE LinesOf(back)[i - k] = o.pieces[i].line
      <4>1. i - k \in 1 .. n - k /\ k + (i - k) = i
        BY <1>2, <3>2
      <4> QED
        BY <2>1, <4>1
    <3> QED
      BY <2>5, <3>1, <3>2
  <2>7. LinesOf(o.pieces) \in Seq(AllLines) /\ Len(LinesOf(o.pieces)) = n
    BY <1>2, <1>5, <2>2
  <2> QED
    BY <2>2, <2>5, <2>6, <2>7, SeqEqual
<1>13. Shows(q) = Shows(o)
  <2>1. LinesOf(back) \in Seq(AllLines)
    BY <1>7, LinesIs DEF Pieces
  <2>2. (o.human \o front) \o LinesOf(back) = o.human \o (front \o LinesOf(back))
    <3>. DEFINE b == LinesOf(back)
                h == o.human
    <3>1. b \in Seq(AllLines) /\ h \in Seq(AllLines)
      BY <1>1, <2>1
    <3>. HIDE DEF b, h
    <3>2. (h \o front) \o b = h \o (front \o b)
      BY <1>6, <3>1, ConcatAssociative
    <3> QED
      BY <3>2 DEF b, h
  <2> QED
    BY <1>4, <1>12, <2>2 DEF Shows
<1>14. ASSUME \A x \in Range(o.pieces) : x.event = 0 PROVE q.pieces = << >>
  <2>1. Waiting(o) = {}
    BY <1>1, <1>5, <1>14 DEF Waiting
  <2>2. k = n
    BY <2>1 DEF Released, k, n
  <2> QED
    BY <1>2, <1>4, <1>7, <2>2
<1> QED
  BY <1>4, <1>11, <1>13, <1>14 DEF q

-----------------------------------------------------------------------------
(* What one line changes of it *)

LEMMA PieceShows ==
    ASSUME NEW o, Holds(o), NEW event \in Nat, NEW line \in AllLines
    PROVE  LET m == Piece(o, event, line) IN
           /\ DOMAIN m = ObserverFields /\ m.groups = o.groups /\ m.human = o.human
           /\ m.torn = o.torn /\ m.pieces \in Seq(Pieces)
           /\ Range(m.pieces) = Range(o.pieces) \cup {[event |-> event, line |-> line]}
           /\ LinesOf(m.pieces) = Append(LinesOf(o.pieces), line)
           /\ Shows(m) = Append(Shows(o), line)
<1>. DEFINE x == [event |-> event, line |-> line]
            new == Append(o.pieces, x)
            m == Piece(o, event, line)
            old == LinesOf(o.pieces)
            h == o.human
<1>1. /\ x \in Pieces /\ x.line = line /\ o.pieces \in Seq(Pieces) /\ h \in Seq(AllLines)
      /\ DOMAIN o = ObserverFields
  BY DEF Pieces, PiecesOver, Holds
<1>2. m = [o EXCEPT !.pieces = new]
  BY DEF Piece
<1>. HIDE DEF x, m
<1>3. new \in Seq(Pieces) /\ Range(new) = Range(o.pieces) \cup {x}
  BY <1>1, AppendIs
<1>4. old \in Seq(AllLines) /\ LinesOf(new) = Append(old, line)
  BY <1>1, LinesAppend DEF Pieces
<1>. HIDE DEF new, old, h
<1>5. h \o Append(old, line) = Append(h \o old, line)
  BY <1>1, <1>4, AppendConcat
<1>6. /\ DOMAIN m = ObserverFields /\ m.groups = o.groups /\ m.human = o.human
      /\ m.torn = o.torn /\ m.pieces = new
  BY <1>1, <1>2 DEF ObserverFields
<1>7. Shows(m) = Append(Shows(o), line)
  BY <1>4, <1>5, <1>6 DEF Shows, h, old
<1> QED
  BY <1>3, <1>4, <1>6, <1>7 DEF m, x, old

LEMMA PlainHolds ==
    ASSUME NEW o, Holds(o), NEW line \in {Text, BadFrame, Torn}
    PROVE  LET m == Piece(o, 0, line) IN
           Holds(m) /\ Shows(m) = Append(Shows(o), line) /\ m.torn = o.torn /\ m.groups = o.groups
<1>. DEFINE m == Piece(o, 0, line)
            x == [event |-> 0, line |-> line]
<1>1. line \in AllLines /\ line \notin AllFrames
  BY FramesAre DEF AllLines
<1>2. /\ DOMAIN m = ObserverFields /\ m.groups = o.groups /\ m.human = o.human
      /\ m.torn = o.torn /\ m.pieces \in Seq(Pieces) /\ Range(m.pieces) = Range(o.pieces) \cup {x}
      /\ Shows(m) = Append(Shows(o), line)
  <2>. DEFINE e == 0
  <2>1. e \in Nat /\ line \in AllLines
    BY <1>1
  <2>. HIDE DEF e
  <2>2. /\ DOMAIN Piece(o, e, line) = ObserverFields /\ Piece(o, e, line).groups = o.groups
        /\ Piece(o, e, line).human = o.human /\ Piece(o, e, line).torn = o.torn
        /\ Piece(o, e, line).pieces \in Seq(Pieces)
        /\ Range(Piece(o, e, line).pieces)
              = Range(o.pieces) \cup {[event |-> e, line |-> line]}
        /\ Shows(Piece(o, e, line)) = Append(Shows(o), line)
    BY <2>1, PieceShows
  <2> QED
    BY <2>2 DEF e
<1>3. x.event = 0 /\ x.line = line
  OBVIOUS
<1>. HIDE DEF m, x
<1>4. Waits(m.pieces, m.groups)
  BY <1>1, <1>2, <1>3 DEF Waits, Holds
<1>5. Holds(m)
  BY <1>2, <1>4 DEF Holds
<1> QED
  BY <1>2, <1>5 DEF m

\* push() flushes what line() gave.
LEMMA PushHolds ==
    ASSUME NEW o, NEW line, NEW tracing, NEW m, NEW notices, Holds(m),
           Line(o, line, tracing) = Result(m, notices)
    PROVE  LET q == Push(o, line, tracing).observer IN
           Holds(q) /\ Shows(q) = Shows(m) /\ q.torn = m.torn
<1>1. Push(o, line, tracing) = [Result(m, notices) EXCEPT !.observer = Flush(m)]
  BY DEF Push, Flushed, Result
<1>2. Push(o, line, tracing).observer = Flush(m)
  BY <1>1 DEF Result
<1> QED
  BY <1>2, FlushHolds

LEMMA PushPlainShows ==
    ASSUME NEW o, Holds(o), NEW line \in {Text, BadFrame, Torn}, NEW tracing
    PROVE  LET q == Push(o, line, tracing).observer IN
           /\ Holds(q)
           /\ line # Torn => Shows(q) = Append(Shows(o), line) /\ q.torn = o.torn
           /\ line = Torn => Shows(q) = Shows(o) /\ q.torn = TRUE
<1>1. Text # Torn /\ BadFrame # Torn
  BY DEF Text, BadFrame, Torn
<1>2. CASE line # Torn
  <2>. DEFINE m == Piece(o, 0, line)
  <2>1. \E notices : Line(o, line, tracing) = Result(m, notices)
    <3>1. CASE line = Text
      BY <3>1 DEF Line, Text
    <3>2. CASE line = BadFrame
      BY <3>2 DEF Line, BadFrame
    <3> QED
      BY <1>2, <3>1, <3>2
  <2>2. Holds(m) /\ Shows(m) = Append(Shows(o), line) /\ m.torn = o.torn
    BY PlainHolds
  <2>. HIDE DEF m
  <2> QED
    BY <1>2, <2>1, <2>2, PushHolds
<1>4. CASE line = Torn
  <2>. DEFINE m == [o EXCEPT !.torn = TRUE]
  <2>1. Line(o, line, tracing) = Result(m, << >>)
    BY <1>4 DEF Line, Torn
  <2>2. /\ DOMAIN m = ObserverFields /\ m.pieces = o.pieces /\ m.human = o.human
        /\ m.groups = o.groups /\ m.torn = TRUE
    BY DEF Holds, ObserverFields
  <2>. HIDE DEF m
  <2>3. Holds(m) /\ Shows(m) = Shows(o)
    BY <2>2 DEF Holds, Shows
  <2> QED
    BY <1>4, <2>1, <2>2, <2>3, PushHolds
<1> QED
  BY <1>2, <1>4

\* One frame of each marker that is not complete, and f is a new one.
IsNew(o, f) ==
    /\ Holds(o) /\ f \in AllFrames /\ f \notin o.groups /\ f \notin Range(Shows(o))
    /\ \A g, h \in o.groups : g.event = h.event => g = h

\* The marker of f leaves the groups; its pieces are among those of o, and f.
LEMMA LeftHolds ==
    ASSUME NEW o, NEW f, IsNew(o, f), NEW m, DOMAIN m = ObserverFields, m.pieces \in Seq(Pieces),
           m.groups = o.groups \ GroupOf(o, f.event), m.human = o.human, m.torn = o.torn,
           \A y \in Range(m.pieces) :
              \/ /\ y \in Range(o.pieces) \cup {[event |-> f.event, line |-> f]}
                 /\ y.event # f.event
              \/ /\ y.event = 0
                 /\ \E x \in Range(o.pieces) \cup {[event |-> f.event, line |-> f]} :
                       x.event = f.event /\ y.line = x.line
    PROVE  Holds(m)
<1>1. f.event \in Nat \ {0} /\ f \in AllFrames
  BY FramesAre DEF IsNew
<1>2. ASSUME NEW y \in Range(m.pieces)
      PROVE  y.event = IF y.line \in m.groups THEN y.line.event ELSE 0
  <2>1. CASE y \in Range(o.pieces) /\ y.event # f.event
    <3>1. y.event = IF y.line \in o.groups THEN y.line.event ELSE 0
      BY <2>1 DEF IsNew, Holds, Waits
    <3> QED
      BY <2>1, <3>1 DEF GroupOf
  <2>2. CASE y = [event |-> f.event, line |-> f] /\ y.event # f.event
    BY <2>2
  <2>3. ASSUME y.event = 0, NEW x \in Range(o.pieces), x.event = f.event, y.line = x.line
        PROVE  y.line \notin m.groups
    <3>1. x.event = IF x.line \in o.groups THEN x.line.event ELSE 0
      BY DEF IsNew, Holds, Waits
    <3>2. x.line.event = f.event
      BY <1>1, <2>3, <3>1
    <3> QED
      BY <2>3, <3>2 DEF GroupOf
  <2>4. ASSUME y.event = 0, y.line = [event |-> f.event, line |-> f].line
        PROVE  y.line \notin m.groups
    BY <2>4 DEF IsNew
  <2> QED
    BY <2>1, <2>2, <2>3, <2>4
<1>3. m.groups \subseteq o.groups
  OBVIOUS
<1> QED
  BY <1>2, <1>3 DEF Holds, Waits, IsNew

LEMMA WithoutGroupIs ==
    ASSUME NEW o, DOMAIN o = ObserverFields, NEW event
    PROVE  LET w == WithoutGroup(o, event) IN
           /\ DOMAIN w = ObserverFields /\ w.groups = o.groups \ GroupOf(o, event)
           /\ w.pieces = o.pieces /\ w.human = o.human /\ w.torn = o.torn
BY DEF WithoutGroup, ObserverFields

\* The pieces of a marker that is none become text where they are.
LEMMA LoosedIs ==
    ASSUME NEW o, NEW f, IsNew(o, f)
    PROVE  LET m == Resolve(WithoutGroup(Piece(o, f.event, f), f.event), f.event, FALSE) IN
           /\ Holds(m) /\ Shows(m) = Append(Shows(o), f) /\ m.torn = o.torn
<1>. DEFINE e == f.event
            held == Piece(o, e, f)
            w == WithoutGroup(held, e)
            p == held.pieces
            x == [event |-> e, line |-> f]
            loose == [i \in DOMAIN p |-> IF p[i].event = e THEN [p[i] EXCEPT !.event = 0] ELSE p[i]]
            m == Resolve(w, e, FALSE)
<1>1. e \in Nat \ {0} /\ f \in AllLines /\ Holds(o)
  BY FramesAre DEF IsNew, AllLines
<1>. HIDE DEF e
<1>2. /\ DOMAIN held = ObserverFields /\ held.groups = o.groups /\ held.human = o.human
      /\ held.torn = o.torn /\ p \in Seq(Pieces) /\ Range(p) = Range(o.pieces) \cup {x}
      /\ Shows(held) = Append(Shows(o), f)
  BY <1>1, PieceShows
<1>. HIDE DEF held
<1>3. /\ DOMAIN w = ObserverFields /\ w.groups = o.groups \ GroupOf(o, e)
      /\ w.pieces = p /\ w.human = o.human /\ w.torn = o.torn
  <2>1. GroupOf(held, e) = GroupOf(o, e)
    BY <1>2, GroupSame
  <2> QED
    BY <1>2, <2>1, WithoutGroupIs
<1>. HIDE DEF w, p
<1>4. m = [w EXCEPT !.pieces = loose]
  BY <1>3 DEF Resolve
<1>5. /\ DOMAIN p = 1 .. Len(p) /\ Len(p) \in Nat
      /\ \A i \in 1 .. Len(p) : p[i] \in Pieces /\ p[i] \in Range(p)
  <2>1. DOMAIN p = 1 .. Len(p) /\ Len(p) \in Nat
    BY <1>2
  <2>2. \A i \in 1 .. Len(p) : p[i] \in Pieces
    BY <1>2, ElementOfSeq
  <2> QED
    BY <2>1, <2>2 DEF Range
<1>6. ASSUME NEW i \in 1 .. Len(p)
      PROVE  /\ loose[i] \in Pieces /\ loose[i].line = p[i].line
             /\ p[i].event # e => loose[i] = p[i]
             /\ p[i].event = e => loose[i].event = 0
  <2>1. p[i] = [event |-> p[i].event, line |-> p[i].line] /\ p[i].line \in AllLines
    BY <1>5 DEF Pieces, PiecesOver
  <2>2. p[i].event = e => loose[i] = [event |-> 0, line |-> p[i].line]
    BY <1>5, <2>1
  <2>3. p[i].event # e => loose[i] = p[i]
    BY <1>5
  <2> QED
    BY <1>5, <2>1, <2>2, <2>3 DEF Pieces, PiecesOver
<1>7. DOMAIN loose = 1 .. Len(p)
  BY <1>5
<1>. HIDE DEF loose, m
<1>8. loose \in Seq(Pieces)
  BY <1>5, <1>6, <1>7 DEF loose
<1>9. /\ DOMAIN m = ObserverFields /\ m.pieces = loose /\ m.groups = o.groups \ GroupOf(o, e)
      /\ m.human = o.human /\ m.torn = o.torn
  BY <1>3, <1>4 DEF ObserverFields
<1>10. \A y \in Range(loose) : \E i \in 1 .. Len(p) : y = loose[i]
  BY <1>7 DEF Range
<1>11. \A y \in Range(m.pieces) :
              \/ y \in Range(o.pieces) \cup {x} /\ y.event # e
              \/ /\ y.event = 0
                 /\ \E z \in Range(o.pieces) \cup {x} : z.event = e /\ y.line = z.line
  BY <1>2, <1>5, <1>6, <1>9, <1>10
<1>12. Holds(m)
  BY <1>8, <1>9, <1>11, LeftHolds DEF e, x
<1>13. LinesOf(loose) = LinesOf(p)
  BY <1>5, <1>6, <1>7 DEF LinesOf
<1>14. Shows(m) = Shows(held)
  BY <1>2, <1>9, <1>13 DEF Shows, p
<1> QED
  BY <1>2, <1>9, <1>12, <1>14 DEF m, w, held, e

\* The pieces of a valid marker vanish, with their lines.
LEMMA RemovedIs ==
    ASSUME NEW o, NEW f, IsNew(o, f), NEW g \in o.groups, g.event = f.event
    PROVE  LET m == Resolve(WithoutGroup(Piece(o, f.event, f), f.event), f.event, TRUE) IN
           /\ Holds(m) /\ Shows(m) = Without(Shows(o), {f, g}) /\ m.torn = o.torn
<1>. DEFINE e == f.event
            held == Piece(o, e, f)
            w == WithoutGroup(held, e)
            p == held.pieces
            x == [event |-> e, line |-> f]
            gone == {piece \in Range(p) : piece.event = e}
            left == Without(p, gone)
            m == Resolve(w, e, TRUE)
            human == o.human
            marks == {f, g}
<1>1. e \in Nat \ {0} /\ f \in AllLines /\ Holds(o) /\ x.event = e /\ x.line = f
  BY FramesAre DEF IsNew, AllLines
<1>. HIDE DEF e, x
<1>2. /\ DOMAIN held = ObserverFields /\ held.groups = o.groups /\ held.human = o.human
      /\ held.torn = o.torn /\ p \in Seq(Pieces) /\ Range(p) = Range(o.pieces) \cup {x}
      /\ Shows(held) = Append(Shows(o), f)
  BY <1>1, PieceShows DEF x
<1>. HIDE DEF held
<1>3. /\ DOMAIN w = ObserverFields /\ w.groups = o.groups \ GroupOf(o, e)
      /\ w.pieces = p /\ w.human = o.human /\ w.torn = o.torn
  <2>1. GroupOf(held, e) = GroupOf(o, e)
    BY <1>2, GroupSame
  <2> QED
    BY <1>2, <2>1, WithoutGroupIs
<1>. HIDE DEF w, p
<1>4. m = [w EXCEPT !.pieces = left]
  BY <1>3 DEF Resolve
<1>. HIDE DEF left, m
<1>5. left \in Seq(Pieces) /\ Range(left) = Range(p) \ gone
  BY <1>2, WithoutRange DEF left
<1>6. /\ DOMAIN m = ObserverFields /\ m.pieces = left /\ m.groups = o.groups \ GroupOf(o, e)
      /\ m.human = o.human /\ m.torn = o.torn
  BY <1>3, <1>4 DEF ObserverFields
<1>7. \A y \in Range(m.pieces) : y \in Range(o.pieces) \cup {x} /\ y.event # e
  BY <1>2, <1>5, <1>6
<1>8. Holds(m)
  BY <1>5, <1>6, <1>7, LeftHolds DEF e, x
<1>9. ASSUME NEW y \in Range(p) PROVE y \in gone <=> y.line \in marks
  <2>1. CASE y = x
    BY <1>1, <2>1
  <2>2. CASE y \in Range(o.pieces)
    <3>1. y.event = IF y.line \in o.groups THEN y.line.event ELSE 0
      BY <1>1, <2>2 DEF Holds, Waits
    <3>2. y.line # f
      <4>1. y.line \in Range(Shows(o))
        BY <1>1, <2>2, ShowsIs
      <4> QED
        BY <4>1 DEF IsNew
    <3>3. y.event = e => y.line \in o.groups /\ y.line.event = e
      BY <1>1, <3>1
    <3>4. y.line \in o.groups /\ y.line.event = e => y.line = g
      BY DEF IsNew, e
    <3>5. y.line = g => y.event = e
      BY <3>1 DEF e
    <3> QED
      BY <3>2, <3>3, <3>4, <3>5
  <2> QED
    BY <1>2, <2>1, <2>2
<1>. HIDE DEF gone
<1>10. LinesOf(left) = Without(LinesOf(p), marks)
  <2>. HIDE DEF marks
  <2>1. p \in Seq(PiecesOver(AllLines))
    BY <1>2 DEF Pieces
  <2>2. \A y \in Range(p) : y \in gone <=> y.line \in marks
    BY <1>9
  <2> QED
    BY <2>1, <2>2, WithoutLines DEF left
<1>11. human \in Seq(AllLines) /\ Without(human, marks) = human
  <2>1. human \in Seq(AllLines) /\ f \notin Range(human) /\ g \notin Range(human)
    BY <1>1, ShowsIs DEF IsNew, Holds
  <2>2. Range(human) \cap marks = {}
    BY <2>1
  <2>. HIDE DEF human, marks
  <2> QED
    BY <2>1, <2>2, WithoutNone
<1>12. Shows(m) = Without(Shows(held), marks)
  <2>. DEFINE lines == LinesOf(p)
  <2>1. lines \in Seq(AllLines)
    BY <1>2, LinesIs DEF Pieces
  <2>. HIDE DEF lines, human, marks
  <2>2. Without(human \o lines, marks) = Without(human, marks) \o Without(lines, marks)
    <3>1. human \in Seq(AllLines)
      BY <1>11
    <3> QED
      BY <2>1, <3>1, WithoutConcat
  <2> QED
    BY <1>2, <1>6, <1>10, <1>11, <2>2 DEF Shows, lines, human, p
<1>13. Without(Append(Shows(o), f), marks) = Without(Shows(o), marks)
  <2>. DEFINE s == Shows(o)
  <2>1. s \in Seq(AllLines) /\ f \in marks
    BY <1>1, ShowsIs
  <2>. HIDE DEF s, marks
  <2>2. Without(Append(s, f), marks) = Kept(Without(s, marks), f, marks)
    BY <1>1, <2>1, WithoutAppend
  <2> QED
    BY <2>1, <2>2 DEF Kept, s
<1>14. Shows(m) = Without(Shows(o), marks) /\ m.torn = o.torn
  <2>. HIDE DEF marks
  <2> QED
    BY <1>2, <1>6, <1>12, <1>13
<1> QED
  BY <1>8, <1>14 DEF m, w, held, e

LEMMA PanicApart ==
    ASSUME NEW o, Holds(o), NEW seen
    PROVE  LET m == [o EXCEPT !.panicSeen = seen] IN
           Holds(m) /\ Shows(m) = Shows(o) /\ m.torn = o.torn
<1>. DEFINE m == [o EXCEPT !.panicSeen = seen]
<1>1. /\ DOMAIN m = ObserverFields /\ m.pieces = o.pieces /\ m.human = o.human
      /\ m.groups = o.groups /\ m.torn = o.torn
  BY DEF Holds, ObserverFields
<1>. HIDE DEF m
<1> QED
  BY <1>1 DEF Holds, Shows, m

\* A frame: of a valid marker, only what was shown before it stays, without the other frame.
FrameShows(o, f, q) ==
    /\ Holds(q) /\ q.torn = o.torn
    /\ \/ \E g \in o.groups : /\ g.event = f.event /\ g.index # f.index /\ IsValid(f, g)
                              /\ Shows(q) = Without(Shows(o), {f, g})
       \/ /\ \A g \in o.groups : ~(g.event = f.event /\ g.index # f.index /\ IsValid(f, g))
          /\ Shows(q) = Append(Shows(o), f)

LEMMA PushFrameShows ==
    ASSUME NEW o, NEW f, IsNew(o, f), Groups(o), IsFrame(f), NEW tracing
    PROVE  FrameShows(o, f, Push(o, f, tracing).observer)
<1>. DEFINE event == f.event
            held == Piece(o, event, f)
            group == GroupOf(o, event) \cup {f}
            r == Push(o, f, tracing)
<1>1. Line(o, f, tracing) = Frame(o, f, tracing)
  BY DEF Line, IsFrame
<1>2. /\ DOMAIN held = ObserverFields /\ held.groups = o.groups /\ held.human = o.human
      /\ held.torn = o.torn /\ held.pieces \in Seq(Pieces)
      /\ Range(held.pieces) = Range(o.pieces) \cup {[event |-> event, line |-> f]}
      /\ Shows(held) = Append(Shows(o), f)
  <2>1. event \in Nat /\ f \in AllLines /\ Holds(o)
    BY FramesAre DEF IsNew, AllLines
  <2>. HIDE DEF event
  <2> QED
    BY <2>1, PieceShows
<1>3. GroupOf(held, event) = GroupOf(o, event)
  BY <1>2, GroupSame
<1>4. CASE ~IsConsistent(o, f)
  <2>. DEFINE m == Resolve(WithoutGroup(held, event), event, FALSE)
  <2>1. Line(o, f, tracing) = Result(m, <<Invalid>>)
    <3>. HIDE DEF held
    <3> QED
      BY <1>1, <1>4 DEF Frame, held
  <2>2. Holds(m) /\ Shows(m) = Append(Shows(o), f) /\ m.torn = o.torn
    BY LoosedIs
  <2>. HIDE DEF m
  <2>3. Holds(r.observer) /\ Shows(r.observer) = Shows(m) /\ r.observer.torn = m.torn
    BY <2>1, <2>2, PushHolds
  <2>4. \A g \in o.groups : ~(g.event = f.event /\ g.index # f.index /\ IsValid(f, g))
    BY <1>4 DEF IsConsistent, GroupOf, IsFrame, Groups, IsValid
  <2> QED
    BY <2>2, <2>3, <2>4 DEF FrameShows
<1>5. CASE IsConsistent(o, f) /\ GroupOf(o, event) = {}
  <2>. DEFINE m == [held EXCEPT !.groups = @ \cup {f}]
  <2>1. Cardinality(group) = 1
    BY <1>5, FS_Singleton
  <2>2. Cardinality(group) < f.count
    BY <2>1 DEF IsFrame
  <2>3. Line(o, f, tracing) = Result(m, << >>)
    <3>. HIDE DEF held
    <3> QED
      BY <1>1, <1>3, <1>5, <2>2 DEF Frame, held
  <2>4. /\ DOMAIN m = ObserverFields /\ m.groups = o.groups \cup {f} /\ m.human = o.human
        /\ m.torn = o.torn /\ m.pieces = held.pieces
    <3>. HIDE DEF held
    <3> QED
      BY <1>2 DEF ObserverFields
  <2>. HIDE DEF held
  <2>. HIDE DEF m
  <2>5. Shows(m) = Append(Shows(o), f)
    BY <1>2, <2>4 DEF Shows
  <2>6. Holds(o) /\ f \in AllFrames /\ f \notin Range(o.human)
        /\ \A x \in Range(o.pieces) : x.line # f
    BY ShowsIs DEF IsNew
  <2>7. Waits(m.pieces, m.groups)
    <3>1. ASSUME NEW x \in Range(m.pieces)
          PROVE  x.event = IF x.line \in m.groups THEN x.line.event ELSE 0
      <4>1. CASE x = [event |-> event, line |-> f]
        BY <2>4, <4>1
      <4>2. CASE x \in Range(o.pieces)
        BY <2>4, <2>6, <4>2 DEF Holds, Waits
      <4> QED
        BY <1>2, <2>4, <4>1, <4>2
    <3> QED
      BY <3>1 DEF Waits
  <2>8. Holds(m)
    BY <1>2, <2>4, <2>6, <2>7 DEF Holds
  <2>9. Holds(r.observer) /\ Shows(r.observer) = Shows(m) /\ r.observer.torn = m.torn
    BY <2>3, <2>8, PushHolds
  <2>10. \A g \in o.groups : g.event # f.event
    BY <1>5 DEF GroupOf
  <2> QED
    BY <2>4, <2>5, <2>9, <2>10 DEF FrameShows
<1>6. CASE IsConsistent(o, f) /\ GroupOf(o, event) # {}
  <2>1. PICK g \in GroupOf(o, event) : TRUE
    BY <1>6
  <2>2. g \in o.groups /\ g.event = event /\ g.index # f.index
    BY <1>6, <2>1 DEF GroupOf, IsConsistent
  <2>3. group = {f, g} /\ \A h \in o.groups : h.event = f.event => h = g
    BY <2>1, <2>2 DEF Groups, GroupOf
  <2>4. Cardinality(group) = 2
    <3>1. f # g
      BY <2>2
    <3>2. IsFiniteSet({g}) /\ Cardinality({g}) = 1
      BY FS_Singleton
    <3>3. Cardinality({g} \cup {f}) = 1 + 1
      BY <3>1, <3>2, FS_AddElement
    <3>4. {g} \cup {f} = {f, g}
      OBVIOUS
    <3> QED
      BY <2>3, <3>3, <3>4
  <2>5. ~(Cardinality(group) < f.count)
    BY <2>4 DEF IsFrame
  <2>6. Line(o, f, tracing) = Reassembled(held, {f, g}, tracing)
    <3>. HIDE DEF held
    <3> QED
      BY <1>1, <1>3, <1>6, <2>3, <2>5 DEF Frame, held
  <2>. DEFINE frame == CHOOSE x \in {f, g} : TRUE
              valid == IsPayload({f, g})
              rest == Resolve(WithoutGroup(held, frame.event), frame.event, valid)
              m == [rest EXCEPT !.panicSeen = @ \/ (valid /\ frame.payload = "panic")]
  <2>7. \E notices : Line(o, f, tracing) = Result(m, notices)
    BY <2>6 DEF Reassembled
  <2>8. frame.event = event
    <3>1. frame \in {f, g}
      OBVIOUS
    <3> QED
      BY <2>2, <3>1
  <2>9. valid <=> IsValid(f, g)
    BY DEF IsPayload, IsValid
  <2>10. valid \in BOOLEAN
    BY DEF IsPayload
  <2>. HIDE DEF frame, valid
  <2>11. /\ Holds(rest) /\ rest.torn = o.torn
         /\ valid => Shows(rest) = Without(Shows(o), {f, g})
         /\ ~valid => Shows(rest) = Append(Shows(o), f)
    <3>1. CASE valid
      <4>1. rest = Resolve(WithoutGroup(held, event), event, TRUE)
        BY <2>8, <2>10, <3>1
      <4>2. g \in o.groups /\ g.event = f.event
        BY <2>2
      <4>3. /\ Holds(Resolve(WithoutGroup(held, event), event, TRUE))
            /\ Shows(Resolve(WithoutGroup(held, event), event, TRUE)) = Without(Shows(o), {f, g})
            /\ Resolve(WithoutGroup(held, event), event, TRUE).torn = o.torn
        BY <4>2, RemovedIs
      <4> QED
        BY <3>1, <4>1, <4>3
    <3>2. CASE ~valid
      <4>1. rest = Resolve(WithoutGroup(held, event), event, FALSE)
        BY <2>8, <2>10, <3>2
      <4> QED
        BY <3>2, <4>1, LoosedIs
    <3> QED
      BY <3>1, <3>2
  <2>. HIDE DEF rest
  <2>12. Holds(m) /\ Shows(m) = Shows(rest) /\ m.torn = rest.torn
    BY <2>11, PanicApart
  <2>. HIDE DEF m
  <2>13. Holds(r.observer) /\ Shows(r.observer) = Shows(m) /\ r.observer.torn = m.torn
    BY <2>7, <2>12, PushHolds
  <2>. HIDE DEF r
  <2>14. FrameShows(o, f, r.observer)
    <3>1. CASE valid
      BY <2>2, <2>9, <2>11, <2>12, <2>13, <3>1 DEF FrameShows
    <3>2. CASE ~valid
      BY <2>3, <2>9, <2>11, <2>12, <2>13, <3>2 DEF FrameShows
    <3> QED
      BY <3>1, <3>2
  <2> QED
    BY <2>14 DEF r
<1> QED
  BY <1>4, <1>5, <1>6

\* With the part of a marker that the end of the pipe cut off.
ShowsAll(o) == Shows(o) \o (IF o.torn THEN <<Torn>> ELSE << >>)

LEMMA ShowsAllIs ==
    ASSUME NEW o, Holds(o)
    PROVE  /\ Shows(o) \in Seq(AllLines) /\ ShowsAll(o) \in Seq(AllLines)
           /\ o.torn => ShowsAll(o) = Append(Shows(o), Torn)
           /\ ~o.torn => ShowsAll(o) = Shows(o)
           /\ o.pieces = << >> => Shows(o) = o.human
<1>. DEFINE s == Shows(o)
            h == o.human
<1>1. s \in Seq(AllLines) /\ Torn \in AllLines /\ h \in Seq(AllLines)
  BY ShowsIs DEF AllLines, Holds
<1>2. o.pieces = << >> => s = h \o << >>
  BY LinesIs DEF Shows, Holds, Pieces
<1>. HIDE DEF s, h
<1>3. s \o << >> = s /\ s \o <<Torn>> = Append(s, Torn) /\ h \o << >> = h
      /\ Append(s, Torn) \in Seq(AllLines)
  BY <1>1
<1> QED
  BY <1>1, <1>2, <1>3 DEF ShowsAll, s, h

\* finish(): nothing waits any more, and all is shown.
LEMMA FinishShows ==
    ASSUME NEW o, Holds(o)
    PROVE  LET q == Finish(o).observer IN
           /\ Holds(q) /\ q.pieces = << >> /\ q.torn = FALSE
           /\ Shows(q) = ShowsAll(o)
<1>. DEFINE waiting == {frame.event : frame \in o.groups}
            calm == [o EXCEPT !.torn = FALSE]
            ended0 == IF o.torn THEN Piece(calm, 0, Torn) ELSE o
            count == Cardinality(waiting) + (IF o.torn THEN 1 ELSE 0)
            p == ended0.pieces
            loose == [i \in DOMAIN p |-> [p[i] EXCEPT !.event = 0]]
            m == [ended0 EXCEPT !.groups = {}, !.pieces = loose]
            notices == [i \in 1 .. count |-> Invalid]
<1>1. Finish(o) = Flushed(Result(m, notices))
  BY DEF Finish
<1>2. Holds(ended0) /\ Shows(ended0) = ShowsAll(o) /\ ended0.torn = FALSE
  <2>1. CASE o.torn
    <3>1. /\ DOMAIN calm = ObserverFields /\ calm.torn = FALSE /\ calm.pieces = o.pieces
          /\ calm.human = o.human /\ calm.groups = o.groups
      BY DEF Holds, ObserverFields
    <3>. HIDE DEF calm
    <3>2. Holds(calm) /\ Shows(calm) = Shows(o)
      BY <3>1 DEF Holds, Shows
    <3>3. LET n == Piece(calm, 0, Torn) IN
          Holds(n) /\ Shows(n) = Append(Shows(calm), Torn) /\ n.torn = calm.torn
      BY <3>2, PlainHolds
    <3>4. ended0 = Piece(calm, 0, Torn)
      BY <2>1
    <3>. HIDE DEF ended0
    <3> QED
      BY <2>1, <3>1, <3>2, <3>3, <3>4, ShowsAllIs
  <2>2. CASE ~o.torn
    <3>1. ended0 = o /\ o.torn = FALSE
      BY <2>2 DEF Holds
    <3>. HIDE DEF ended0
    <3> QED
      BY <2>2, <3>1, ShowsAllIs
  <2> QED
    BY <2>1, <2>2
<1>. HIDE DEF ended0, notices
<1>3. /\ p \in Seq(Pieces) /\ DOMAIN p = 1 .. Len(p) /\ Len(p) \in Nat
      /\ \A i \in 1 .. Len(p) : p[i] \in Pieces
  <2>1. p \in Seq(Pieces)
    BY <1>2 DEF Holds
  <2>. HIDE DEF p
  <2> QED
    BY <2>1, ElementOfSeq
<1>4. /\ DOMAIN m = ObserverFields /\ m.groups = {} /\ m.human = ended0.human
      /\ m.torn = FALSE /\ m.pieces = loose
  <2>. HIDE DEF loose
  <2> QED
    BY <1>2 DEF Holds, ObserverFields
<1>. HIDE DEF m, p
<1>5. ASSUME NEW i \in 1 .. Len(p)
      PROVE  loose[i] \in Pieces /\ loose[i].line = p[i].line /\ loose[i].event = 0
  <2>1. p[i] = [event |-> p[i].event, line |-> p[i].line] /\ p[i].line \in AllLines
    BY <1>3 DEF Pieces, PiecesOver
  <2>2. loose[i] = [event |-> 0, line |-> p[i].line]
    BY <1>3, <2>1
  <2> QED
    BY <2>1, <2>2 DEF Pieces, PiecesOver
<1>6. DOMAIN loose = 1 .. Len(p)
  BY <1>3
<1>7. LinesOf(loose) = LinesOf(p)
  BY <1>3, <1>5, <1>6 DEF LinesOf
<1>8. loose \in Seq(Pieces) /\ \A x \in Range(loose) : x.event = 0
  <2>1. loose \in Seq(Pieces)
    BY <1>3, <1>5
  <2> QED
    BY <1>5, <1>6, <2>1 DEF Range
<1>. HIDE DEF loose
<1>9. Waits(m.pieces, m.groups)
  BY <1>4, <1>8 DEF Waits
<1>10. Holds(m)
  BY <1>2, <1>4, <1>8, <1>9 DEF Holds
<1>11. Shows(m) = Shows(ended0)
  BY <1>4, <1>7 DEF Shows, p
<1>12. Finish(o).observer = Flush(m)
  <2>1. Finish(o) = [Result(m, notices) EXCEPT !.observer = Flush(m)]
    BY <1>1 DEF Flushed, Result
  <2> QED
    BY <2>1 DEF Result
<1>13. /\ Holds(Flush(m)) /\ Shows(Flush(m)) = Shows(m) /\ Flush(m).torn = m.torn
       /\ Flush(m).pieces = << >>
  BY <1>4, <1>8, <1>10, FlushHolds
<1> QED
  BY <1>2, <1>4, <1>11, <1>12, <1>13

-----------------------------------------------------------------------------
(* The markers among the lines that were read *)

MarkersAt(n) ==
    {line \in Range(SubSeq(stderr, 1, n)) :
        line.kind = "frame" /\ line.payload # "processExit" /\ Shown(line.event, line.payload, n)}

LEMMA ReadIs ==
    ASSUME LinesInv, Len(stderr) \in Nat, NEW n \in Nat, n <= Len(stderr)
    PROVE  /\ SubSeq(stderr, 1, n) \in Seq(AllLines)
           /\ Range(SubSeq(stderr, 1, n)) = {stderr[i] : i \in 1 .. n}
           /\ n + 1 <= Len(stderr) =>
                 /\ SubSeq(stderr, 1, n + 1) = Append(SubSeq(stderr, 1, n), stderr[n + 1])
                 /\ stderr[n + 1] \in AllLines
<1>1. /\ stderr \in Seq(Range(stderr)) /\ DOMAIN stderr = 1 .. Len(stderr)
      /\ \A i \in 1 .. Len(stderr) : IsLine(stderr[i])
  BY DEF LinesInv, IsSequence
<1>2. \A i \in 1 .. Len(stderr) : stderr[i] \in AllLines
  BY <1>1, FramesAre
<1>3. stderr \in Seq(AllLines)
  BY <1>1, <1>2
<1>4. SubSeq(stderr, 1, n) = [i \in 1 .. n |-> stderr[i]]
  BY <1>3
<1>5. SubSeq(stderr, 1, n) \in Seq(AllLines)
  BY <1>2, <1>4
<1>6. Range(SubSeq(stderr, 1, n)) = {stderr[i] : i \in 1 .. n}
  <2>. DEFINE t == SubSeq(stderr, 1, n)
  <2>1. DOMAIN t = 1 .. n /\ \A i \in 1 .. n : t[i] = stderr[i]
    BY <1>4
  <2>. HIDE DEF t
  <2> QED
    BY <2>1 DEF Range, t
<1>7. n + 1 <= Len(stderr) =>
         SubSeq(stderr, 1, n + 1) = Append(SubSeq(stderr, 1, n), stderr[n + 1])
  <2>. SUFFICES ASSUME n + 1 <= Len(stderr)
                PROVE  SubSeq(stderr, 1, n + 1) = Append(SubSeq(stderr, 1, n), stderr[n + 1])
    OBVIOUS
  <2>. DEFINE t == SubSeq(stderr, 1, n)
              u == SubSeq(stderr, 1, n + 1)
  <2>1. u = [i \in 1 .. n + 1 |-> stderr[i]]
    BY <1>3
  <2>2. t \in Seq(AllLines) /\ Len(t) = n /\ \A i \in 1 .. n : t[i] = stderr[i]
    BY <1>4, <1>5
  <2>3. stderr[n + 1] \in AllLines
    BY <1>2
  <2>. HIDE DEF t, u
  <2>4. Append(t, stderr[n + 1]) = [i \in 1 .. n + 1 |-> IF i = n + 1 THEN stderr[n + 1] ELSE t[i]]
    BY <2>2, <2>3
  <2> QED
    BY <2>1, <2>2, <2>4 DEF t, u
<1> QED
  BY <1>2, <1>5, <1>6, <1>7

LEMMA ShownMore ==
    ASSUME NEW n \in Nat, NEW event, NEW payload, Shown(event, payload, n)
    PROVE  Shown(event, payload, n + 1)
BY DEF Shown

\* The line completes no valid marker.
EndsValid(o, line) ==
    /\ line.kind = "frame"
    /\ \E g \in o.groups : g.event = line.event /\ g.index # line.index /\ IsValid(line, g)

LEMMA NothingNew ==
    ASSUME LinesInv, NEW n \in Nat, n + 1 <= Len(stderr), Len(stderr) \in Nat, NEW o, SeenBy(o, n),
           ~EndsValid(o, stderr[n + 1]), NEW event, NEW payload, payload # "processExit",
           Shown(event, payload, n + 1)
    PROVE  Shown(event, payload, n)
<1>. DEFINE f == stderr[n + 1]
<1>0. \A i : i \in 1 .. n + 1 <=> i \in 1 .. n \/ i = n + 1
  OBVIOUS
<1>1. DOMAIN stderr = 1 .. Len(stderr) /\ n + 1 \in DOMAIN stderr
      /\ \A i \in DOMAIN stderr : FrameAt(i) => IsFrame(stderr[i])
  BY DEF LinesInv, IsSequence, FrameAt, IsLine, Text, BadFrame, Torn
<1>2. CASE ~(f.kind = "frame" /\ f.event = event)
  BY <1>2, ShownNext
<1>3. CASE f.kind = "frame" /\ f.event = event
  <2>1. FrameAt(n + 1) /\ IsFrame(f) /\ f.index \in {1, 2}
    BY <1>1, <1>3 DEF FrameAt, IsFrame
  <2>2. PICK index \in {1, 2} : index # f.index
    BY <2>1
  <2>3. PICK j \in 1 .. n + 1 : stderr[j] = FrameLine(event, payload, 2, index, "good")
    BY DEF Shown
  <2>4. /\ FrameAt(j) /\ stderr[j].event = event /\ stderr[j].data = "good"
        /\ stderr[j].index = index /\ stderr[j].payload = payload
    BY <2>3 DEF FrameLine, FrameAt
  <2>5. j \in 1 .. n /\ j \in DOMAIN stderr
    BY <1>0, <1>1, <2>2, <2>4
  <2>6. IsFrame(stderr[j]) /\ stderr[j].event = f.event
    BY <1>1, <1>3, <2>4, <2>5
  <2>7. /\ stderr[j].payload = f.payload
        /\ \A p : Shown(stderr[j].event, p, n + 1) <=>
              stderr[j].data = "good" /\ f.data = "good" /\ p = stderr[j].payload
    BY <2>1, <2>5, <2>6, TwoFrames
  <2>8. f.data = "good"
    BY <2>4, <2>7
  <2>9. ASSUME NEW i \in 1 .. n, FrameAt(i), stderr[i].event = stderr[j].event PROVE i = j
    <3>1. i \in DOMAIN stderr /\ i # n + 1
      BY <1>1
    <3>2. stderr[i].index # f.index
      BY <1>1, <2>1, <2>6, <2>9, <3>1 DEF LinesInv
    <3>3. stderr[i].index \in {1, 2}
      BY <1>1, <2>9, <3>1 DEF IsFrame
    <3>4. stderr[i].index = stderr[j].index
      BY <2>1, <2>2, <2>4, <3>2, <3>3
    <3> QED
      BY <2>4, <2>5, <2>9, <3>1, <3>4 DEF LinesInv
  <2>10. stderr[j] \in o.groups
    BY <2>4, <2>5, <2>9 DEF SeenBy
  <2>11. IsValid(f, stderr[j])
    BY <2>4, <2>7, <2>8 DEF IsValid
  <2> QED
    BY <1>3, <2>2, <2>4, <2>6, <2>10, <2>11 DEF EndsValid
<1> QED
  BY <1>2, <1>3

LEMMA MarkersSame ==
    ASSUME LinesInv, NEW n \in Nat, n + 1 <= Len(stderr), Len(stderr) \in Nat, NEW o, SeenBy(o, n),
           ~EndsValid(o, stderr[n + 1])
    PROVE  MarkersAt(n + 1) = MarkersAt(n) /\ stderr[n + 1] \notin MarkersAt(n)
<1>. DEFINE f == stderr[n + 1]
<1>0. \A i : i \in 1 .. n + 1 <=> i \in 1 .. n \/ i = n + 1
  OBVIOUS
<1>1. /\ Range(SubSeq(stderr, 1, n)) = {stderr[i] : i \in 1 .. n}
      /\ Range(SubSeq(stderr, 1, n + 1)) = {stderr[i] : i \in 1 .. n + 1}
  <2>1. n <= Len(stderr) /\ n + 1 \in Nat
    OBVIOUS
  <2>2. Range(SubSeq(stderr, 1, n)) = {stderr[i] : i \in 1 .. n}
    BY <2>1, ReadIs
  <2>. DEFINE m == n + 1
  <2>. HIDE DEF m
  <2>3. m \in Nat /\ m <= Len(stderr)
    BY <2>1 DEF m
  <2>4. Range(SubSeq(stderr, 1, m)) = {stderr[i] : i \in 1 .. m}
    BY <2>3, ReadIs
  <2> QED
    BY <2>2, <2>4 DEF m
<1>2. \A i \in 1 .. Len(stderr) : FrameAt(i) => IsFrame(stderr[i])
  BY DEF LinesInv, IsSequence, FrameAt, IsLine, Text, BadFrame, Torn
<1>3. MarkersAt(n) \subseteq MarkersAt(n + 1)
  BY <1>0, <1>1, ShownMore DEF MarkersAt
<1>4. ASSUME NEW x \in MarkersAt(n + 1) PROVE x \in MarkersAt(n)
  <2>1. PICK i \in 1 .. n + 1 : x = stderr[i]
    BY <1>1 DEF MarkersAt
  <2>2. /\ x.kind = "frame" /\ x.payload # "processExit" /\ Shown(x.event, x.payload, n + 1)
    BY DEF MarkersAt
  <2>3. Shown(x.event, x.payload, n)
    BY <2>2, NothingNew
  <2>4. i # n + 1
    <3>1. SUFFICES ASSUME i = n + 1 PROVE FALSE
      OBVIOUS
    <3>2. IsFrame(stderr[n + 1]) /\ Shown(stderr[n + 1].event, x.payload, n)
      BY <1>2, <2>1, <2>2, <2>3, <3>1 DEF FrameAt
    <3> QED
      BY <3>2, NoThird
  <2> QED
    BY <1>0, <1>1, <2>1, <2>2, <2>3, <2>4 DEF MarkersAt
<1>5. ASSUME f \in MarkersAt(n) PROVE FALSE
  <2>1. PICK i \in 1 .. n : f = stderr[i]
    BY <1>1, <1>5 DEF MarkersAt
  <2>2. FrameAt(i) /\ FrameAt(n + 1) /\ i \in DOMAIN stderr /\ n + 1 \in DOMAIN stderr
    BY <1>5, <2>1 DEF MarkersAt, FrameAt, LinesInv, IsSequence
  <2>3. i = n + 1
    BY <2>1, <2>2 DEF LinesInv
  <2> QED
    BY <2>3
<1> QED
  BY <1>3, <1>4, <1>5

LEMMA MarkersMore ==
    ASSUME LinesInv, NEW n \in Nat, n + 1 <= Len(stderr), Len(stderr) \in Nat, NEW o, SeenBy(o, n),
           IsFrame(stderr[n + 1]), NEW g \in o.groups, g.event = stderr[n + 1].event,
           g.index # stderr[n + 1].index, IsValid(stderr[n + 1], g)
    PROVE  MarkersAt(n + 1) = MarkersAt(n) \cup {stderr[n + 1], g}
<1>. DEFINE f == stderr[n + 1]
<1>0. \A i : i \in 1 .. n + 1 <=> i \in 1 .. n \/ i = n + 1
  OBVIOUS
<1>1. /\ Range(SubSeq(stderr, 1, n)) = {stderr[i] : i \in 1 .. n}
      /\ Range(SubSeq(stderr, 1, n + 1)) = {stderr[i] : i \in 1 .. n + 1}
  <2>1. n <= Len(stderr) /\ n + 1 \in Nat
    OBVIOUS
  <2>2. Range(SubSeq(stderr, 1, n)) = {stderr[i] : i \in 1 .. n}
    BY <2>1, ReadIs
  <2>. DEFINE m == n + 1
  <2>. HIDE DEF m
  <2>3. m \in Nat /\ m <= Len(stderr)
    BY <2>1 DEF m
  <2>4. Range(SubSeq(stderr, 1, m)) = {stderr[i] : i \in 1 .. m}
    BY <2>3, ReadIs
  <2> QED
    BY <2>2, <2>4 DEF m
<1>2. PICK j \in 1 .. n : stderr[j] = g
  BY DEF SeenBy
<1>3. /\ DOMAIN stderr = 1 .. Len(stderr) /\ n + 1 \in DOMAIN stderr /\ j \in DOMAIN stderr
      /\ FrameAt(n + 1) /\ FrameAt(j) /\ IsFrame(g)
      /\ \A i \in DOMAIN stderr : FrameAt(i) => IsFrame(stderr[i])
  BY <1>2 DEF LinesInv, IsSequence, FrameAt, IsFrame, SeenBy, Groups, IsLine, Text, BadFrame, Torn
<1>4. /\ g.payload = f.payload
      /\ \A p : Shown(g.event, p, n + 1) <=>
            g.data = "good" /\ f.data = "good" /\ p = g.payload
  BY <1>2, <1>3, TwoFrames
<1>5. Shown(f.event, f.payload, n + 1) /\ Shown(g.event, g.payload, n + 1)
  BY <1>4 DEF IsValid
<1>6. f \in MarkersAt(n + 1) /\ g \in MarkersAt(n + 1)
  BY <1>0, <1>1, <1>2, <1>3, <1>5 DEF MarkersAt, IsValid, FrameAt
<1>7. MarkersAt(n) \subseteq MarkersAt(n + 1)
  BY <1>0, <1>1, ShownMore DEF MarkersAt
<1>8. ASSUME NEW x \in MarkersAt(n + 1) PROVE x \in MarkersAt(n) \cup {f, g}
  <2>1. PICK i \in 1 .. n + 1 : x = stderr[i]
    BY <1>1 DEF MarkersAt
  <2>2. /\ x.kind = "frame" /\ x.payload # "processExit" /\ Shown(x.event, x.payload, n + 1)
    BY DEF MarkersAt
  <2>3. CASE x.event = f.event
    <3>1. i \in DOMAIN stderr /\ FrameAt(i) /\ x.index \in {1, 2}
      BY <1>3, <2>1, <2>2 DEF FrameAt, IsFrame
    <3>2. f.index \in {1, 2} /\ g.index \in {1, 2}
      BY <1>3 DEF IsFrame
    <3>3. x.index = f.index \/ x.index = g.index
      BY <3>1, <3>2
    <3>4. i = n + 1 \/ i = j
      BY <1>2, <1>3, <2>1, <2>3, <3>1, <3>3 DEF LinesInv
    <3> QED
      BY <1>2, <2>1, <3>4
  <2>4. CASE x.event # f.event
    <3>1. Shown(x.event, x.payload, n)
      BY <2>2, <2>4, ShownNext
    <3>2. i # n + 1
      BY <2>1, <2>4
    <3> QED
      BY <1>0, <1>1, <2>1, <2>2, <3>1, <3>2 DEF MarkersAt
  <2> QED
    BY <2>3, <2>4
<1> QED
  BY <1>6, <1>7, <1>8

\* One line more is read.
LEMMA PushRest ==
    ASSUME LinesInv, NEW n \in Nat, n + 1 <= Len(stderr), Len(stderr) \in Nat, NEW o, SeenBy(o, n),
           Holds(o), ~o.torn, Shows(o) = Without(SubSeq(stderr, 1, n), MarkersAt(n)), NEW tracing
    PROVE  LET q == Push(o, stderr[n + 1], tracing).observer IN
           /\ Holds(q) /\ ShowsAll(q) = Without(SubSeq(stderr, 1, n + 1), MarkersAt(n + 1))
           /\ q.torn => stderr[n + 1] = Torn
<1>. DEFINE f == stderr[n + 1]
            q == Push(o, f, tracing).observer
            s == SubSeq(stderr, 1, n)
            t == SubSeq(stderr, 1, n + 1)
            M == MarkersAt(n)
            N == MarkersAt(n + 1)
<1>1. /\ s \in Seq(AllLines) /\ f \in AllLines /\ t = Append(s, f)
      /\ Range(s) = {stderr[i] : i \in 1 .. n}
  <2>1. n <= Len(stderr)
    OBVIOUS
  <2> QED
    BY <2>1, ReadIs
<1>2. /\ DOMAIN stderr = 1 .. Len(stderr) /\ n + 1 \in DOMAIN stderr
      /\ f \in {Text, BadFrame, Torn} \/ IsFrame(f)
  <2>1. DOMAIN stderr = 1 .. Len(stderr) /\ n + 1 \in DOMAIN stderr
    BY DEF LinesInv, IsSequence
  <2> QED
    BY <2>1 DEF LinesInv, IsLine
<1>3. ~EndsValid(o, f) => N = M /\ f \notin M
  BY MarkersSame
<1>4. Shows(o) = Without(s, M)
  OBVIOUS
<1>. HIDE DEF s, t, M, N
<1>5. Without(t, M) = Kept(Without(s, M), f, M)
  BY <1>1, WithoutAppend
<1>6. ~EndsValid(o, f) => Without(t, N) = Append(Shows(o), f)
  BY <1>3, <1>4, <1>5 DEF Kept
<1>7. CASE f \in {Text, BadFrame, Torn}
  <2>1. ~EndsValid(o, f)
    BY <1>7 DEF EndsValid, Text, BadFrame, Torn
  <2>2. /\ Holds(q)
        /\ f # Torn => Shows(q) = Append(Shows(o), f) /\ q.torn = o.torn
        /\ f = Torn => Shows(q) = Shows(o) /\ q.torn = TRUE
    BY <1>7, PushPlainShows
  <2>. HIDE DEF q, f
  <2>3. ShowsAll(q) = Without(t, N)
    <3>1. CASE f = Torn
      BY <1>6, <2>1, <2>2, <3>1, ShowsAllIs
    <3>2. CASE f # Torn
      BY <1>6, <2>1, <2>2, <3>2, ShowsAllIs
    <3> QED
      BY <3>1, <3>2
  <2> QED
    BY <2>2, <2>3 DEF q, f, t, N
<1>8. CASE IsFrame(f)
  <2>1. FrameAt(n + 1) /\ f.kind = "frame" /\ f \in AllFrames
    BY <1>8, FramesAre DEF IsFrame, FrameAt
  <2>2. \A i \in 1 .. n : stderr[i] # f
    <3>1. ASSUME NEW i \in 1 .. n, stderr[i] = f PROVE FALSE
      <4>1. i \in DOMAIN stderr /\ FrameAt(i) /\ i # n + 1
        BY <1>2, <2>1, <3>1 DEF FrameAt
      <4> QED
        BY <1>2, <2>1, <3>1, <4>1 DEF LinesInv
    <3> QED
      BY <3>1
  <2>3. f \notin o.groups
    BY <2>2 DEF SeenBy
  <2>4. f \notin Range(Shows(o))
    <3>1. Range(Without(s, M)) = Range(s) \ M
      BY <1>1, WithoutRange
    <3> QED
      BY <1>1, <1>4, <2>2, <3>1
  <2>5. Groups(o) /\ IsNew(o, f)
    BY <2>1, <2>3, <2>4 DEF SeenBy, Groups, IsNew
  <2>6. FrameShows(o, f, q)
    BY <1>8, <2>5, PushFrameShows
  <2>7. Holds(q) /\ q.torn = o.torn
    BY <2>6 DEF FrameShows
  <2>8. CASE \E g \in o.groups : /\ g.event = f.event /\ g.index # f.index /\ IsValid(f, g)
                                 /\ Shows(q) = Without(Shows(o), {f, g})
    <3>1. PICK g \in o.groups : /\ g.event = f.event /\ g.index # f.index /\ IsValid(f, g)
                                /\ Shows(q) = Without(Shows(o), {f, g})
      BY <2>8
    <3>2. N = M \cup {f, g}
      BY <1>8, <3>1, MarkersMore DEF N, M
    <3>3. Without(Without(s, M), {f, g}) = Without(s, M \cup {f, g})
      BY <1>1, WithoutTwice
    <3>4. Without(t, N) = Kept(Without(s, N), f, N)
      BY <1>1, WithoutAppend
    <3>5. Without(t, N) = Without(s, N)
      BY <3>2, <3>4 DEF Kept
    <3>6. Shows(q) = Without(t, N)
      BY <1>4, <3>1, <3>2, <3>3, <3>5
    <3>. HIDE DEF q, f
    <3>7. ShowsAll(q) = Without(t, N)
      BY <2>7, <3>6, ShowsAllIs
    <3> QED
      BY <2>7, <3>7 DEF q, f, t, N
  <2>9. CASE /\ \A g \in o.groups : ~(g.event = f.event /\ g.index # f.index /\ IsValid(f, g))
             /\ Shows(q) = Append(Shows(o), f)
    <3>1. ~EndsValid(o, f)
      BY <2>9 DEF EndsValid
    <3>. HIDE DEF q, f
    <3>2. ShowsAll(q) = Without(t, N)
      BY <1>6, <2>7, <2>9, <3>1, ShowsAllIs
    <3> QED
      BY <2>7, <3>2 DEF q, f, t, N
  <2> QED
    BY <2>6, <2>8, <2>9 DEF FrameShows
<1> QED
  BY <1>2, <1>7, <1>8

-----------------------------------------------------------------------------
(* What was read and is shown, in every step *)

\* The cut off beginning of a marker is the last line of a game that ended.
TornInv == \A i \in DOMAIN stderr : stderr[i] = Torn => i = Len(stderr) /\ ~Runs

RestInv ==
    /\ Holds(observer)
    /\ ShowsAll(observer) = Without(SubSeq(stderr, 1, read), MarkersAt(read))
    /\ TornInv
    /\ observer.torn => read = Len(stderr) /\ read # 0 /\ stderr[read] = Torn
    /\ "stderr" \in closed => observer.pieces = << >> /\ ~observer.torn

LEMMA RestStarts == Init => RestInv
<1>. SUFFICES ASSUME Init PROVE RestInv
  OBVIOUS
<1>1. stderr = << >> /\ read = 0 /\ observer = NewObserver /\ closed = {}
  BY DEF Init
<1>2. /\ DOMAIN observer = ObserverFields /\ observer.pieces = << >> /\ observer.groups = {}
      /\ observer.human = << >> /\ observer.torn = FALSE
  BY <1>1 DEF NewObserver, ObserverFields
<1>3. Holds(observer)
  <2>1. Waits(<< >>, {})
    BY RangeEmpty DEF Waits
  <2>2. << >> \in Seq(Pieces) /\ << >> \in Seq(AllLines)
    BY EmptySeq
  <2> QED
    BY <1>2, <2>1, <2>2 DEF Holds
<1>4. ShowsAll(observer) = << >>
  BY <1>2, <1>3, ShowsAllIs
<1>5. SubSeq(stderr, 1, read) = << >>
  BY <1>1
<1>6. TornInv
  BY <1>1 DEF TornInv
<1> QED
  BY <1>1, <1>2, <1>3, <1>4, <1>5, <1>6, WithoutEmpty DEF RestInv

LEMMA RestStays ==
    ASSUME LinesInv, ObserverInv, RestInv, Grows, UNCHANGED <<read, observer>>,
           "stderr" \in closed' => "stderr" \in closed, TornInv'
    PROVE  RestInv'
<1>1. read \in Nat /\ Len(stderr) \in Nat /\ read <= Len(stderr)
  BY DEF ObserverInv, LinesInv, IsSequence
<1>2. \A event, payload : Shown(event, payload, read)' <=> Shown(event, payload, read)
  BY ShownStays
<1>3. SubSeq(stderr', 1, read) = SubSeq(stderr, 1, read)
  <2>1. CASE stderr' = stderr
    BY <2>1
  <2>2. ASSUME NEW line, stderr' = Append(stderr, line)
        PROVE  SubSeq(stderr', 1, read) = SubSeq(stderr, 1, read)
    <3>1. stderr \in Seq(Range(stderr) \cup {line})
      BY DEF LinesInv, IsSequence
    <3>2. SubSeq(Append(stderr, line), 1, read) = SubSeq(stderr, 1, read)
      BY <1>1, <3>1
    <3> QED
      BY <2>2, <3>2
  <2> QED
    BY <2>1, <2>2 DEF Grows
<1>4. MarkersAt(read)' = MarkersAt(read)
  BY <1>2, <1>3 DEF MarkersAt
<1>5. observer.torn => stderr' = stderr
  <2>1. SUFFICES ASSUME observer.torn PROVE stderr' = stderr
    OBVIOUS
  <2>2. read \in DOMAIN stderr /\ stderr[read] = Torn
    BY <1>1, <2>1 DEF RestInv, LinesInv, IsSequence
  <2>3. ~Runs
    BY <2>2 DEF RestInv, TornInv
  <2> QED
    BY <2>3 DEF Grows
<1>6. observer' = observer /\ read' = read
  OBVIOUS
<1>7. Holds(observer') /\ ShowsAll(observer') = ShowsAll(observer)
  BY <1>6 DEF RestInv
<1> QED
  BY <1>3, <1>4, <1>5, <1>6, <1>7 DEF RestInv

LEMMA TornStays ==
    ASSUME TornInv, stderr' = stderr, game' = game \/ game' # "running" \/ stderr = << >>
    PROVE  TornInv'
BY DEF TornInv, Runs

LEMMA TornGame ==
    ASSUME GameInv, TornInv, GameStep PROVE TornInv'
<1>1. LinesInv /\ EmitInv /\ Runs
  BY DEF GameInv, GameStep, WriteFrame, SayReady, WriteText, Exit, Raise
<1>2. \A i \in DOMAIN stderr : stderr[i] # Torn
  BY <1>1 DEF TornInv
<1>3. ASSUME NEW line, stderr' = Append(stderr, line), line = Torn => game' # "running"
      PROVE  TornInv'
  <2>1. /\ Len(stderr') = Len(stderr) + 1 /\ DOMAIN stderr = 1 .. Len(stderr)
        /\ DOMAIN stderr' = 1 .. Len(stderr) + 1 /\ stderr'[Len(stderr) + 1] = line
        /\ Len(stderr) \in Nat /\ \A i \in 1 .. Len(stderr) : stderr'[i] = stderr[i]
    BY <1>1, <1>3, AppendLine DEF LinesInv
  <2>2. ASSUME NEW i \in DOMAIN stderr', stderr'[i] = Torn
        PROVE  i = Len(stderr') /\ game' # "running"
    BY <1>2, <1>3, <2>1, <2>2
  <2> QED
    BY <2>2 DEF TornInv, Runs
<1>4. CASE stderr' = stderr
  BY <1>2, <1>4 DEF TornInv
<1>5. CASE \E thread \in Threads : WriteFrame(thread)
  <2>1. PICK thread \in Threads : WriteFrame(thread)
    BY <1>5
  <2>. DEFINE frame == Head(emitting[thread])
  <2>2. emitting[thread] # << >> /\ \E line \in Arrivals(frame) : stderr' = Append(stderr, line)
    BY <2>1 DEF WriteFrame, Spoilt, Arrivals
  <2>3. PICK payload \in Payloads(EventOf(thread)) :
           \/ emitting[thread] = Encode(EventOf(thread), payload, 2)
           \/ emitting[thread] = <<FrameLine(EventOf(thread), payload, 2, 2, "good")>>
    BY <1>1, <2>2 DEF EmitInv, Emitting
  <2>4. \E index \in {1, 2} : frame = FrameLine(EventOf(thread), payload, 2, index, "good")
    BY <2>3, EncodeTwo
  <2>. HIDE DEF frame
  <2>5. \A line \in Arrivals(frame) : line # Torn
    <3>1. frame.kind = "frame" /\ DOMAIN frame = {"kind", "event", "payload", "count", "index", "data"}
      BY <2>4 DEF FrameLine
    <3>2. \A data : [frame EXCEPT !.data = data].kind = "frame"
      BY <3>1
    <3>3. Torn.kind = "torn" /\ BadFrame # Torn
      BY DEF Torn, BadFrame
    <3> QED
      BY <3>1, <3>2, <3>3 DEF Arrivals
  <2> QED
    BY <1>3, <2>2, <2>5
<1>6. CASE WriteText
  <2>1. stderr' = Append(stderr, Text) /\ Text # Torn
    BY <1>6 DEF WriteText, Text, Torn
  <2> QED
    BY <1>3, <2>1
<1>7. CASE Exit
  <2>1. game' # "running" /\ (stderr' = stderr \/ stderr' = Append(stderr, Torn))
    BY <1>7 DEF Exit
  <2> QED
    BY <1>3, <1>4, <2>1
<1>8. CASE SayReady \/ \E payload \in setting.reports : Raise(payload)
  BY <1>4, <1>8 DEF SayReady, Raise
<1> QED
  BY <1>5, <1>6, <1>7, <1>8 DEF GameStep

LEMMA DiagnosticRest ==
    ASSUME LinesInv, ObserverInv, RestInv, TakeDiagnostic PROVE RestInv'
<1>. DEFINE q == Push(observer, stderr[read + 1], setting.tracing).observer
<1>1. /\ pc = "loop" /\ read < Len(stderr) /\ observer' = q /\ read' = read + 1
      /\ stderr' = stderr /\ closed' = closed
  BY DEF TakeDiagnostic, Loops, Becomes
<1>2. game' = game \/ game' # "running"
  BY KilledIs DEF TakeDiagnostic, Becomes
<1>3. /\ read \in Nat /\ Len(stderr) \in Nat /\ read + 1 <= Len(stderr) /\ "stderr" \notin closed
  BY <1>1 DEF ObserverInv, LinesInv, IsSequence
<1>4. SeenBy(observer, read)
  BY <1>1, <1>3 DEF ObserverInv, SeenBy, Groups, ObserverFields, PanicShown
<1>5. /\ Holds(observer) /\ ~observer.torn
      /\ Shows(observer) = Without(SubSeq(stderr, 1, read), MarkersAt(read))
  BY <1>1, <1>3, ShowsAllIs DEF RestInv
<1>6. /\ Holds(q) /\ ShowsAll(q) = Without(SubSeq(stderr, 1, read + 1), MarkersAt(read + 1))
      /\ q.torn => stderr[read + 1] = Torn
  BY <1>3, <1>4, <1>5, PushRest
<1>. HIDE DEF q
<1>7. MarkersAt(read)' = MarkersAt(read + 1)
  BY <1>1 DEF MarkersAt, Shown
<1>8. Holds(observer') /\ ShowsAll(observer') = ShowsAll(q)
  BY <1>1, <1>6
<1>9. TornInv'
  BY <1>1, <1>2, TornStays DEF RestInv
<1>10. q.torn => read + 1 = Len(stderr)
  <2>1. read + 1 \in DOMAIN stderr
    BY <1>3 DEF LinesInv, IsSequence
  <2> QED
    BY <1>6, <2>1 DEF RestInv, TornInv
<1>11. SubSeq(stderr', 1, read') = SubSeq(stderr, 1, read + 1)
  BY <1>1
<1>12. observer'.torn => read' = Len(stderr') /\ read' # 0 /\ stderr'[read'] = Torn
  BY <1>1, <1>3, <1>6, <1>10
<1>13. "stderr" \notin closed'
  BY <1>1, <1>3
<1> QED
  BY <1>6, <1>7, <1>8, <1>9, <1>11, <1>12, <1>13 DEF RestInv

LEMMA FinishRest ==
    ASSUME RestInv, observer' = Finish(observer).observer, UNCHANGED <<stderr, read>>,
           game' = game \/ game' # "running"
    PROVE  RestInv'
<1>. DEFINE q == Finish(observer).observer
<1>1. /\ Holds(q) /\ q.pieces = << >> /\ q.torn = FALSE /\ Shows(q) = ShowsAll(observer)
  BY FinishShows DEF RestInv
<1>. HIDE DEF q
<1>2. ShowsAll(q) = ShowsAll(observer)
  BY <1>1, ShowsAllIs
<1>3. Holds(observer') /\ ShowsAll(observer') = ShowsAll(q) /\ observer' = q
  BY <1>1 DEF q
<1>4. MarkersAt(read)' = MarkersAt(read) /\ SubSeq(stderr', 1, read') = SubSeq(stderr, 1, read)
  BY DEF MarkersAt, Shown
<1>5. TornInv'
  BY TornStays DEF RestInv
<1> QED
  BY <1>1, <1>2, <1>3, <1>4, <1>5 DEF RestInv

LEMMA LoopRest ==
    ASSUME GameInv, ObserverInv, RestInv, LoopStep PROVE RestInv'
<1>1. LinesInv /\ PlaceInv /\ Grows /\ TornInv
  BY LoopGame DEF GameInv, RestInv
<1>2. CASE LaunchFails \/ ResolveMetadata \/ ResolveOptional
  <2>1. UNCHANGED <<read, observer, closed, stderr, game>>
    BY <1>2 DEF LaunchFails, ResolveMetadata, ResolveOptional, LaunchOnly, gameVars
  <2> QED
    BY <1>1, <2>1, TornStays, RestStays
<1>3. CASE Spawn
  <2>1. UNCHANGED <<read, observer, closed, stderr>> /\ stderr = << >>
    BY <1>1, <1>3 DEF Spawn, PlaceInv, Launching
  <2> QED
    BY <1>1, <2>1, TornStays, RestStays
<1>4. CASE TakeLine \/ TakeClosedStdout
  <2>1. /\ UNCHANGED <<read, observer, stderr>> /\ (game' = game \/ game' # "running")
        /\ closed' = closed \/ closed' = closed \cup {"stdout"}
    BY <1>4, KilledIs DEF TakeLine, TakeClosedStdout, Closes, Becomes
  <2> QED
    BY <1>1, <2>1, TornStays, RestStays
<1>5. CASE TakeDiagnostic
  BY <1>1, <1>5, DiagnosticRest
<1>6. CASE TakeClosedStderr
  <2>1. /\ UNCHANGED <<stderr, read>> /\ observer' = Finish(observer).observer
        /\ game' = game \/ game' # "running"
    BY <1>6, KilledIs DEF TakeClosedStderr, Becomes
  <2> QED
    BY <2>1, FinishRest
<1>7. CASE DeadlinePasses \/ Terminate \/ Exited \/ Cancelled
  <2>1. /\ UNCHANGED <<read, observer, stderr, closed>> /\ (game' = game \/ game' # "running")
    BY <1>7 DEF DeadlinePasses, Terminate, Exited, Cancelled, gameVars
  <2> QED
    BY <1>1, <2>1, TornStays, RestStays
<1>8. CASE EndSession
  <2>1. /\ UNCHANGED <<stderr, read>> /\ observer' = Finish(observer).observer
        /\ game' = game \/ game' # "running"
    BY <1>8, KilledIs DEF EndSession
  <2> QED
    BY <2>1, FinishRest
<1> QED
  BY <1>2, <1>3, <1>4, <1>5, <1>6, <1>7, <1>8 DEF LoopStep

LEMMA RestHolds == Inv /\ RestInv /\ [Next]_vars => RestInv'
<1>. SUFFICES ASSUME Inv, RestInv, [Next]_vars PROVE RestInv'
  OBVIOUS
<1>1. GameInv /\ LinesInv /\ DeliveryInv /\ ObserverInv /\ TornInv
  BY DEF Inv, GameInv, RestInv
<1>2. CASE GameStep
  <2>1. Grows /\ TornInv'
    BY <1>1, <1>2, GameSteps, TornGame
  <2>2. UNCHANGED <<read, observer, closed>>
    BY <1>2 DEF GameStep, WriteFrame, SayReady, WriteText, Exit, Raise, GameOnly, loopVars
  <2> QED
    BY <1>1, <2>1, <2>2, RestStays
<1>3. CASE LoopStep
  BY <1>1, <1>3, LoopRest
<1>4. CASE \/ \E internal \in BOOLEAN : AcceptCommand(internal)
           \/ \E id \in Ids : CompleteCommand(id)
           \/ RefuseCommand \/ AcceptShutdown \/ OwnerStep
           \/ Starts \/ CancelStart \/ DropSession \/ UNCHANGED vars
  <2>1. UNCHANGED <<read, observer, closed, stderr, game>>
    BY <1>4, OwnerSteps DEF OthersOnly, gameVars
  <2>2. Grows /\ TornInv'
    BY <1>1, <2>1, TornStays DEF Grows
  <2> QED
    BY <1>1, <2>1, <2>2, RestStays
<1> QED
  BY <1>2, <1>3, <1>4 DEF Next, Rest

(***************************************************************************)
(* At the end, what was released for people is all of stderr but the       *)
(* frames of valid markers, in its order and nothing twice, whatever frames*)
(* were interleaved, spoilt or cut off (report/observer.rs:50-111,         *)
(* 208-226).                                                               *)
(***************************************************************************)
THEOREM DiagnosticsAreKept == Spec => []DiagnosticsAreTheRest
<1>1. Inv /\ RestInv => DiagnosticsAreTheRest
  <2>. SUFFICES ASSUME Inv, RestInv, "stderr" \in closed
                PROVE  observer.human = Without(SubSeq(stderr, 1, read), Markers)
    BY DEF DiagnosticsAreTheRest
  <2>1. \A event, payload : Whole(event, payload, read) <=> Shown(event, payload, read)
    BY WholeIsShown
  <2>2. Markers = MarkersAt(read)
    BY <2>1 DEF Markers, MarkersAt
  <2>3. ShowsAll(observer) = observer.human
    BY ShowsAllIs DEF RestInv
  <2> QED
    BY <2>2, <2>3 DEF RestInv
<1> QED
  BY <1>1, InvHolds, RestStarts, RestHolds, PTL DEF Spec
=============================================================================
