---------------------------- MODULE BridgeProofs ----------------------------
(***************************************************************************)
(* Proofs about the bridge in the game.                                    *)
(*                                                                         *)
(* Folds over a sequence (the images of a poll, the events of a tick) are  *)
(* unfolded once, into the states they go through; what a fold keeps is    *)
(* then an induction over those.  Counts of a sequence's members carry the *)
(* balance of requests and responses through taking, queueing and writing. *)
(***************************************************************************)
EXTENDS Bridge, FiniteSetTheorems, SequenceTheorems, WellFoundedInduction, TLAPS

-----------------------------------------------------------------------------
(* Induction, and folds over a sequence *)

\* A set of natural numbers that is not empty has a least element.
LEMMA LeastOf ==
    ASSUME NEW S, S \subseteq Nat, S # {}
    PROVE  \E x \in S : \A y \in S : x <= y
<1>. DEFINE less == {ss \in Nat \X Nat : ss[1] < ss[2]}
<1>1. IsWellFoundedOn(less, Nat)
  BY NatLessThanWellFounded DEF OpToRel
<1>. HIDE DEF less
<1>2. PICK x \in S : \A y \in S : ~ (<<y, x>> \in less)
  BY <1>1, WFMin, Zenon
<1>3. ASSUME NEW y \in S PROVE x <= y
  <2>1. y \in Nat /\ x \in Nat /\ ~(<<y, x>> \in less)
    BY <1>2
  <2> QED
    BY <2>1 DEF less
<1> QED
  BY <1>2, <1>3

\* Induction over the natural numbers, with a set for the property.
LEMMA NatsIn ==
    ASSUME NEW S, 0 \in S, \A n \in Nat : n \in S => n + 1 \in S
    PROVE  Nat \subseteq S
<1>1. SUFFICES ASSUME Nat \ S # {} PROVE FALSE
  OBVIOUS
<1>2. PICK x \in Nat \ S : \A y \in Nat \ S : x <= y
  BY <1>1, LeastOf
<1>3. x - 1 \in Nat /\ x - 1 \notin Nat \ S
  BY <1>2
<1> QED
  BY <1>2, <1>3

\* The largest number of a set is the one that no other exceeds.
LEMMA MaxIs ==
    ASSUME NEW S, S \subseteq Nat, NEW x \in S, \A y \in S : y <= x
    PROVE  Max(S) = x
<1>1. \A z \in S : (\A y \in S : z >= y) => z = x
  OBVIOUS
<1>2. \A y \in S : x >= y
  OBVIOUS
<1> QED
  BY <1>1, <1>2 DEF Max

\* The largest member of a part of 1 .. k + 1 that has k + 1.
LEMMA MaxOfRange ==
    ASSUME NEW k \in Nat, NEW s \in SUBSET (1 .. k + 1), k + 1 \in s
    PROVE  Max(s) = k + 1
<1>1. s \subseteq Nat /\ \A y \in s : y <= k + 1
  OBVIOUS
<1> QED
  BY <1>1, MaxIs

Taken(p, seq) == FoldLeft(TakeImage, p, seq)

\* What a poll has after each image, one after the other.
LEMMA ImagesFold ==
    ASSUME NEW p, NEW n \in Nat, NEW seq, DOMAIN seq = 1 .. n
    PROVE  \E h : /\ h[0] = p
                  /\ \A i \in 1 .. n : h[i] = TakeImage(h[i - 1], seq[i])
                  /\ Taken(p, seq) = h[n]
<1>. DEFINE Is(g, k) == g = [s \in SUBSET (1 .. k) |->
                                IF s = {} THEN p
                                ELSE LET x == Max(s) IN TakeImage(g[s \ {x}], seq[x])]
            Good == {k \in Nat : \E g : Is(g, k)}
            it == CHOOSE g : Is(g, n)
            h == [i \in 0 .. n |-> it[1 .. i]]
<1>1. Taken(p, seq) = it[1 .. n]
  BY DEF Taken, FoldLeft, MapThenFoldSet
<1>2. 0 \in Good
  <2>1. Is([s \in SUBSET (1 .. 0) |-> p], 0)
    OBVIOUS
  <2> QED
    BY <2>1
<1>3. ASSUME NEW k \in Nat, k \in Good PROVE k + 1 \in Good
  <2>1. PICK f : Is(f, k)
    BY <1>3
  <2>. DEFINE g == [s \in SUBSET (1 .. k + 1) |->
                       IF k + 1 \in s THEN TakeImage(f[s \ {k + 1}], seq[k + 1]) ELSE f[s]]
  <2>2. ASSUME NEW s \in SUBSET (1 .. k + 1)
        PROVE  g[s] = IF s = {} THEN p
                      ELSE LET x == Max(s) IN TakeImage(g[s \ {x}], seq[x])
    <3>1. CASE k + 1 \in s
      <4>1. Max(s) = k + 1
        BY <3>1, MaxOfRange
      <4>2. s \ {k + 1} \in SUBSET (1 .. k + 1) /\ s # {}
        BY <3>1
      <4>3. g[s \ {k + 1}] = f[s \ {k + 1}]
        BY <4>2
      <4> QED
        BY <3>1, <4>1, <4>2, <4>3
    <3>2. CASE k + 1 \notin s
      <4>1. s \in SUBSET (1 .. k)
        BY <3>2
      <4>2. g[s] = f[s]
        BY <3>2
      <4>3. CASE s = {}
        BY <2>1, <4>1, <4>2, <4>3
      <4>4. CASE s # {}
        <5>. DEFINE x == Max(s)
        <5>1. f[s] = TakeImage(f[s \ {x}], seq[x])
          BY <2>1, <4>1, <4>4
        <5>2. s \ {x} \in SUBSET (1 .. k + 1) /\ k + 1 \notin s \ {x}
          BY <3>2
        <5>3. g[s \ {x}] = f[s \ {x}]
          BY <5>2
        <5> QED
          BY <4>2, <4>4, <5>1, <5>3
      <4> QED
        BY <4>3, <4>4
    <3> QED
      BY <3>1, <3>2
  <2>3. Is(g, k + 1)
    BY <2>2
  <2>. HIDE DEF g, Is
  <2>4. \E e : Is(e, k + 1)
    BY <2>3
  <2> QED
    BY <2>4
<1>4. Nat \subseteq Good
  <2>. HIDE DEF Good
  <2> QED
    BY <1>2, <1>3, NatsIn
<1>5. Is(it, n)
  <2>. HIDE DEF Is
  <2>1. \E g : Is(g, n)
    BY <1>4
  <2> QED
    BY <2>1
<1>6. \A s \in SUBSET (1 .. n) :
         it[s] = IF s = {} THEN p ELSE LET x == Max(s) IN TakeImage(it[s \ {x}], seq[x])
  <2>. HIDE DEF it
  <2> QED
    BY <1>5
<1>. HIDE DEF it, Is
<1>7. h[0] = p
  <2>1. 1 .. 0 = {} /\ {} \in SUBSET (1 .. n) /\ h[0] = it[1 .. 0]
    OBVIOUS
  <2> QED
    BY <1>6, <2>1
<1>8. ASSUME NEW i \in 1 .. n PROVE h[i] = TakeImage(h[i - 1], seq[i])
  <2>1. 1 .. i \in SUBSET (1 .. n) /\ i \in 1 .. i
    OBVIOUS
  <2>2. (1 .. i) \ {i} = 1 .. i - 1
    OBVIOUS
  <2>3. Max(1 .. i) = i
    <3>1. 1 .. i \subseteq Nat /\ \A y \in 1 .. i : y <= i
      OBVIOUS
    <3> QED
      BY <2>1, <3>1, MaxIs
  <2>4. it[1 .. i] = TakeImage(it[1 .. i - 1], seq[i])
    BY <1>6, <2>1, <2>2, <2>3
  <2> QED
    BY <2>4
<1>9. h[n] = it[1 .. n]
  OBVIOUS
<1>. HIDE DEF h
<1> QED
  BY <1>1, <1>7, <1>8, <1>9

-----------------------------------------------------------------------------
(* Counting *)

Hits(s, id) == {i \in DOMAIN s : s[i].id = id}

LEMMA CountIs ==
    ASSUME NEW S, NEW s \in Seq(S), NEW id
    PROVE  /\ IsFiniteSet(Hits(s, id)) /\ Hits(s, id) \subseteq 1 .. Len(s)
           /\ Count(s, id) = Cardinality(Hits(s, id)) /\ Count(s, id) \in Nat
<1>1. IsFiniteSet(1 .. Len(s)) /\ Hits(s, id) \subseteq 1 .. Len(s)
  BY FS_Interval DEF Hits
<1> QED
  BY <1>1, FS_Subset, FS_CardinalityType DEF Count, Hits

LEMMA CountEmpty == ASSUME NEW id PROVE Count(<< >>, id) = 0
<1>1. Hits(<< >>, id) = {}
  BY DEF Hits
<1> QED
  BY <1>1, FS_EmptySet DEF Count, Hits

LEMMA CountAppend ==
    ASSUME NEW S, NEW s \in Seq(S), NEW x \in S, NEW id
    PROVE  Count(Append(s, x), id) = Count(s, id) + (IF x.id = id THEN 1 ELSE 0)
<1>. DEFINE t == Append(s, x)
            n == Len(s) + 1
<1>1. /\ t \in Seq(S) /\ Len(t) = n /\ t[n] = x /\ n \in Nat
      /\ \A i \in 1 .. Len(s) : t[i] = s[i]
  BY AppendProperties
<1>2. DOMAIN t = 1 .. n /\ DOMAIN s = 1 .. Len(s)
  BY <1>1
<1>. HIDE DEF t
<1>5. /\ Count(t, id) = Cardinality(Hits(t, id))
      /\ Count(s, id) = Cardinality(Hits(s, id)) /\ Count(s, id) \in Nat
  BY <1>1, CountIs
<1>. SUFFICES Count(t, id) = Count(s, id) + (IF x.id = id THEN 1 ELSE 0)
  BY DEF t
<1>3. CASE x.id = id
  <2>1. Hits(t, id) = Hits(s, id) \cup {n} /\ n \notin Hits(s, id)
    BY <1>1, <1>2, <1>3 DEF Hits
  <2>2. IsFiniteSet(Hits(s, id))
    BY CountIs
  <2>3. Cardinality(Hits(t, id)) = Cardinality(Hits(s, id)) + 1
    BY <2>1, <2>2, FS_AddElement
  <2> QED
    BY <1>3, <2>3, <1>5
<1>4. CASE x.id # id
  <2>1. Hits(t, id) = Hits(s, id)
    BY <1>1, <1>2, <1>4 DEF Hits
  <2> QED
    BY <1>4, <2>1, <1>5
<1> QED
  BY <1>3, <1>4

LEMMA CountConcat ==
    ASSUME NEW S, NEW s \in Seq(S), NEW t \in Seq(S), NEW id
    PROVE  Count(s \o t, id) = Count(s, id) + Count(t, id)
<1>. DEFINE u == s \o t
            m == Len(s)
            n == Len(t)
            Later == {i \in m + 1 .. m + n : u[i].id = id}
            shift == [i \in Hits(t, id) |-> i + m]
<1>1. /\ u \in Seq(S) /\ Len(u) = m + n /\ m \in Nat /\ n \in Nat
      /\ \A i \in 1 .. m : u[i] = s[i]
      /\ \A i \in m + 1 .. m + n : u[i] = t[i - m]
  BY ConcatProperties
<1>2. DOMAIN u = 1 .. m + n /\ DOMAIN s = 1 .. m /\ DOMAIN t = 1 .. n
  BY <1>1
<1>. HIDE DEF u, m, n
<1>3. Hits(u, id) = Hits(s, id) \cup Later /\ Hits(s, id) \cap Later = {}
  <2>1. \A i \in 1 .. m + n : i \in 1 .. m \/ i \in m + 1 .. m + n
    BY <1>1
  <2>2. \A i : i \in 1 .. m \/ i \in m + 1 .. m + n => i \in 1 .. m + n
    BY <1>1
  <2>3. \A i \in 1 .. m : i \notin m + 1 .. m + n
    BY <1>1
  <2> QED
    BY <1>1, <1>2, <2>1, <2>2, <2>3 DEF Hits
<1>4. shift \in Bijection(Hits(t, id), Later)
  <2>1. \A i \in Hits(t, id) : i + m \in Later
    <3>1. ASSUME NEW i \in Hits(t, id) PROVE i + m \in Later
      <4>1. i \in 1 .. n /\ t[i].id = id
        BY <1>2 DEF Hits
      <4>2. i + m \in m + 1 .. m + n /\ (i + m) - m = i
        BY <1>1, <4>1
      <4> QED
        BY <1>1, <4>1, <4>2
    <3> QED
      BY <3>1
  <2>2. \A j \in Later : j - m \in Hits(t, id) /\ (j - m) + m = j
    <3>1. ASSUME NEW j \in Later PROVE j - m \in Hits(t, id) /\ (j - m) + m = j
      <4>1. j \in m + 1 .. m + n /\ u[j].id = id
        OBVIOUS
      <4>2. j - m \in 1 .. n /\ (j - m) + m = j
        BY <1>1, <4>1
      <4> QED
        BY <1>1, <1>2, <4>1, <4>2 DEF Hits
    <3> QED
      BY <3>1
  <2>3. \A i, j \in Hits(t, id) : i + m = j + m => i = j
    BY <1>1, <1>2 DEF Hits
  <2>4. shift \in [Hits(t, id) -> Later]
    BY <2>1
  <2>5. \A j \in Later : \E i \in Hits(t, id) : shift[i] = j
    BY <2>2
  <2> QED
    BY <2>3, <2>4, <2>5 DEF Bijection, Injection, Surjection, IsInjective
<1>5. IsFiniteSet(Later) /\ Cardinality(Later) = Cardinality(Hits(t, id))
  BY <1>4, CountIs, FS_Bijection DEF ExistsBijection
<1>6. Cardinality(Hits(u, id)) = Cardinality(Hits(s, id)) + Cardinality(Hits(t, id))
  <2>1. IsFiniteSet(Hits(s, id)) /\ Cardinality(Hits(s, id)) \in Nat
        /\ Cardinality(Hits(t, id)) \in Nat
    BY CountIs
  <2>2. Cardinality({}) = 0
    BY FS_EmptySet
  <2>. DEFINE A == Hits(s, id)
  <2>3. IsFiniteSet(A) /\ IsFiniteSet(Later) /\ Hits(u, id) = A \cup Later /\ A \cap Later = {}
    BY <1>3, <1>5, <2>1
  <2>. HIDE DEF A, Later
  <2>4. Cardinality(A \cup Later) = Cardinality(A) + Cardinality(Later) - Cardinality(A \cap Later)
    BY <2>3, FS_Union
  <2>5. Cardinality(A) \in Nat /\ Cardinality(Later) \in Nat
    BY <2>3, FS_CardinalityType
  <2>6. Cardinality(A \cap Later) = 0
    BY <2>2, <2>3
  <2>. DEFINE a == Cardinality(A)
              b == Cardinality(Later)
  <2>7. Cardinality(A \cup Later) = a + b - 0 /\ a \in Nat /\ b \in Nat
    BY <2>4, <2>5, <2>6
  <2>. HIDE DEF a, b
  <2>8. Cardinality(A \cup Later) = a + b
    BY <2>7
  <2>9. Cardinality(Hits(u, id)) = a + b
    BY <2>3, <2>8
  <2> QED
    BY <1>5, <2>9 DEF A, a, b
<1> QED
  BY <1>1, <1>6, CountIs DEF u

LEMMA CountTail ==
    ASSUME NEW S, NEW s \in Seq(S), s # << >>, NEW id
    PROVE  Count(s, id) = Count(Tail(s), id) + (IF Head(s).id = id THEN 1 ELSE 0)
<1>1. Head(s) \in S /\ Tail(s) \in Seq(S) /\ <<Head(s)>> \in Seq(S)
  OBVIOUS
<1>2. s = <<Head(s)>> \o Tail(s)
  OBVIOUS
<1>3. Count(<<Head(s)>>, id) = IF Head(s).id = id THEN 1 ELSE 0
  <2>. DEFINE x == Head(s)
              e == << >>
  <2>1. <<x>> = Append(e, x) /\ e \in Seq(S) /\ x \in S
    BY <1>1
  <2>2. Count(e, id) = 0
    BY CountEmpty
  <2>. HIDE DEF x, e
  <2>3. Count(Append(e, x), id) = Count(e, id) + (IF x.id = id THEN 1 ELSE 0)
    BY <2>1, CountAppend
  <2>4. Count(Append(e, x), id) = IF x.id = id THEN 1 ELSE 0
    BY <2>2, <2>3
  <2>5. Count(<<x>>, id) = Count(Append(e, x), id)
    BY <2>1, Zenon
  <2> QED
    BY <2>4, <2>5 DEF x
<1>4. Count(<<Head(s)>> \o Tail(s), id) = Count(<<Head(s)>>, id) + Count(Tail(s), id)
  BY <1>1, CountConcat
<1>5. Count(Tail(s), id) \in Nat
  BY <1>1, CountIs
<1>. DEFINE a == <<Head(s)>>
            b == Tail(s)
            n == IF Head(s).id = id THEN 1 ELSE 0
<1>6. s = a \o b /\ Count(a, id) = n /\ Count(a \o b, id) = Count(a, id) + Count(b, id)
      /\ Count(b, id) \in Nat /\ n \in Nat
  BY <1>2, <1>3, <1>4, <1>5
<1>. SUFFICES Count(s, id) = Count(b, id) + n
  OBVIOUS
<1>. HIDE DEF a, b, n
<1> QED
  BY <1>6

LEMMA CountSplit ==
    ASSUME NEW S, NEW s \in Seq(S), NEW n \in 0 .. Len(s), NEW id
    PROVE  /\ SubSeq(s, 1, n) \in Seq(S) /\ SubSeq(s, n + 1, Len(s)) \in Seq(S)
           /\ Count(s, id) = Count(SubSeq(s, 1, n), id) + Count(SubSeq(s, n + 1, Len(s)), id)
<1>1. SubSeq(s, 1, n) \o SubSeq(s, n + 1, Len(s)) = SubSeq(s, 1, Len(s))
  <2>1. 1 \in 1 .. Len(s) + 1 /\ n \in 1 - 1 .. Len(s) /\ Len(s) \in n .. Len(s)
    OBVIOUS
  <2> QED
    BY <2>1, ConcatAdjacentSubSeq
<1>2. SubSeq(s, 1, Len(s)) = s
  BY SubSeqFull
<1>3. SubSeq(s, 1, n) \in Seq(S) /\ SubSeq(s, n + 1, Len(s)) \in Seq(S)
  <2>1. \A i \in 1 .. n : s[i] \in S
    OBVIOUS
  <2>2. \A i \in n + 1 .. Len(s) : s[i] \in S
    OBVIOUS
  <2> QED
    BY <2>1, <2>2, SubSeqProperties
<1>. DEFINE a == SubSeq(s, 1, n)
            b == SubSeq(s, n + 1, Len(s))
<1>4. a \o b = s /\ a \in Seq(S) /\ b \in Seq(S)
  BY <1>1, <1>2, <1>3
<1>. HIDE DEF a, b
<1>5. Count(a \o b, id) = Count(a, id) + Count(b, id)
  BY <1>4, CountConcat
<1>6. a \in Seq(S) /\ b \in Seq(S) /\ Count(s, id) = Count(a, id) + Count(b, id)
  BY <1>4, <1>5
<1> QED
  BY <1>6 DEF a, b

\* Sequences with the same ids in the same places.
LEMMA CountSame ==
    ASSUME NEW S, NEW s \in Seq(S), NEW T, NEW t \in Seq(T), NEW id, Len(t) = Len(s),
           \A i \in 1 .. Len(s) : t[i].id = s[i].id
    PROVE  Count(t, id) = Count(s, id)
<1>1. Hits(t, id) = Hits(s, id)
  BY DEF Hits
<1> QED
  BY <1>1, CountIs

-----------------------------------------------------------------------------
(* What the steps change *)

\* Only these steps change the warp, the pace or the ticks.
LEMMA WarpSteps ==
    ASSUME [Next]_vars
    PROVE  UNCHANGED warpVars \/ TakeStart \/ TakeSetPace \/ TakeStop \/ Tick \/ PacePasses
<1>1. ASSUME Main PROVE UNCHANGED warpVars \/ TakeStart \/ TakeSetPace \/ TakeStop \/ Tick
  <2>1. ASSUME BeginRun PROVE UNCHANGED warpVars
    BY <2>1 DEF BeginRun
  <2>2. ASSUME TakeLine PROVE UNCHANGED warpVars \/ TakeStart \/ TakeSetPace \/ TakeStop
    BY <2>2 DEF TakeLine, TakeMalformed, TakeDuplicate, TakeQuery, TakePointer, TakeKey,
                TakeText, TakeScreenshot, TakeShutdown
  <2>3. ASSUME FlushShutdown \/ Disconnected \/ EndIntake \/ PollStep \/ EndRun \/ AppExits
        PROVE  UNCHANGED warpVars
    BY <2>3 DEF FlushShutdown, Disconnected, EndIntake, PollStep, EndRun, AppExits
  <2> QED
    BY <1>1, <2>1, <2>2, <2>3 DEF Main
<1>2. ASSUME WriteResponse \/ StdoutBreaks \/ SendRequest \/ SendAgain \/ SendMalformed
                \/ CloseStdin \/ Between \/ Render \/ WriterStep \/ Rest
      PROVE  UNCHANGED warpVars
  BY <1>2 DEF WriteResponse, StdoutBreaks, SendRequest, SendAgain, SendMalformed, Sends,
              CloseStdin, Between, Render, WriterStep, Rest, vars
<1>3. ASSUME UNCHANGED vars PROVE UNCHANGED warpVars
  BY <1>3 DEF vars
<1> QED
  BY <1>1, <1>2, <1>3 DEF Next

\* The lines in the channel: the next one is taken, or one is sent.
Malformed == [kind |-> "malformed"]
Lines     == [id : RequestIds, request : Asked \cup {Malformed}]

LEMMA LineSteps ==
    ASSUME [Next]_vars
    PROVE  \/ UNCHANGED lines
           \/ lines # << >> /\ lines' = Tail(lines)
           \/ \E line \in Lines : lines' = Append(lines, line)
<1>1. ASSUME Main PROVE UNCHANGED lines \/ (lines # << >> /\ lines' = Tail(lines))
  <2>1. ASSUME BeginRun PROVE UNCHANGED lines
    BY <2>1 DEF BeginRun, pipeVars
  <2>2. ASSUME TakeLine PROVE lines # << >> /\ lines' = Tail(lines)
    BY <2>2 DEF TakeLine, TakeMalformed, TakeDuplicate, TakeQuery, TakePointer, TakeKey,
                TakeText, TakeScreenshot, TakeShutdown, TakeStart, TakeSetPace, TakeStop,
                Dispatch, Takes
  <2>3. ASSUME FlushShutdown \/ Disconnected \/ EndIntake \/ PollStep \/ EndRun \/ AppExits
        PROVE  UNCHANGED lines
    BY <2>3 DEF FlushShutdown, Disconnected, EndIntake, PollStep, EndRun, AppExits, pipeVars
  <2>4. ASSUME Tick PROVE UNCHANGED lines
    BY <2>4 DEF Tick
  <2> QED
    BY <1>1, <2>1, <2>2, <2>3, <2>4 DEF Main
<1>2. ASSUME NEW id \in RequestIds, NEW request \in Asked \cup {Malformed}, Sends(id, request)
      PROVE  \E line \in Lines : lines' = Append(lines, line)
  <2>1. [id |-> id, request |-> request] \in Lines
    BY DEF Lines
  <2> QED
    BY <1>2, <2>1 DEF Sends
<1>3. ASSUME SendRequest \/ SendAgain \/ SendMalformed
      PROVE  \E line \in Lines : lines' = Append(lines, line)
  <2>1. ASSUME SendRequest PROVE \E line \in Lines : lines' = Append(lines, line)
    BY <1>2, <2>1 DEF SendRequest, Asked
  <2>2. ASSUME SendAgain PROVE \E line \in Lines : lines' = Append(lines, line)
    BY <1>2, <2>2 DEF SendAgain, Asked
  <2>3. ASSUME SendMalformed PROVE \E line \in Lines : lines' = Append(lines, line)
    BY <1>2, <2>3 DEF SendMalformed, Malformed
  <2> QED
    BY <1>3, <2>1, <2>2, <2>3
<1>4. ASSUME WriteResponse \/ StdoutBreaks \/ CloseStdin \/ PacePasses \/ Between \/ Render
                \/ WriterStep \/ Rest
      PROVE  UNCHANGED lines
  BY <1>4 DEF WriteResponse, StdoutBreaks, CloseStdin, PacePasses, Between, Render, WriterStep,
              Rest, vars, pipeVars
<1>5. ASSUME UNCHANGED vars PROVE UNCHANGED lines
  BY <1>5 DEF vars, pipeVars
<1> QED
  BY <1>1, <1>3, <1>4, <1>5 DEF Next

LEMMA LinesKept ==
    ASSUME lines \in Seq(Lines), [Next]_vars
    PROVE  lines' \in Seq(Lines)
<1>1. CASE UNCHANGED lines
  BY <1>1
<1>2. CASE lines # << >> /\ lines' = Tail(lines)
  BY <1>2
<1>3. CASE \E line \in Lines : lines' = Append(lines, line)
  BY <1>3
<1> QED
  BY <1>1, <1>2, <1>3, LineSteps

\* A line that is taken is one that the peer may send.
LEMMA LineIs ==
    ASSUME lines \in Seq(Lines), lines # << >>
    PROVE  /\ Line \in Lines /\ Line.id \in RequestIds
           /\ Line.request.kind = "start" => Line.request.ticks \in Nat
<1>1. Line \in Lines
  BY DEF Line
<1>2. Line.request \in Asked \/ Line.request = Malformed
  BY <1>1 DEF Lines
<1> QED
  BY <1>1, <1>2, RequestsAssumption DEF Lines, Malformed

-----------------------------------------------------------------------------
(* Time advances in warps *)

Warps == [id : 0 .. MaxId, requested : Nat, executed : Nat, slow : BOOLEAN, recent : BOOLEAN]

(***************************************************************************)
(* The types of the warp, and that one which is there was asked for at     *)
(* least one tick; without one, nothing is executed.                       *)
(***************************************************************************)
WarpInv ==
    /\ lines \in Seq(Lines)
    /\ warp \in Warps /\ ticks \in Nat /\ warped \in Nat
    /\ warp.id = 0 => warp = NoWarp
    /\ TicksAreWarps

LEMMA WarpInit == Init => WarpInv
<1>. SUFFICES ASSUME Init PROVE WarpInv
  OBVIOUS
<1>1. NoWarp \in Warps /\ NoWarp.executed = 0 /\ NoWarp.id = 0
  BY BoundsAssumption DEF NoWarp, Warps
<1> QED
  BY <1>1 DEF Init, WarpInv, TicksAreWarps

LEMMA WarpStep == WarpInv /\ [Next]_vars => WarpInv'
<1>. SUFFICES ASSUME WarpInv, [Next]_vars PROVE WarpInv'
  OBVIOUS
<1>. USE DEF WarpInv
<1>0. lines' \in Seq(Lines)
  BY LinesKept
<1>a. NoWarp \in Warps /\ NoWarp.executed = 0 /\ NoWarp.id = 0
  BY BoundsAssumption DEF NoWarp, Warps
<1>1. CASE UNCHANGED warpVars
  BY <1>0, <1>1 DEF warpVars, TicksAreWarps
<1>2. CASE TakeStart
  <2>1. lines # << >> /\ Line.request.kind = "start" /\ warp'.id = warp'.id
    BY <1>2 DEF TakeStart, Dispatch, Takes
  <2>2. Line.id \in RequestIds /\ Line.request.ticks \in Nat
    BY <2>1, LineIs
  <2>. DEFINE r     == Line.request
              named == IF r.pace = "" THEN pace ELSE r.pace
              begun == [NoWarp EXCEPT !.id = Line.id, !.requested = r.ticks,
                                      !.slow = (named = "slow")]
  <2>3. UNCHANGED <<ticks, warped>>
    BY <1>2 DEF TakeStart
  <2>4. UNCHANGED warp \/ (r.ticks # 0 /\ warp.id = 0 /\ warp' = begun)
    BY <1>2 DEF TakeStart
  <2>5. begun \in Warps /\ begun.id # 0 /\ begun.executed = 0 /\ begun.requested = r.ticks
    <3>. DEFINE b == named = "slow"
    <3>1. Line.id \in 0 .. MaxId /\ Line.id # 0 /\ r.ticks \in Nat /\ b \in BOOLEAN
      BY <2>2, BoundsAssumption DEF RequestIds
    <3>. HIDE DEF b, r
    <3>2. ASSUME NEW v, v = [NoWarp EXCEPT !.id = Line.id, !.requested = r.ticks, !.slow = b]
          PROVE  v \in Warps /\ v.id = Line.id /\ v.executed = 0 /\ v.requested = r.ticks
      BY <1>a, <3>1, <3>2 DEF Warps
    <3> QED
      BY <3>1, <3>2 DEF b
  <2>6. CASE UNCHANGED warp
    BY <1>0, <2>3, <2>6 DEF TicksAreWarps
  <2>7. CASE r.ticks # 0 /\ warp.id = 0 /\ warp' = begun
    <3>. HIDE DEF begun
    <3> QED
      BY <1>0, <1>a, <2>2, <2>3, <2>5, <2>7 DEF TicksAreWarps
  <2> QED
    BY <2>4, <2>6, <2>7
<1>3. CASE TakeSetPace
  <2>. DEFINE set == [warp EXCEPT !.slow = (Line.request.pace = "slow"), !.recent = FALSE]
  <2>1. UNCHANGED <<ticks, warped>> /\ (UNCHANGED warp \/ (warp.id # 0 /\ warp' = set))
    BY <1>3 DEF TakeSetPace
  <2>2. set \in Warps /\ set.id = warp.id /\ set.executed = warp.executed
        /\ set.requested = warp.requested
    BY DEF Warps
  <2>3. CASE UNCHANGED warp
    BY <1>0, <2>1, <2>3 DEF TicksAreWarps
  <2>4. CASE warp.id # 0 /\ warp' = set
    <3>. HIDE DEF set
    <3> QED
      BY <1>0, <2>1, <2>2, <2>4 DEF TicksAreWarps
  <2> QED
    BY <2>1, <2>3, <2>4
<1>4. CASE TakeStop
  <2>1. warp' = NoWarp /\ warped' = warped + warp.executed /\ ticks' = ticks
    BY <1>4 DEF TakeStop, EndsWarp
  <2> QED
    BY <1>0, <1>a, <2>1 DEF TicksAreWarps, Warps
<1>5. CASE Tick
  <2>1. warp.id # 0 /\ ticks' = ticks + 1
    BY <1>5 DEF Tick, MayTick
  <2>. DEFINE ticked == [warp EXCEPT !.executed = warp.executed + 1, !.recent = TRUE]
  <2>2. \/ /\ warp.executed + 1 = warp.requested
           /\ warp' = NoWarp /\ warped' = warped + (warp.executed + 1)
        \/ /\ warp.executed + 1 # warp.requested
           /\ warp' = ticked /\ warped' = warped
    BY <1>5 DEF Tick, Executed, EndsWarp
  <2>3. ticked \in Warps /\ ticked.id = warp.id /\ ticked.executed = warp.executed + 1
        /\ ticked.requested = warp.requested
    <3>. DEFINE n == warp.executed + 1
    <3>1. n \in Nat
      BY DEF Warps
    <3>. HIDE DEF n
    <3>2. ASSUME NEW v, v = [warp EXCEPT !.executed = n, !.recent = TRUE]
          PROVE  v \in Warps /\ v.id = warp.id /\ v.executed = n /\ v.requested = warp.requested
      BY <3>1, <3>2 DEF Warps
    <3> QED
      BY <3>2 DEF n
  <2>. HIDE DEF ticked
  <2>4. warp.executed \in Nat /\ warp.requested \in Nat
    BY DEF Warps
  <2>5. CASE warp' = NoWarp /\ warped' = warped + (warp.executed + 1)
    BY SMTT(30), <1>0, <1>a, <2>1, <2>4, <2>5 DEF TicksAreWarps
  <2>6. CASE warp.executed + 1 # warp.requested /\ warp' = ticked /\ warped' = warped
    BY SMTT(30), <1>0, <2>1, <2>3, <2>4, <2>6 DEF TicksAreWarps
  <2> QED
    BY <2>2, <2>5, <2>6
<1>6. CASE PacePasses
  <2>. DEFINE passed == [warp EXCEPT !.recent = FALSE]
  <2>1. warp' = passed /\ UNCHANGED <<ticks, warped>> /\ warp # NoWarp
    BY <1>6 DEF PacePasses, NoWarp
  <2>2. passed \in Warps /\ passed.id = warp.id /\ passed.executed = warp.executed
        /\ passed.requested = warp.requested
    BY DEF Warps
  <2>. HIDE DEF passed
  <2> QED
    BY <1>0, <2>1, <2>2 DEF TicksAreWarps
<1> QED
  BY <1>1, <1>2, <1>3, <1>4, <1>5, <1>6, WarpSteps

(***************************************************************************)
(* Whatever the peer asks for, and however warps are stopped, paced or cut *)
(* short by the budget of a run: the simulation advances in warps only, by *)
(* what they report, and no warp runs past what it was asked for           *)
(* (session/plugin.rs, run and finish).                                    *)
(***************************************************************************)
THEOREM TimeAdvancesInWarps == SafetySpec => []TicksAreWarps
<1>1. WarpInv => TicksAreWarps
  BY DEF WarpInv
<1> QED
  BY <1>1, WarpInit, WarpStep, PTL DEF SafetySpec

-----------------------------------------------------------------------------
(* Types of the capture service *)

PathNames == {""} \cup {request.path : request \in Asked}
Jobs      == [id : RequestIds, path : PathNames, window : 0 .. 2]
AnyJob    == [id : 0 .. MaxId, path : PathNames, window : 0 .. 2]
Actives   == [job : AnyJob, entity : Nat, late : BOOLEAN, writing : BOOLEAN,
              surface : {"unset", "yes", "no"}]
Images    == [entity : Nat \ {0}, filled : BOOLEAN]
Results   == [outcome : {"completed", "rejected"}, job : AnyJob]
Writings  == [job : AnyJob, image : Images, overwrites : {"none", "no", "yes"}]
Services  == [queue : Seq(Jobs), active : Actives, results : Seq(Results)]
Responses == [id : RequestIds, outcome : {"completed", "rejected", "stopped", "protocol"}]
Polls     == [service : Services, live : SUBSET Nat, spawned : Nat,
              writers : SUBSET Writings, responses : Seq(Responses)]

\* What a poll starts from, as in Polled.
Shots == [service |-> service, live |-> live, spawned |-> spawned,
          writers |-> writers, responses |-> << >>]

(***************************************************************************)
(* One capture at a time: it has an entity of its own, which lives until   *)
(* the image is taken or the request is rejected; the verdict on its       *)
(* surface is the one its image carries; and it has one writer or one      *)
(* result exactly while it is being written.                               *)
(***************************************************************************)
OneActive(p) ==
    LET a == p.service.active IN
    /\ ~IsActive(p.service) => a = Idle
    /\ IsActive(p.service) => a.entity \in 1 .. p.spawned
    /\ p.live = IF IsActive(p.service) /\ ~a.writing THEN {a.entity} ELSE {}

OneWriter(p) ==
    LET a == p.service.active IN
    /\ a.writing => IsActive(p.service) /\ a.surface = "yes"
    /\ ~a.writing => p.writers = {} /\ p.service.results = << >>
    /\ a.writing =>
          \/ /\ p.service.results = << >>
             /\ \E w : /\ p.writers = {w} /\ w.job = a.job
                       /\ w.image = [entity |-> a.entity, filled |-> TRUE]
          \/ /\ p.writers = {} /\ Len(p.service.results) = 1
             /\ p.service.results[1].job = a.job

\* What an image in flight says of the active capture.
Matches(p, image) ==
    /\ image.entity <= p.spawned
    /\ image.entity = p.service.active.entity =>
          p.service.active.surface = (IF image.filled THEN "yes" ELSE "no")

FrameMatches(p) ==
    /\ frame \in 0 .. p.spawned
    /\ frame # 0 /\ frame = p.service.active.entity => p.service.active.surface = "unset"

ShotOK(p) ==
    /\ p \in Polls
    /\ OneActive(p) /\ OneWriter(p) /\ FrameMatches(p)
    /\ \A image \in gpu : Matches(p, image)
    /\ \A i \in 1 .. Len(images) : Matches(p, images[i])

Worlds == [primary : 0 .. 2, width : Nat, focus : Fields, fields : SUBSET Fields, changes : Nat]

\* Images have an entity, which no idle service has.
InFlight == gpu \subseteq Images /\ images \in Seq(Images)

ShotInv ==
    /\ lines \in Seq(Lines) /\ world \in Worlds
    /\ InFlight
    /\ ShotOK(Shots)
    /\ DOMAIN files = Paths /\ \A path \in Paths : files[path] # "unfilled"

-----------------------------------------------------------------------------
(* poll() *)

LEMMA IdleIs ==
    /\ Idle \in Actives /\ Idle.job.id = 0 /\ Idle.entity = 0 /\ ~Idle.writing
    /\ Idle.surface = "unset"
<1>1. NoJob \in AnyJob /\ NoJob.id = 0
  BY BoundsAssumption DEF NoJob, AnyJob, PathNames
<1> QED
  BY <1>1 DEF Idle, Actives

LEMMA JobsAre == Jobs \subseteq AnyJob
BY BoundsAssumption DEF Jobs, AnyJob, RequestIds

\* What a poll owes or has answered: it moves, and neither is lost nor doubled.
Owed(p, id) == (IF p.service.active.job.id = id THEN 1 ELSE 0)
                 + Count(p.service.queue, id) + Count(p.responses, id)

Follows(q, p) == ShotOK(q) /\ \A id \in RequestIds : Owed(q, id) = Owed(p, id)

LEMMA PollIs ==
    ASSUME NEW p, ShotOK(p)
    PROVE  /\ p \in Polls /\ p.service \in Services /\ p.service.active \in Actives
           /\ p.service.active.job \in AnyJob
           /\ p.service.queue \in Seq(Jobs) /\ p.service.results \in Seq(Results)
           /\ p.responses \in Seq(Responses) /\ p.spawned \in Nat
           /\ p.live \subseteq Nat /\ p.writers \subseteq Writings
           /\ IsActive(p.service) => p.service.active.job.id \in RequestIds
<1>1. p \in Polls
  BY DEF ShotOK
<1>2. p.service \in Services /\ p.responses \in Seq(Responses) /\ p.spawned \in Nat
      /\ p.live \subseteq Nat /\ p.writers \subseteq Writings
  BY <1>1 DEF Polls
<1>3. p.service.active \in Actives /\ p.service.queue \in Seq(Jobs)
      /\ p.service.results \in Seq(Results)
  BY <1>2 DEF Services
<1>4. p.service.active.job \in AnyJob
  BY <1>3 DEF Actives
<1>5. IsActive(p.service) => p.service.active.job.id \in RequestIds
  BY <1>4, BoundsAssumption DEF IsActive, AnyJob, RequestIds
<1> QED
  BY <1>1, <1>2, <1>3, <1>4, <1>5

\* Answering the active capture and leaving none moves what is owed.
LEMMA AnsweredMoves ==
    ASSUME NEW p, ShotOK(p), IsActive(p.service), NEW q, NEW outcome,
           Answer(p.service.active.job.id, outcome) \in Responses,
           q.service.active = Idle, q.service.queue = p.service.queue,
           q.responses = Append(p.responses, Answer(p.service.active.job.id, outcome)),
           NEW id \in RequestIds
    PROVE  Owed(q, id) = Owed(p, id)
<1>. DEFINE answer == Answer(p.service.active.job.id, outcome)
            a == p.service.active.job.id
            k == Count(p.service.queue, id)
            n == Count(p.responses, id)
<1>1. Count(q.responses, id) = n + (IF answer.id = id THEN 1 ELSE 0)
  <2>1. p.responses \in Seq(Responses)
    BY PollIs
  <2>. HIDE DEF answer
  <2> QED
    BY <2>1, CountAppend DEF answer
<1>2. answer.id = a /\ n \in Nat /\ k \in Nat
  <2>1. p.responses \in Seq(Responses) /\ p.service.queue \in Seq(Jobs)
    BY PollIs
  <2> QED
    BY <2>1, CountIs DEF Answer
<1>3. Idle.job.id # id
  BY IdleIs DEF RequestIds
<1>4. /\ Owed(q, id) = (IF Idle.job.id = id THEN 1 ELSE 0) + k + Count(q.responses, id)
      /\ Owed(p, id) = (IF a = id THEN 1 ELSE 0) + k + n
  BY DEF Owed
<1>. HIDE DEF a, k, n, answer
<1> QED
  BY <1>1, <1>2, <1>3, <1>4

\* Rejecting the active capture.
LEMMA RejectingIs ==
    ASSUME NEW p, ShotOK(p), IsActive(p.service), ~p.service.active.writing, InFlight
    PROVE  Follows(Rejecting(p), p)
<1>. DEFINE a == p.service.active
            answer == Answer(a.job.id, "rejected")
            s == [p.service EXCEPT !.active = Idle]
            q == Rejecting(p)
<1>1. p \in Polls /\ a \in Actives /\ a.job.id \in RequestIds
  BY DEF ShotOK, Polls, Services, Actives, AnyJob, IsActive, RequestIds
<1>2. answer \in Responses
  BY <1>1 DEF Answer, Responses
<1>3. p.responses \in Seq(Responses) /\ Append(p.responses, answer) \in Seq(Responses)
  <2>. HIDE DEF answer
  <2> QED
    BY <1>1, <1>2 DEF Polls
<1>4. /\ q.service = s /\ q.live = p.live \ {a.entity} /\ q.spawned = p.spawned
      /\ q.writers = p.writers /\ q.responses = Append(p.responses, answer)
  BY <1>1 DEF Rejecting, Polls, Services
<1>5. s \in Services /\ s.active = Idle /\ s.queue = p.service.queue
      /\ s.results = p.service.results
  BY <1>1, IdleIs DEF Polls, Services
<1>6. q \in Polls
  <2>1. q.live \in SUBSET Nat
    BY <1>1, <1>4 DEF Polls
  <2>2. q = [p EXCEPT !.service = s, !.live = q.live, !.responses = Append(p.responses, answer)]
    BY <1>1 DEF Rejecting, Polls, Services
  <2>. HIDE DEF q, s, answer
  <2> QED
    BY <1>1, <1>3, <1>5, <2>1, <2>2 DEF Polls
<1>. HIDE DEF q, s, answer
<1>7. ~IsActive(q.service) /\ q.service.active = Idle
  BY <1>4, <1>5, IdleIs DEF IsActive
<1>8. OneActive(q)
  BY <1>4, <1>5, <1>7, IdleIs DEF OneActive, ShotOK
<1>9. OneWriter(q)
  BY <1>4, <1>5, <1>7, IdleIs DEF OneWriter, ShotOK
<1>10. FrameMatches(q)
  BY <1>4, <1>5, <1>7, IdleIs DEF FrameMatches, ShotOK
<1>11. ASSUME NEW image \in Images, Matches(p, image) PROVE Matches(q, image)
  BY <1>4, <1>7, <1>11, IdleIs DEF Matches, Images
<1>12. ShotOK(q)
  BY <1>6, <1>8, <1>9, <1>10, <1>11 DEF ShotOK, InFlight
<1>13. ASSUME NEW id \in RequestIds PROVE Owed(q, id) = Owed(p, id)
  BY <1>2, <1>4, <1>5, AnsweredMoves DEF answer
<1> QED
  BY <1>12, <1>13 DEF q, Follows

LEMMA FollowsSelf == ASSUME NEW p, ShotOK(p) PROVE Follows(p, p)
BY DEF Follows

LEMMA NoSurfaceIs ==
    ASSUME NEW p, ShotOK(p), InFlight
    PROVE  Follows(NoSurface(p), p)
<1>1. NoSurface(p) = p \/ (IsActive(p.service) /\ ~p.service.active.writing
                            /\ NoSurface(p) = Rejecting(p))
  BY DEF NoSurface
<1> QED
  BY <1>1, RejectingIs, FollowsSelf

LEMMA ExpiredIs ==
    ASSUME NEW p, ShotOK(p), InFlight
    PROVE  Follows(Expired(p), p)
<1>1. Expired(p) = p \/ (IsActive(p.service) /\ ~p.service.active.writing
                          /\ Expired(p) = Rejecting(p))
  BY DEF Expired
<1> QED
  BY <1>1, RejectingIs, FollowsSelf

\* The image that a verified capture waits for starts its one writer.
LEMMA TakeImageIs ==
    ASSUME NEW p, ShotOK(p), InFlight, NEW image \in Images, Matches(p, image)
    PROVE  Follows(TakeImage(p, image), p)
<1>. DEFINE a == p.service.active
            w == [job |-> a.job, image |-> image, overwrites |-> "none"]
            b == [a EXCEPT !.writing = TRUE]
            s == [p.service EXCEPT !.active = b]
            q == TakeImage(p, image)
<1>1. CASE ~(IsActive(p.service) /\ ~a.writing /\ a.entity = image.entity)
  BY <1>1, FollowsSelf DEF TakeImage
<1>2. CASE IsActive(p.service) /\ ~a.writing /\ a.entity = image.entity /\ a.surface # "yes"
  BY <1>2, RejectingIs DEF TakeImage
<1>3. CASE IsActive(p.service) /\ ~a.writing /\ a.entity = image.entity /\ a.surface = "yes"
  <2>1. /\ q.service = s /\ q.live = p.live \ {image.entity} /\ q.spawned = p.spawned
        /\ q.writers = p.writers \cup {w} /\ q.responses = p.responses
        /\ q = [p EXCEPT !.service = s, !.live = q.live, !.writers = q.writers]
    <3>1. q = [p EXCEPT !.service.active.writing = TRUE,
                        !.live = p.live \ {image.entity},
                        !.writers = p.writers \cup {w}]
      BY <1>3 DEF TakeImage
    <3> QED
      BY <3>1, PollIs DEF Polls, Services, Actives
  <2>2. /\ b \in Actives /\ b.writing /\ b.job = a.job /\ b.entity = a.entity
        /\ b.surface = a.surface
    BY PollIs DEF Actives
  <2>. HIDE DEF b
  <2>3. s \in Services /\ s.active = b /\ s.queue = p.service.queue
        /\ s.results = p.service.results
    BY <2>2, PollIs DEF Services
  <2>4. w \in Writings /\ w.job = a.job /\ w.image = image
    BY PollIs DEF Writings
  <2>. HIDE DEF s, w, q
  <2>5. q.live \subseteq Nat /\ q.writers \subseteq Writings
    BY <2>1, <2>4, PollIs
  <2>6. q \in Polls
    BY <2>1, <2>3, <2>5, PollIs DEF Polls
  <2>7. IsActive(q.service)
    BY <1>3, <2>1, <2>2, <2>3 DEF IsActive
  <2>8. image = [entity |-> a.entity, filled |-> TRUE]
    <3>1. image.filled = TRUE /\ image.entity = a.entity
      BY <1>3 DEF Matches, Images
    <3> QED
      BY <3>1 DEF Images
  <2>9. OneActive(q)
    BY <1>3, <2>1, <2>2, <2>3, <2>7 DEF OneActive, ShotOK
  <2>10. OneWriter(q)
    <3>1. p.writers = {} /\ p.service.results = << >>
      BY <1>3 DEF ShotOK, OneWriter
    <3>2. q.writers = {w} /\ q.service.results = << >>
      BY <2>1, <2>3, <3>1
    <3> QED
      BY ZenonT(40), <1>3, <2>1, <2>2, <2>3, <2>4, <2>7, <2>8, <3>2 DEF OneWriter
  <2>11. FrameMatches(q)
    BY <2>1, <2>2, <2>3 DEF FrameMatches, ShotOK
  <2>12. ASSUME NEW other, Matches(p, other) PROVE Matches(q, other)
    BY <2>1, <2>2, <2>3, <2>12 DEF Matches
  <2>13. ShotOK(q)
    BY <2>6, <2>9, <2>10, <2>11, <2>12 DEF ShotOK
  <2>14. \A id \in RequestIds : Owed(q, id) = Owed(p, id)
    BY <2>1, <2>2, <2>3 DEF Owed
  <2> QED
    BY <2>13, <2>14 DEF Follows, q
<1> QED
  BY <1>1, <1>2, <1>3

LEMMA FollowsTrans ==
    ASSUME NEW p, NEW q, NEW r, Follows(q, p), Follows(r, q)
    PROVE  Follows(r, p)
BY DEF Follows

\* All images of a poll.
LEMMA TakeImagesIs ==
    ASSUME NEW p, ShotOK(p), InFlight
    PROVE  Follows(Taken(p, images), p)
<1>. DEFINE n == Len(images)
<1>1. n \in Nat /\ DOMAIN images = 1 .. n /\ \A i \in 1 .. n : images[i] \in Images
  BY DEF InFlight
<1>2. PICK h : /\ h[0] = p
               /\ \A i \in 1 .. n : h[i] = TakeImage(h[i - 1], images[i])
               /\ Taken(p, images) = h[n]
  BY <1>1, ImagesFold
<1>. DEFINE Good == {i \in Nat : i <= n => Follows(h[i], p)}
<1>3. 0 \in Good
  BY <1>2, FollowsSelf
<1>4. ASSUME NEW i \in Nat, i \in Good PROVE i + 1 \in Good
  <2>. SUFFICES ASSUME i + 1 <= n PROVE Follows(h[i + 1], p)
    OBVIOUS
  <2>1. Follows(h[i], p) /\ i + 1 \in 1 .. n /\ (i + 1) - 1 = i
    BY <1>1, <1>4
  <2>2. h[i + 1] = TakeImage(h[i], images[i + 1])
    BY <1>2, <2>1
  <2>. DEFINE g == h[i]
              image == images[i + 1]
  <2>3. ShotOK(g) /\ image \in Images /\ Matches(g, image)
    BY <1>1, <2>1 DEF Follows, ShotOK
  <2>. HIDE DEF g, image
  <2>4. Follows(TakeImage(g, image), g)
    BY <2>3, TakeImageIs
  <2>5. Follows(g, p)
    BY <2>1 DEF g
  <2>6. Follows(TakeImage(g, image), p)
    BY <2>4, <2>5, FollowsTrans
  <2> QED
    BY <2>2, <2>6 DEF g, image
<1>5. Nat \subseteq Good
  <2>. HIDE DEF Good
  <2> QED
    BY <1>3, <1>4, NatsIn
<1>6. n \in Good
  BY <1>1, <1>5
<1> QED
  BY <1>1, <1>2, <1>6

\* The result of the one writer answers the active capture.
LEMMA TakeResultIs ==
    ASSUME NEW p, ShotOK(p), InFlight
    PROVE  Follows(TakeResult(p), p)
<1>. DEFINE a == p.service.active
            outcome == Head(p.service.results).outcome
            answer == Answer(a.job.id, outcome)
            s == [p.service EXCEPT !.results = Tail(p.service.results), !.active = Idle]
            q == TakeResult(p)
<1>1. CASE p.service.results = << >>
  BY <1>1, FollowsSelf DEF TakeResult
<1>2. CASE p.service.results # << >>
  <2>1. /\ a.writing /\ IsActive(p.service) /\ p.writers = {} /\ Len(p.service.results) = 1
        /\ p.live = {}
    BY <1>2 DEF ShotOK, OneWriter, OneActive
  <2>2. q = [p EXCEPT !.service.results = Tail(p.service.results), !.service.active = Idle,
                      !.responses = Append(p.responses, answer)]
    BY <1>2, PollIs DEF TakeResult, Polls, Services
  <2>3. /\ q.service = s /\ q.live = p.live /\ q.spawned = p.spawned
        /\ q.writers = p.writers /\ q.responses = Append(p.responses, answer)
        /\ q = [p EXCEPT !.service = s, !.responses = Append(p.responses, answer)]
    <3>1. p \in Polls /\ p.service \in Services
      BY PollIs
    <3>. DEFINE t == Tail(p.service.results)
                c == Append(p.responses, answer)
    <3>3. q = [p EXCEPT !.service.results = t, !.service.active = Idle, !.responses = c]
      BY <2>2
    <3>4. s = [p.service EXCEPT !.results = t, !.active = Idle]
      OBVIOUS
    <3>5. c = Append(p.responses, answer)
      OBVIOUS
    <3>. HIDE DEF t, c, q, s, answer
    <3>6. /\ q.service = s /\ q.live = p.live /\ q.spawned = p.spawned
          /\ q.writers = p.writers /\ q.responses = c
          /\ q = [p EXCEPT !.service = s, !.responses = c]
      <4>1. q.service = [p.service EXCEPT !.results = t, !.active = Idle]
        BY <3>1, <3>3 DEF Polls, Services
      <4>2. /\ q.live = p.live /\ q.spawned = p.spawned
            /\ q.writers = p.writers /\ q.responses = c
        BY <3>1, <3>3 DEF Polls
      <4>3. q.service = s
        BY <3>4, <4>1
      <4>4. q = [p EXCEPT !.service = q.service, !.responses = c]
        BY <3>1, <3>3 DEF Polls
      <4> QED
        BY <4>2, <4>3, <4>4
    <3> QED
      BY <3>5, <3>6
  <2>4. Tail(p.service.results) \in Seq(Results) /\ Tail(p.service.results) = << >>
        /\ outcome \in {"completed", "rejected"}
    <3>. DEFINE r == p.service.results
    <3>1. r \in Seq(Results) /\ Len(r) = 1
      BY <2>1, PollIs
    <3>. HIDE DEF r
    <3>2. Tail(r) \in Seq(Results) /\ Len(Tail(r)) = 0 /\ Head(r) \in Results
      BY <3>1
    <3>3. Tail(r) = << >> /\ Head(r).outcome \in {"completed", "rejected"}
      BY <3>2, EmptySeq DEF Results
    <3> QED
      BY <3>2, <3>3 DEF r
  <2>5. s \in Services /\ s.active = Idle /\ s.queue = p.service.queue /\ s.results = << >>
    <3>. DEFINE t == Tail(p.service.results)
    <3>1. t \in Seq(Results) /\ t = << >>
      BY <2>4
    <3>. HIDE DEF t
    <3>2. ASSUME NEW v, v = [p.service EXCEPT !.results = t, !.active = Idle]
          PROVE  v \in Services /\ v.active = Idle /\ v.queue = p.service.queue /\ v.results = t
      BY <3>1, <3>2, IdleIs, PollIs DEF Services
    <3> QED
      BY <3>1, <3>2 DEF t
  <2>6. answer \in Responses
    BY <2>1, <2>4, PollIs DEF Answer, Responses
  <2>7. Append(p.responses, answer) \in Seq(Responses)
    <3>. HIDE DEF answer
    <3> QED
      BY <2>6, PollIs
  <2>. HIDE DEF s, answer, q, outcome
  <2>8. q \in Polls
    BY <2>3, <2>5, <2>7, PollIs DEF Polls
  <2>9. ~IsActive(q.service) /\ q.service.active = Idle
    BY <2>3, <2>5, IdleIs DEF IsActive
  <2>10. OneActive(q)
    BY <2>1, <2>3, <2>5, <2>9, IdleIs DEF OneActive
  <2>11. OneWriter(q)
    BY <2>1, <2>3, <2>5, <2>9, IdleIs DEF OneWriter
  <2>12. FrameMatches(q)
    BY <2>3, <2>5, <2>9, IdleIs DEF FrameMatches, ShotOK
  <2>13. ASSUME NEW image \in Images, Matches(p, image) PROVE Matches(q, image)
    BY <2>3, <2>9, <2>13, IdleIs DEF Matches, Images
  <2>14. ShotOK(q)
    BY <2>8, <2>10, <2>11, <2>12, <2>13 DEF ShotOK, InFlight
  <2>15. ASSUME NEW id \in RequestIds PROVE Owed(q, id) = Owed(p, id)
    <3>1. Answer(p.service.active.job.id, outcome) = answer
      BY DEF answer
    <3>2. q.responses = Append(p.responses, Answer(p.service.active.job.id, outcome))
      BY <2>3, <3>1
    <3>3. Answer(p.service.active.job.id, outcome) \in Responses
      BY <2>6, <3>1
    <3>4. q.service.active = Idle /\ q.service.queue = p.service.queue
      BY <2>3, <2>5
    <3> QED
      BY <2>1, <3>2, <3>3, <3>4, AnsweredMoves
  <2> QED
    BY <2>14, <2>15 DEF q, Follows
<1> QED
  BY <1>1, <1>2

\* The first of the queue that fits, or 0.
NextOf(queue) ==
    LET Fits(job) == world.primary # 0 /\ job.window = world.primary
    IN  SelectInSeq(queue, Fits)

StaleTo(queue) == IF NextOf(queue) = 0 THEN Len(queue) ELSE NextOf(queue) - 1

LEMMA NextIs ==
    ASSUME NEW queue \in Seq(Jobs)
    PROVE  /\ NextOf(queue) \in 0 .. Len(queue)
           /\ StaleTo(queue) \in 0 .. Len(queue)
<1>. DEFINE I == {i \in 1 .. Len(queue) : world.primary # 0 /\ queue[i].window = world.primary}
<1>1. NextOf(queue) = IF I # {} THEN Min(I) ELSE 0
  BY DEF NextOf, SelectInSeq
<1>2. ASSUME I # {} PROVE Min(I) \in 1 .. Len(queue)
  <2>1. I \subseteq Nat
    OBVIOUS
  <2>2. \E x \in I : \A y \in I : x <= y
    <3>. HIDE DEF I
    <3> QED
      BY <1>2, <2>1, LeastOf
  <2> QED
    BY <2>2 DEF Min
<1>3. NextOf(queue) \in 0 .. Len(queue)
  <2>. HIDE DEF I
  <2> QED
    BY <1>1, <1>2
<1> QED
  BY <1>3 DEF StaleTo

\* The requests that are skipped are rejected, each once.
RejectionsOf(seq) == [i \in DOMAIN seq |-> Answer(seq[i].id, "rejected")]

LEMMA RejectionsAre ==
    ASSUME NEW seq \in Seq(Jobs)
    PROVE  /\ RejectionsOf(seq) \in Seq(Responses)
           /\ \A id : Count(RejectionsOf(seq), id) = Count(seq, id)
<1>. DEFINE r == RejectionsOf(seq)
<1>0. \A i \in 1 .. Len(seq) : seq[i] \in Jobs
  OBVIOUS
<1>1. \A i \in 1 .. Len(seq) : seq[i].id \in RequestIds
  BY <1>0 DEF Jobs
<1>2. DOMAIN seq = 1 .. Len(seq) /\ Len(seq) \in Nat
  OBVIOUS
<1>3. \A i \in 1 .. Len(seq) : Answer(seq[i].id, "rejected") \in Responses
                                /\ Answer(seq[i].id, "rejected").id = seq[i].id
  BY <1>1 DEF Answer, Responses
<1>4. r = [i \in 1 .. Len(seq) |-> Answer(seq[i].id, "rejected")]
  BY <1>2 DEF RejectionsOf
<1>5. r \in Seq(Responses) /\ Len(r) = Len(seq)
  BY <1>2, <1>3, <1>4
<1>6. \A i \in 1 .. Len(seq) : r[i].id = seq[i].id
  BY <1>3, <1>4
<1>7. ASSUME NEW id PROVE Count(r, id) = Count(seq, id)
  <2>. HIDE DEF r
  <2> QED
    BY <1>5, <1>6, CountSame
<1> QED
  BY <1>5, <1>7

\* What starting the next job changes, with the parts of the queue named.
LEMMA StartNextForm ==
    ASSUME NEW p, ShotOK(p), ~IsActive(p.service)
    PROVE  LET queue == p.service.queue
               n     == StaleTo(queue)
               rest  == SubSeq(queue, n + 1, Len(queue))
               r     == p.responses \o RejectionsOf(SubSeq(queue, 1, n))
               after == [p EXCEPT !.responses = r, !.service.queue = rest]
           IN  StartNext(p) =
                 IF NextOf(queue) = 0 THEN after
                 ELSE [after EXCEPT !.service.queue = Tail(@),
                                    !.service.active = [Idle EXCEPT !.job = queue[NextOf(queue)],
                                                                    !.entity = p.spawned + 1],
                                    !.spawned = @ + 1,
                                    !.live = @ \cup {p.spawned + 1}]
<1>. DEFINE queue == p.service.queue
            stale == SubSeq(queue, 1, StaleTo(queue))
            rest  == SubSeq(queue, Len(stale) + 1, Len(queue))
            r     == p.responses \o RejectionsOf(stale)
            after == [p EXCEPT !.responses = r, !.service.queue = rest]
<1>1. StartNext(p) =
        IF NextOf(queue) = 0 THEN after
        ELSE [after EXCEPT !.service.queue = Tail(@),
                           !.service.active = [Idle EXCEPT !.job = queue[NextOf(queue)],
                                                           !.entity = p.spawned + 1],
                           !.spawned = @ + 1,
                           !.live = @ \cup {p.spawned + 1}]
  BY DEF StartNext, NextOf, StaleTo, RejectionsOf, SelectInSeq
<1>2. Len(stale) = StaleTo(queue)
  <2>1. queue \in Seq(Jobs) /\ StaleTo(queue) \in 0 .. Len(queue)
    BY PollIs, NextIs
  <2>. HIDE DEF queue
  <2> QED
    BY <2>1
<1> QED
  BY <1>1, <1>2

\* The queue splits into what is rejected and the rest.
LEMMA QueueSplits ==
    ASSUME NEW queue \in Seq(Jobs), NEW n \in 0 .. Len(queue), NEW rs \in Seq(Responses),
           NEW id
    PROVE  LET r    == rs \o RejectionsOf(SubSeq(queue, 1, n))
               rest == SubSeq(queue, n + 1, Len(queue))
           IN  /\ r \in Seq(Responses) /\ rest \in Seq(Jobs)
               /\ Count(queue, id) + Count(rs, id) = Count(rest, id) + Count(r, id)
               /\ Count(r, id) \in Nat
<1>. DEFINE stale == SubSeq(queue, 1, n)
            rest  == SubSeq(queue, n + 1, Len(queue))
            no    == RejectionsOf(stale)
            r     == rs \o no
<1>1. stale \in Seq(Jobs) /\ rest \in Seq(Jobs)
      /\ Count(queue, id) = Count(stale, id) + Count(rest, id)
  BY CountSplit
<1>. HIDE DEF stale, rest
<1>2. no \in Seq(Responses) /\ Count(no, id) = Count(stale, id)
  BY <1>1, RejectionsAre
<1>. HIDE DEF no
<1>3. r \in Seq(Responses) /\ Count(r, id) = Count(rs, id) + Count(no, id)
  BY <1>2, CountConcat
<1>. HIDE DEF r
<1>4. Count(rs, id) \in Nat /\ Count(no, id) \in Nat /\ Count(rest, id) \in Nat
      /\ Count(r, id) \in Nat
  BY <1>1, <1>2, <1>3, CountIs
<1>5. Count(queue, id) + Count(rs, id) = Count(rest, id) + Count(r, id)
  BY <1>1, <1>2, <1>3, <1>4
<1>6. r \in Seq(Responses) /\ rest \in Seq(Jobs) /\ Count(r, id) \in Nat
  BY <1>1, <1>3, <1>4
<1> QED
  BY <1>5, <1>6 DEF r, rest, no, stale

\* The next job is the first of the rest.
LEMMA RestStarts ==
    ASSUME NEW queue \in Seq(Jobs), NextOf(queue) # 0
    PROVE  LET rest == SubSeq(queue, StaleTo(queue) + 1, Len(queue)) IN
           /\ rest # << >> /\ Head(rest) = queue[NextOf(queue)]
           /\ queue[NextOf(queue)] \in Jobs
<1>. DEFINE n == NextOf(queue)
            rest == SubSeq(queue, n, Len(queue))
<1>1. n \in 1 .. Len(queue) /\ StaleTo(queue) = n - 1 /\ StaleTo(queue) + 1 = n
  BY NextIs DEF StaleTo
<1>2. rest # << >> /\ Head(rest) = queue[n] /\ queue[n] \in Jobs
  <2>. HIDE DEF n
  <2>1. Len(rest) = Len(queue) - n + 1 /\ rest[1] = queue[n] /\ rest \in Seq(Jobs)
    <3>1. \A i \in n .. Len(queue) : queue[i] \in Jobs
      BY <1>1
    <3>2. n \in 1 .. Len(queue) + 1 /\ Len(queue) \in n - 1 .. Len(queue)
      BY <1>1
    <3> QED
      BY <1>1, <3>1, <3>2, SubSeqProperties
  <2>2. Len(rest) # 0
    BY <1>1, <2>1
  <2>. HIDE DEF rest
  <2>3. rest # << >> /\ Head(rest) = rest[1]
    BY <2>1, <2>2, EmptySeq
  <2> QED
    BY <1>1, <2>1, <2>3
<1> QED
  BY <1>1, <1>2

\* Nothing active, nothing written, no entity.
LEMMA IdlePoll ==
    ASSUME NEW p, ShotOK(p), ~IsActive(p.service)
    PROVE  /\ p.service.active = Idle /\ p.live = {} /\ p.writers = {}
           /\ p.service.results = << >>
BY IdleIs DEF ShotOK, OneActive, OneWriter

\* Starting the next capture rejects those before it in the queue.
LEMMA StartNextIs ==
    ASSUME NEW p, ShotOK(p), InFlight
    PROVE  Follows(StartNext(p), p)
<1>. DEFINE queue == p.service.queue
            n     == StaleTo(queue)
            rest  == SubSeq(queue, n + 1, Len(queue))
            r     == p.responses \o RejectionsOf(SubSeq(queue, 1, n))
            q     == StartNext(p)
<1>1. CASE IsActive(p.service)
  BY <1>1, FollowsSelf DEF StartNext
<1>. SUFFICES ASSUME ~IsActive(p.service) PROVE Follows(StartNext(p), p)
  BY <1>1
<1>2. queue \in Seq(Jobs) /\ n \in 0 .. Len(queue) /\ p.responses \in Seq(Responses)
      /\ p.spawned \in Nat /\ p \in Polls /\ p.service \in Services
  BY PollIs, NextIs
<1>3. /\ r \in Seq(Responses) /\ rest \in Seq(Jobs)
      /\ \A id : Count(queue, id) + Count(p.responses, id) = Count(rest, id) + Count(r, id)
      /\ \A id : Count(r, id) \in Nat
  <2>1. ASSUME NEW id
        PROVE /\ r \in Seq(Responses) /\ rest \in Seq(Jobs)
              /\ Count(queue, id) + Count(p.responses, id) = Count(rest, id) + Count(r, id)
              /\ Count(r, id) \in Nat
    BY <1>2, QueueSplits
  <2> QED
    BY <2>1
<1>4. /\ p.service.active = Idle /\ p.live = {} /\ p.writers = {}
      /\ p.service.results = << >>
  BY IdlePoll
<1>. DEFINE after == [p EXCEPT !.responses = r, !.service.queue = rest]
<1>7. /\ after \in Polls /\ after.service \in Services /\ after.service.active = Idle
      /\ after.service.queue = rest /\ after.service.results = << >> /\ after.responses = r
      /\ after.live = {} /\ after.writers = {} /\ after.spawned = p.spawned
  <2>. HIDE DEF r, rest, queue, n, q
  <2> QED
    BY <1>2, <1>3, <1>4 DEF Polls, Services
<1>5. CASE NextOf(queue) = 0
  <2>1. q = after
    BY <1>5, StartNextForm
  <2>. HIDE DEF queue, n, rest, r, q, after
  <2>2. q \in Polls /\ q.service.active = Idle /\ q.service.queue = rest /\ q.responses = r
        /\ q.live = {} /\ q.writers = {} /\ q.spawned = p.spawned /\ q.service.results = << >>
    BY <1>7, <2>1
  <2>3. ~IsActive(q.service)
    BY <2>2, IdleIs DEF IsActive
  <2>4. OneActive(q) /\ OneWriter(q)
    BY <2>2, <2>3, IdleIs DEF OneActive, OneWriter
  <2>5. FrameMatches(q)
    BY <1>4, <2>2 DEF FrameMatches, ShotOK
  <2>6. ASSUME NEW image \in Images, Matches(p, image) PROVE Matches(q, image)
    BY <1>4, <2>2, <2>6 DEF Matches
  <2>7. ShotOK(q)
    BY <2>2, <2>4, <2>5, <2>6 DEF ShotOK, InFlight
  <2>8. ASSUME NEW id \in RequestIds PROVE Owed(q, id) = Owed(p, id)
    <3>1. Count(queue, id) + Count(p.responses, id) = Count(rest, id) + Count(r, id)
      BY <1>3
    <3>2. Idle.job.id # id
      BY IdleIs DEF RequestIds
    <3>3. Owed(q, id) = 0 + Count(rest, id) + Count(r, id)
      BY <2>2, <3>2 DEF Owed
    <3>4. Owed(p, id) = 0 + Count(queue, id) + Count(p.responses, id)
      BY <1>4, <3>2 DEF Owed, queue
    <3>5. Count(queue, id) \in Nat /\ Count(p.responses, id) \in Nat /\ Count(rest, id) \in Nat
          /\ Count(r, id) \in Nat
      BY <1>2, <1>3, CountIs
    <3> QED
      BY <3>1, <3>3, <3>4, <3>5
  <2> QED
    BY <2>7, <2>8 DEF Follows, q
<1>6. CASE NextOf(queue) # 0
  <2>. DEFINE job == queue[NextOf(queue)]
              a   == [Idle EXCEPT !.job = job, !.entity = p.spawned + 1]
              e   == p.spawned + 1
              t   == Tail(rest)
  <2>1. q = [after EXCEPT !.service.queue = Tail(@), !.service.active = a,
                          !.spawned = @ + 1, !.live = @ \cup {e}]
    BY <1>6, StartNextForm
  <2>2. rest # << >> /\ Head(rest) = job /\ job \in Jobs
    BY <1>2, <1>6, RestStarts
  <2>. HIDE DEF job, n, rest, r, q, after
  <2>3. a \in Actives /\ a.job = job /\ a.entity = e /\ ~a.writing /\ a.surface = "unset"
        /\ job.id \in RequestIds
    <3>1. job \in AnyJob /\ job.id \in RequestIds
      BY <2>2, JobsAre DEF Jobs
    <3>2. e \in Nat
      BY <1>2
    <3>. HIDE DEF e
    <3>3. ASSUME NEW v, v = [Idle EXCEPT !.job = job, !.entity = e]
          PROVE  v \in Actives /\ v.job = job /\ v.entity = e /\ ~v.writing
                 /\ v.surface = "unset"
      BY <3>1, <3>2, <3>3, IdleIs DEF Actives
    <3>4. a = [Idle EXCEPT !.job = job, !.entity = e]
      BY DEF e
    <3> QED
      BY <3>1, <3>3, <3>4
  <2>4. t \in Seq(Jobs) /\ e \in Nat /\ e \in 1 .. e
    BY <1>2, <1>3, <2>2
  <2>. HIDE DEF a, t, e, queue
  <2>5. q \in Polls /\ q.service.active = a /\ q.service.queue = t /\ q.responses = r
        /\ q.live = {e} /\ q.writers = {} /\ q.spawned = e /\ q.service.results = << >>
    <3>1. /\ q.service.queue = Tail(after.service.queue) /\ q.service.active = a
          /\ q.service.results = after.service.results /\ q.responses = after.responses
          /\ q.writers = after.writers /\ q.live = after.live \cup {e}
          /\ q.spawned = after.spawned + 1
      BY <1>7, <2>1 DEF Polls, Services
    <3>2. q.service.queue = t /\ q.live = {e} /\ q.spawned = e
      BY <1>7, <3>1 DEF t, e
    <3>3. q = [after EXCEPT !.service = q.service, !.spawned = e, !.live = {e}]
      BY <1>7, <2>1, <3>1, <3>2 DEF Polls
    <3>4. q.service = [after.service EXCEPT !.queue = t, !.active = a]
      BY <1>7, <2>1, <3>1, <3>2 DEF Polls, Services
    <3>5. q.service \in Services
      BY <1>7, <2>3, <2>4, <3>4 DEF Services
    <3>6. q \in Polls
      BY ZenonT(40), <1>7, <2>4, <3>3, <3>5 DEF Polls
    <3> QED
      BY <1>7, <3>1, <3>2, <3>6
  <2>6. IsActive(q.service)
    BY <2>3, <2>5 DEF IsActive, RequestIds
  <2>7. OneActive(q)
    BY <2>3, <2>4, <2>5, <2>6 DEF OneActive
  <2>8. OneWriter(q)
    BY <2>3, <2>5 DEF OneWriter
  <2>9. e > p.spawned
    BY <1>2 DEF e
  <2>10. FrameMatches(q)
    BY <1>2, <2>4, <2>3, <2>5, <2>9 DEF FrameMatches, ShotOK
  <2>11. ASSUME NEW image \in Images, Matches(p, image) PROVE Matches(q, image)
    BY <1>2, <2>4, <2>3, <2>5, <2>9, <2>11 DEF Matches, Images
  <2>12. ShotOK(q)
    BY <2>5, <2>7, <2>8, <2>10, <2>11 DEF ShotOK, InFlight
  <2>13. ASSUME NEW id \in RequestIds PROVE Owed(q, id) = Owed(p, id)
    <3>1. Count(queue, id) + Count(p.responses, id) = Count(rest, id) + Count(r, id)
      BY <1>3
    <3>2. Idle.job.id # id
      BY IdleIs DEF RequestIds
    <3>3. Count(rest, id) = Count(t, id) + (IF job.id = id THEN 1 ELSE 0)
      BY <1>3, <2>2, CountTail DEF t
    <3>4. Owed(q, id) = (IF job.id = id THEN 1 ELSE 0) + Count(t, id) + Count(r, id)
      BY <2>3, <2>5 DEF Owed
    <3>5. Owed(p, id) = 0 + Count(queue, id) + Count(p.responses, id)
      BY <1>4, <3>2 DEF Owed, queue
    <3>6. Count(queue, id) \in Nat /\ Count(p.responses, id) \in Nat /\ Count(t, id) \in Nat
          /\ Count(r, id) \in Nat
      BY <1>2, <1>3, <2>4, CountIs
    <3> QED
      BY <3>1, <3>3, <3>4, <3>5, <3>6
  <2> QED
    BY <2>12, <2>13 DEF Follows, q
<1> QED
  BY <1>5, <1>6

\* A poll answers or keeps what was asked for.
LEMMA PolledIs ==
    ASSUME ShotOK(Shots), InFlight
    PROVE  Follows(Polled, Shots)
<1>. DEFINE p1 == NoSurface(Shots)
            p2 == Expired(p1)
            p3 == Taken(p2, images)
            p4 == TakeResult(p3)
            p5 == StartNext(p4)
<1>1. Polled = p5
  BY DEF Polled, Shots, Taken
<1>2. Follows(p1, Shots)
  BY NoSurfaceIs
<1>. HIDE DEF p1
<1>3. Follows(p2, p1)
  BY <1>2, ExpiredIs DEF Follows
<1>. HIDE DEF p2
<1>4. Follows(p3, p2)
  BY <1>3, TakeImagesIs DEF Follows
<1>. HIDE DEF p3
<1>5. Follows(p4, p3)
  BY <1>4, TakeResultIs DEF Follows
<1>. HIDE DEF p4
<1>6. Follows(p5, p4)
  BY <1>5, StartNextIs DEF Follows
<1>. HIDE DEF p5
<1>7. Follows(p5, Shots)
  BY <1>2, <1>3, <1>4, <1>5, <1>6, FollowsTrans
<1> QED
  BY <1>1, <1>7

-----------------------------------------------------------------------------
(* The steps of the capture service *)

LEMMA ShotSteps ==
    ASSUME [Next]_vars
    PROVE  \/ UNCHANGED shotVars \/ TakeScreenshot \/ PollStep
           \/ Extract \/ Check \/ Readback \/ ReadbackTimeout \/ Writer
<1>1. ASSUME Main PROVE UNCHANGED shotVars \/ TakeScreenshot \/ PollStep
  <2>1. ASSUME TakeLine PROVE UNCHANGED shotVars \/ TakeScreenshot
    BY <2>1 DEF TakeLine, TakeMalformed, TakeDuplicate, TakeQuery, TakePointer, TakeKey,
                TakeText, TakeShutdown, TakeStart, TakeSetPace, TakeStop
  <2>2. ASSUME BeginRun \/ FlushShutdown \/ Disconnected \/ EndIntake \/ EndRun \/ AppExits
        PROVE  UNCHANGED shotVars
    BY <2>2 DEF BeginRun, FlushShutdown, Disconnected, EndIntake, EndRun, AppExits
  <2>3. ASSUME Tick PROVE UNCHANGED shotVars
    BY <2>3 DEF Tick
  <2> QED
    BY <1>1, <2>1, <2>2, <2>3 DEF Main
<1>2. ASSUME WriteResponse \/ StdoutBreaks \/ SendRequest \/ SendAgain \/ SendMalformed
                \/ CloseStdin \/ PacePasses \/ Rest
      PROVE  UNCHANGED shotVars
  BY <1>2 DEF WriteResponse, StdoutBreaks, SendRequest, SendAgain, SendMalformed, Sends,
              CloseStdin, PacePasses, Rest, vars
<1>3. ASSUME Between \/ Render \/ WriterStep
      PROVE  UNCHANGED shotVars \/ Extract \/ Check \/ Readback \/ ReadbackTimeout \/ Writer
  BY <1>3 DEF Between, Render, WriterStep
<1>4. ASSUME UNCHANGED vars PROVE UNCHANGED shotVars
  BY <1>4 DEF vars
<1> QED
  BY <1>1, <1>2, <1>3, <1>4 DEF Next

LEMMA WorldSteps ==
    ASSUME [Next]_vars
    PROVE  UNCHANGED world \/ WorldChanges \/ NativeEvent
<1>1. ASSUME Main PROVE UNCHANGED world
  <2>1. ASSUME TakeLine PROVE UNCHANGED world
    BY <2>1 DEF TakeLine, TakeMalformed, TakeDuplicate, TakeQuery, TakePointer, TakeKey,
                TakeText, TakeScreenshot, TakeShutdown, TakeStart, TakeSetPace, TakeStop,
                inputVars
  <2>2. ASSUME BeginRun \/ FlushShutdown \/ Disconnected \/ EndIntake \/ PollStep \/ EndRun
                  \/ AppExits
        PROVE  UNCHANGED world
    BY <2>2 DEF BeginRun, FlushShutdown, Disconnected, EndIntake, PollStep, EndRun, AppExits,
                inputVars
  <2>3. ASSUME Tick PROVE UNCHANGED world
    BY <2>3 DEF Tick
  <2> QED
    BY <1>1, <2>1, <2>2, <2>3 DEF Main
<1>2. ASSUME WriteResponse \/ StdoutBreaks \/ SendRequest \/ SendAgain \/ SendMalformed
                \/ CloseStdin \/ PacePasses \/ Render \/ WriterStep \/ Rest
      PROVE  UNCHANGED world
  BY <1>2 DEF WriteResponse, StdoutBreaks, SendRequest, SendAgain, SendMalformed, Sends,
              CloseStdin, PacePasses, Render, WriterStep, Rest, vars, inputVars
<1>3. ASSUME Between PROVE UNCHANGED world \/ WorldChanges \/ NativeEvent
  BY <1>3 DEF Between, inputVars
<1>4. ASSUME UNCHANGED vars PROVE UNCHANGED world
  BY <1>4 DEF vars, inputVars
<1> QED
  BY <1>1, <1>2, <1>3, <1>4 DEF Next

LEMMA WorldKept ==
    ASSUME world \in Worlds, [Next]_vars
    PROVE  world' \in Worlds
<1>1. CASE UNCHANGED world
  BY <1>1
<1>. DEFINE next == [world EXCEPT !.changes = @ + 1]
<1>2. next \in Worlds
  BY DEF Worlds
<1>3. CASE NativeEvent
  BY <1>2, <1>3 DEF NativeEvent
<1>4. CASE WorldChanges
  <2>1. world' \in {[next EXCEPT !.primary = window] : window \in {0} \cup Windows}
                  \cup {[next EXCEPT !.width = 1]}
                  \cup {[next EXCEPT !.focus = field] : field \in Fields}
                  \cup {[next EXCEPT !.fields = @ \ {field}] : field \in Fields}
    BY <1>4 DEF WorldChanges
  <2>. HIDE DEF next
  <2> QED
    BY <1>2, <2>1 DEF Worlds, Windows
<1> QED
  BY <1>1, <1>3, <1>4, WorldSteps

\* The parts of the state that a poll starts from.
LEMMA ShotsAre ==
    /\ Shots.service = service /\ Shots.live = live /\ Shots.spawned = spawned
    /\ Shots.writers = writers /\ Shots.responses = << >>
BY DEF Shots

LEMMA ShotInvInit == Init => ShotInv
<1>. SUFFICES ASSUME Init PROVE ShotInv
  OBVIOUS
<1>1. /\ service = [queue |-> << >>, active |-> Idle, results |-> << >>]
      /\ spawned = 0 /\ live = {} /\ frame = 0 /\ gpu = {} /\ images = << >>
      /\ writers = {} /\ files = [path \in Paths |-> "none"] /\ lines = << >>
      /\ world = [primary |-> 1, width |-> 2, focus |-> "name", fields |-> Fields,
                  changes |-> 0]
  BY DEF Init, ShotInit, InputInit
<1>2. service \in Services /\ Shots \in Polls
  BY <1>1, IdleIs DEF Services, Shots, Polls
<1>3. ~IsActive(service) /\ service.active = Idle /\ service.results = << >>
  BY <1>1, IdleIs DEF IsActive
<1>4. OneActive(Shots) /\ OneWriter(Shots)
  BY <1>1, <1>3, ShotsAre, IdleIs DEF OneActive, OneWriter
<1>5. FrameMatches(Shots) /\ ShotOK(Shots)
  BY <1>1, <1>2, <1>4, ShotsAre DEF FrameMatches, ShotOK
<1>6. world \in Worlds /\ InFlight
  BY <1>1 DEF Worlds, Fields, InFlight
<1> QED
  BY <1>1, <1>5, <1>6 DEF ShotInv

\* What the invariant says of the capture service, in the variables themselves.
LEMMA ShotFacts ==
    ASSUME ShotInv
    PROVE  /\ ShotOK(Shots) /\ InFlight
           /\ service \in Services /\ service.active \in Actives /\ service.queue \in Seq(Jobs)
           /\ service.results \in Seq(Results) /\ spawned \in Nat /\ live \subseteq Nat
           /\ writers \subseteq Writings
           /\ OneActive(Shots) /\ OneWriter(Shots) /\ FrameMatches(Shots)
           /\ \A image \in gpu : Matches(Shots, image)
           /\ \A i \in 1 .. Len(images) : Matches(Shots, images[i])
<1>1. ShotOK(Shots) /\ InFlight
  BY DEF ShotInv
<1>2. Shots \in Polls /\ OneActive(Shots) /\ OneWriter(Shots) /\ FrameMatches(Shots)
      /\ (\A image \in gpu : Matches(Shots, image))
      /\ \A i \in 1 .. Len(images) : Matches(Shots, images[i])
  BY <1>1 DEF ShotOK
<1>3. service \in Services /\ spawned \in Nat /\ live \subseteq Nat /\ writers \subseteq Writings
  BY <1>2, ShotsAre DEF Polls
<1>4. service.active \in Actives /\ service.queue \in Seq(Jobs)
      /\ service.results \in Seq(Results)
  BY <1>3 DEF Services
<1> QED
  BY <1>1, <1>2, <1>3, <1>4

\* A step that leaves the poll's part and the images alone.
LEMMA ShotsKept ==
    ASSUME ShotInv, UNCHANGED shotVars
    PROVE  ShotOK(Shots)' /\ InFlight'
BY ShotFacts DEF shotVars, ShotOK, InFlight, Matches, FrameMatches, OneActive, OneWriter, Shots

\* Shots is again a poll's start when its parts are typed.
LEMMA ShotsTyped ==
    ASSUME service' \in Services, spawned' \in Nat, live' \subseteq Nat, writers' \subseteq Writings
    PROVE  Shots' \in Polls
<1>1. << >> \in Seq(Responses)
  OBVIOUS
<1> QED
  BY <1>1 DEF Shots, Polls

LEMMA EnqueueKeeps ==
    ASSUME ShotInv, TakeScreenshot
    PROVE  ShotOK(Shots)' /\ InFlight'
<1>. DEFINE job == [id |-> Line.id, path |-> Line.request.path, window |-> world.primary]
<1>1. \/ UNCHANGED shotVars
      \/ /\ service' = [service EXCEPT !.queue = Append(service.queue, job)]
         /\ UNCHANGED <<spawned, live, frame, gpu, images, writers>>
  BY DEF TakeScreenshot, Enqueue, shotVars
<1>2. CASE UNCHANGED shotVars
  BY <1>2, ShotsKept
<1>3. CASE /\ service' = [service EXCEPT !.queue = Append(service.queue, job)]
           /\ UNCHANGED <<spawned, live, frame, gpu, images, writers>>
  <2>1. job \in Jobs
    <3>1. lines \in Seq(Lines) /\ lines # << >> /\ Line.request.kind = "screenshot"
      BY DEF ShotInv, TakeScreenshot, Dispatch, Takes
    <3>2. Line \in Lines /\ Line.id \in RequestIds
      BY <3>1, LineIs
    <3>3. Line.request \in Asked
      BY <3>1, <3>2 DEF Lines, Malformed
    <3>4. Line.request.path \in PathNames
      BY <3>3 DEF PathNames
    <3>5. world.primary \in 0 .. 2
      BY DEF ShotInv, Worlds
    <3> QED
      BY <3>2, <3>4, <3>5 DEF Jobs
  <2>2. Append(service.queue, job) \in Seq(Jobs)
    <3>. HIDE DEF job
    <3> QED
      BY <2>1, ShotFacts
  <2>. DEFINE queue == Append(service.queue, job)
  <2>3. service' \in Services /\ service'.active = service.active
        /\ service'.results = service.results
    <3>1. service' = [service EXCEPT !.queue = queue] /\ queue \in Seq(Jobs)
      BY <1>3, <2>2
    <3>. HIDE DEF queue
    <3> QED
      BY <3>1, ShotFacts DEF Services
  <2>4. Shots' \in Polls
    BY <1>3, <2>3, ShotFacts, ShotsTyped
  <2>5. OneActive(Shots)' /\ OneWriter(Shots)'
    BY <1>3, <2>3, ShotFacts DEF OneActive, OneWriter, Shots, IsActive
  <2>6. FrameMatches(Shots)'
    BY <1>3, <2>3, ShotFacts DEF FrameMatches, Shots
  <2>7. (\A image \in gpu : Matches(Shots, image))'
        /\ (\A i \in 1 .. Len(images) : Matches(Shots, images[i]))'
    BY <1>3, <2>3, ShotFacts DEF Matches, Shots
  <2>8. InFlight'
    BY <1>3, ShotFacts DEF InFlight
  <2> QED
    BY <2>4, <2>5, <2>6, <2>7, <2>8 DEF ShotOK
<1> QED
  BY <1>1, <1>2, <1>3

LEMMA PollKeeps ==
    ASSUME ShotInv, PollStep
    PROVE  ShotOK(Shots)' /\ InFlight'
<1>. DEFINE q == Polled
<1>1. ShotOK(q)
  BY ShotFacts, PolledIs DEF Follows
<1>2. /\ service' = q.service /\ live' = q.live /\ spawned' = q.spawned
      /\ writers' = q.writers /\ images' = << >> /\ UNCHANGED <<frame, gpu, files>>
  BY DEF PollStep, PollScreenshots
<1>. HIDE DEF q
<1>3. Shots' \in Polls
  BY <1>1, <1>2, PollIs, ShotsTyped
<1>4. OneActive(Shots)' /\ OneWriter(Shots)'
  BY <1>1, <1>2 DEF ShotOK, OneActive, OneWriter, Shots, IsActive
<1>5. FrameMatches(Shots)' /\ (\A image \in gpu : Matches(Shots, image))'
  BY <1>1, <1>2 DEF ShotOK, FrameMatches, Matches, Shots
<1>6. InFlight' /\ (\A i \in 1 .. Len(images) : Matches(Shots, images[i]))'
  BY <1>2, ShotFacts DEF InFlight
<1> QED
  BY <1>3, <1>4, <1>5, <1>6 DEF ShotOK

LEMMA ExtractKeeps ==
    ASSUME ShotInv, Extract
    PROVE  ShotOK(Shots)' /\ InFlight'
<1>1. /\ IsActive(service) /\ service.active.surface = "unset"
      /\ frame' = service.active.entity
      /\ UNCHANGED <<service, spawned, live, gpu, images, writers, files>>
  BY DEF Extract
<1>2. service.active.entity \in 1 .. spawned
  BY <1>1, ShotFacts, ShotsAre DEF OneActive
<1>3. FrameMatches(Shots)'
  BY <1>1, <1>2, ShotFacts DEF FrameMatches, Shots
<1> QED
  BY <1>1, <1>3, ShotFacts DEF ShotOK, InFlight, Matches, OneActive, OneWriter, Shots

LEMMA LateKeeps ==
    ASSUME ShotInv, ReadbackTimeout
    PROVE  ShotOK(Shots)' /\ InFlight'
<1>. DEFINE a == [service.active EXCEPT !.late = TRUE]
<1>1. /\ service' = [service EXCEPT !.active = a] /\ IsActive(service)
      /\ UNCHANGED <<spawned, live, frame, gpu, images, writers, files>>
  BY ShotFacts DEF ReadbackTimeout, Services
<1>2. a \in Actives /\ a.job = service.active.job /\ a.entity = service.active.entity
      /\ a.writing = service.active.writing /\ a.surface = service.active.surface
  BY ShotFacts DEF Actives
<1>. HIDE DEF a
<1>3. service' \in Services /\ service'.active = a /\ service'.queue = service.queue
      /\ service'.results = service.results
  BY <1>1, <1>2, ShotFacts DEF Services
<1>4. Shots' \in Polls
  BY <1>1, <1>3, ShotFacts, ShotsTyped
<1>5. IsActive(service')
  BY <1>1, <1>2, <1>3 DEF IsActive
<1>6. OneActive(Shots)' /\ OneWriter(Shots)'
  BY ZenonT(40), <1>1, <1>2, <1>3, <1>5, ShotFacts DEF OneActive, OneWriter, Shots
<1>7. FrameMatches(Shots)'
  BY <1>1, <1>2, <1>3, ShotFacts DEF FrameMatches, Shots
<1>8. (\A image \in gpu : Matches(Shots, image))'
      /\ (\A i \in 1 .. Len(images) : Matches(Shots, images[i]))'
  BY ZenonT(40), <1>1, <1>2, <1>3, ShotFacts DEF Matches, Shots
<1>9. InFlight'
  BY <1>1, ShotFacts DEF InFlight
<1> QED
  BY <1>4, <1>6, <1>7, <1>8, <1>9 DEF ShotOK

LEMMA ReadbackKeeps ==
    ASSUME ShotInv, Readback
    PROVE  ShotOK(Shots)' /\ InFlight'
<1>1. PICK image \in gpu : gpu' = gpu \ {image} /\ images' \in {images, Append(images, image)}
  BY DEF Readback
<1>2. UNCHANGED <<service, spawned, live, frame, writers, files>>
  BY DEF Readback
<1>3. image \in Images /\ images \in Seq(Images) /\ gpu \subseteq Images
  BY ShotFacts DEF InFlight
<1>4. InFlight'
  BY <1>1, <1>3 DEF InFlight
<1>5. \A i \in 1 .. Len(images') : images'[i] = image \/ (i \in 1 .. Len(images)
                                                           /\ images'[i] = images[i])
  BY <1>1, <1>3
<1>6. \A i \in 1 .. Len(images') : Matches(Shots, images'[i])
  BY <1>5, ShotFacts
<1>7. Shots' = Shots
  BY <1>2 DEF Shots
<1>8. (\A i \in 1 .. Len(images) : Matches(Shots, images[i]))'
  BY <1>6, <1>7 DEF Matches
<1>9. (\A other \in gpu : Matches(Shots, other))'
  BY <1>1, <1>7, ShotFacts DEF Matches
<1>10. (Shots \in Polls)' /\ OneActive(Shots)' /\ OneWriter(Shots)' /\ FrameMatches(Shots)'
  BY <1>2, <1>7, ShotFacts, ShotsTyped DEF OneActive, OneWriter, FrameMatches
<1> QED
  BY <1>4, <1>8, <1>9, <1>10 DEF ShotOK

\* Until its frame is checked, nothing in flight is of the active capture.
LEMMA CheckKeeps ==
    ASSUME ShotInv, Check
    PROVE  ShotOK(Shots)' /\ InFlight'
<1>1. PICK available \in BOOLEAN :
         /\ gpu' = gpu \cup {[entity |-> frame, filled |-> available]}
         /\ service' = IF service.active.entity = frame
                       THEN [service EXCEPT !.active.surface = IF available THEN "yes" ELSE "no"]
                       ELSE service
  BY DEF Check
<1>2. frame # 0 /\ frame' = 0 /\ UNCHANGED <<spawned, live, images, writers, files>>
  BY DEF Check
<1>. DEFINE new == [entity |-> frame, filled |-> available]
            verdict == IF available THEN "yes" ELSE "no"
<1>3. frame \in 1 .. spawned
  BY <1>2, ShotFacts, ShotsAre DEF FrameMatches
<1>4. new \in Images /\ new.entity = frame /\ new.filled = available
  BY <1>3, ShotFacts DEF Images
<1>5. InFlight'
  BY <1>1, <1>2, <1>4, ShotFacts DEF InFlight
<1>6. CASE service.active.entity # frame
  <2>1. service' = service
    BY <1>1, <1>6
  <2>2. Shots' = Shots
    BY <1>2, <2>1 DEF Shots
  <2>3. (Shots \in Polls)' /\ OneActive(Shots)' /\ OneWriter(Shots)'
    BY <1>2, <2>1, <2>2, ShotFacts, ShotsTyped DEF OneActive, OneWriter
  <2>4. FrameMatches(Shots)'
    BY <1>2, <2>2, ShotFacts, ShotsAre DEF FrameMatches
  <2>5. Matches(Shots, new)
    BY <1>3, <1>4, <1>6, ShotsAre DEF Matches
  <2>6. (\A image \in gpu : Matches(Shots, image))'
        /\ (\A i \in 1 .. Len(images) : Matches(Shots, images[i]))'
    BY <1>1, <1>2, <2>2, <2>5, ShotFacts DEF Matches
  <2> QED
    BY <1>5, <2>3, <2>4, <2>6 DEF ShotOK
<1>7. CASE service.active.entity = frame
  <2>. DEFINE a == [service.active EXCEPT !.surface = verdict]
  <2>1. service' = [service EXCEPT !.active = a]
    BY <1>1, <1>7, ShotFacts DEF Services
  <2>2. verdict \in {"unset", "yes", "no"}
    OBVIOUS
  <2>. HIDE DEF verdict
  <2>3. a \in Actives /\ a.job = service.active.job /\ a.entity = service.active.entity
        /\ a.writing = service.active.writing /\ a.surface = verdict
    BY <2>2, ShotFacts DEF Actives
  <2>. HIDE DEF a
  <2>4. service' \in Services /\ service'.active = a /\ service'.queue = service.queue
        /\ service'.results = service.results
    BY <2>1, <2>3, ShotFacts DEF Services
  <2>5. Shots' \in Polls
    BY <1>2, <2>4, ShotFacts, ShotsTyped
  <2>6. service.active.surface = "unset" /\ ~service.active.writing /\ IsActive(service)
    <3>1. service.active.surface = "unset"
      BY <1>2, <1>7, ShotFacts, ShotsAre DEF FrameMatches
    <3>2. IsActive(service)
      BY <1>2, <1>7, ShotFacts, ShotsAre, IdleIs DEF OneActive
    <3> QED
      BY <3>1, <3>2, ShotFacts, ShotsAre DEF OneWriter
  <2>7. IsActive(service')
    BY <2>3, <2>4, <2>6 DEF IsActive
  <2>8. OneActive(Shots)'
    BY <1>2, <2>3, <2>4, <2>6, <2>7, ShotFacts DEF OneActive, Shots
  <2>9. OneWriter(Shots)'
    BY <1>2, <2>3, <2>4, <2>6, <2>7, ShotFacts DEF OneWriter, Shots
  <2>10. FrameMatches(Shots)'
    <3>1. frame' = 0 /\ spawned' = spawned /\ spawned \in Nat
      BY <1>2, ShotFacts
    <3> QED
      BY <3>1 DEF FrameMatches, Shots
  <2>11. ASSUME NEW image, Matches(Shots, image), image.entity = frame PROVE FALSE
    BY <1>7, <2>6, <2>11, ShotsAre DEF Matches
  <2>12. ASSUME NEW image, Matches(Shots, image) PROVE Matches(Shots', image)
    BY <1>2, <1>7, <2>3, <2>4, <2>11, <2>12 DEF Matches, Shots
  <2>13. Matches(Shots', new)
    <3>1. Shots'.spawned = spawned /\ Shots'.service.active = a
      BY <1>2, <2>4 DEF Shots
    <3> QED
      BY <1>3, <1>4, <2>3, <3>1 DEF Matches, verdict
  <2>14. (\A image \in gpu : Matches(Shots, image))'
        /\ (\A i \in 1 .. Len(images) : Matches(Shots, images[i]))'
    <3>1. \A image \in gpu' : Matches(Shots', image)
      BY <1>1, <2>12, <2>13, ShotFacts
    <3>2. \A i \in 1 .. Len(images') : Matches(Shots', images'[i])
      BY <1>2, <2>12, ShotFacts
    <3> QED
      BY <3>1, <3>2
  <2> QED
    BY <1>5, <2>5, <2>8, <2>9, <2>10, <2>14 DEF ShotOK
<1> QED
  BY <1>6, <1>7

\* While a writer runs the active capture is the one it writes.
LEMMA WriterIs ==
    ASSUME ShotInv, NEW w \in writers
    PROVE  /\ writers = {w} /\ service.results = << >>
           /\ service.active.writing /\ IsActive(service) /\ service.active.surface = "yes"
           /\ w.job = service.active.job /\ w \in Writings
           /\ w.image = [entity |-> service.active.entity, filled |-> TRUE]
<1>1. service.active.writing
  BY ShotFacts, ShotsAre DEF OneWriter
<1>2. IsActive(service) /\ service.active.surface = "yes"
  BY <1>1, ShotFacts, ShotsAre DEF OneWriter
<1>3. /\ service.results = << >>
      /\ \E v : /\ writers = {v} /\ v.job = service.active.job
                /\ v.image = [entity |-> service.active.entity, filled |-> TRUE]
  BY <1>1, ShotFacts, ShotsAre DEF OneWriter
<1> QED
  BY <1>1, <1>2, <1>3, ShotFacts

LEMMA ReportKeeps ==
    ASSUME ShotInv, NEW w \in writers, NEW outcome \in {"completed", "rejected"}, NEW entry,
           WriterReports(w, outcome, entry), entry # "unfilled" \/ w.job.path \notin Paths
    PROVE  /\ ShotOK(Shots)' /\ InFlight'
           /\ (DOMAIN files = Paths /\ \A path \in Paths : files[path] # "unfilled")'
<1>. DEFINE result == [outcome |-> outcome, job |-> w.job]
            results == Append(service.results, result)
<1>1. /\ writers' = writers \ {w} /\ service' = [service EXCEPT !.results = results]
      /\ files' = [files EXCEPT ![w.job.path] = entry]
      /\ UNCHANGED <<spawned, live, frame, gpu, images>>
  BY DEF WriterReports
<1>2. result \in Results /\ result.job = service.active.job
  BY WriterIs DEF Results, Writings
<1>. HIDE DEF result
<1>3. results \in Seq(Results) /\ Len(results) = 1 /\ results[1] = result
  <2>1. service.results = << >> /\ service.results \in Seq(Results)
    BY WriterIs, ShotFacts
  <2> QED
    BY <1>2, <2>1
<1>. HIDE DEF results
<1>4. service' \in Services /\ service'.active = service.active
      /\ service'.queue = service.queue /\ service'.results = results
  BY <1>1, <1>3, ShotFacts DEF Services
<1>5. Shots' \in Polls
  <2>1. writers' \subseteq Writings /\ live' \subseteq Nat /\ spawned' \in Nat
    BY <1>1, ShotFacts
  <2> QED
    BY <1>4, <2>1, ShotsTyped
<1>6. IsActive(service') /\ writers' = {}
  BY <1>1, <1>4, WriterIs DEF IsActive
<1>7. OneActive(Shots)'
  BY <1>1, <1>4, <1>6, WriterIs, ShotFacts DEF OneActive, Shots
<1>8. OneWriter(Shots)'
  BY <1>1, <1>2, <1>3, <1>4, <1>6, WriterIs DEF OneWriter, Shots
<1>9. FrameMatches(Shots)'
  BY <1>1, <1>4, ShotFacts DEF FrameMatches, Shots
<1>10. (\A image \in gpu : Matches(Shots, image))'
      /\ (\A i \in 1 .. Len(images) : Matches(Shots, images[i]))'
  BY <1>1, <1>4, ShotFacts DEF Matches, Shots
<1>11. InFlight'
  BY <1>1, ShotFacts DEF InFlight
<1>12. DOMAIN files' = Paths /\ \A path \in Paths : files'[path] # "unfilled"
  <2>1. DOMAIN files = Paths /\ \A path \in Paths : files[path] # "unfilled"
    BY DEF ShotInv
  <2> QED
    BY <1>1, <2>1
<1> QED
  BY <1>5, <1>7, <1>8, <1>9, <1>10, <1>11, <1>12 DEF ShotOK

LEMMA WriterKeeps ==
    ASSUME ShotInv, Writer
    PROVE  /\ ShotOK(Shots)' /\ InFlight'
           /\ (DOMAIN files = Paths /\ \A path \in Paths : files[path] # "unfilled")'
<1>1. PICK w \in writers : Prepare(w) \/ WriteFails(w) \/ Rename(w)
  BY DEF Writer
<1>2. CASE WriteFails(w)
  <2>1. WriterReports(w, "rejected", files[w.job.path])
    BY <1>2 DEF WriteFails
  <2>2. files[w.job.path] # "unfilled" \/ w.job.path \notin Paths
    BY DEF ShotInv
  <2> QED
    BY <2>1, <2>2, ReportKeeps
<1>3. CASE Rename(w)
  <2>1. w.image.filled = TRUE
    BY WriterIs
  <2>2. WriterReports(w, "completed", "image")
    BY <1>3, <2>1 DEF Rename
  <2> QED
    BY <2>2, ReportKeeps
<1>4. CASE Prepare(w)
  <2>. DEFINE o == IF files[w.job.path] = "none" THEN "no" ELSE "yes"
              v == [w EXCEPT !.overwrites = o]
  <2>1. writers' = (writers \ {w}) \cup {v}
        /\ UNCHANGED <<service, spawned, live, frame, gpu, images, files>>
    BY <1>4 DEF Prepare
  <2>2. o \in {"none", "no", "yes"}
    OBVIOUS
  <2>. HIDE DEF o
  <2>3. v \in Writings /\ v.job = w.job /\ v.image = w.image
    BY <2>2, WriterIs DEF Writings
  <2>. HIDE DEF v
  <2>4. writers' = {v}
    BY <2>1, WriterIs
  <2>5. Shots' \in Polls
    BY <2>1, <2>3, <2>4, ShotFacts, ShotsTyped
  <2>6. OneWriter(Shots)'
    BY <2>1, <2>3, <2>4, WriterIs DEF OneWriter, Shots, IsActive
  <2>7. OneActive(Shots)' /\ FrameMatches(Shots)' /\ InFlight'
    BY <2>1, ShotFacts DEF OneActive, FrameMatches, Shots, InFlight, IsActive
  <2>8. (\A image \in gpu : Matches(Shots, image))'
      /\ (\A i \in 1 .. Len(images) : Matches(Shots, images[i]))'
    BY <2>1, ShotFacts DEF Matches, Shots
  <2>9. (DOMAIN files = Paths /\ \A path \in Paths : files[path] # "unfilled")'
    BY <2>1 DEF ShotInv
  <2> QED
    BY <2>5, <2>6, <2>7, <2>8, <2>9 DEF ShotOK
<1> QED
  BY <1>1, <1>2, <1>3, <1>4

LEMMA ShotStep == ShotInv /\ [Next]_vars => ShotInv'
<1>. SUFFICES ASSUME ShotInv, [Next]_vars PROVE ShotInv'
  OBVIOUS
<1>1. lines' \in Seq(Lines) /\ world' \in Worlds
  BY LinesKept, WorldKept DEF ShotInv
<1>. DEFINE Filled == DOMAIN files = Paths /\ \A path \in Paths : files[path] # "unfilled"
<1>2. ASSUME UNCHANGED files PROVE Filled'
  BY <1>2 DEF ShotInv
<1>. SUFFICES ShotOK(Shots)' /\ InFlight' /\ Filled'
  BY <1>1 DEF ShotInv
<1>4. CASE UNCHANGED shotVars
  BY <1>2, <1>4, ShotsKept DEF shotVars
<1>5. CASE TakeScreenshot
  BY <1>2, <1>5, EnqueueKeeps DEF TakeScreenshot
<1>6. CASE PollStep
  BY <1>2, <1>6, PollKeeps DEF PollStep, PollScreenshots
<1>7. CASE Extract
  BY <1>2, <1>7, ExtractKeeps DEF Extract
<1>8. CASE Check
  BY <1>2, <1>8, CheckKeeps DEF Check
<1>9. CASE Readback
  BY <1>2, <1>9, ReadbackKeeps DEF Readback
<1>10. CASE ReadbackTimeout
  BY <1>2, <1>10, LateKeeps DEF ReadbackTimeout
<1>11. CASE Writer
  BY <1>11, WriterKeeps
<1> QED
  BY <1>4, <1>5, <1>6, <1>7, <1>8, <1>9, <1>10, <1>11, ShotSteps

(***************************************************************************)
(* An image is written only for the capture that asked for it, filled, and *)
(* by one writer at a time, whose result answers that capture; whatever is *)
(* late, missing or of another request (session/screenshot/capture.rs,     *)
(* poll).                                                                  *)
(***************************************************************************)
THEOREM WritersServeActives == SafetySpec => []WriterServesActive
<1>1. ASSUME ShotInv PROVE WriterServesActive
  <2>. DEFINE n == Cardinality(writers)
              m == Len(service.results)
  <2>1. ASSUME ~service.active.writing
        PROVE  writers = {} /\ service.results = << >>
    BY <1>1, <2>1, ShotFacts, ShotsAre DEF OneWriter
  <2>2. ASSUME service.active.writing
        PROVE  \/ writers = {} /\ Len(service.results) = 1
                  /\ service.results[1].job = service.active.job
               \/ \E w : writers = {w} /\ service.results = << >>
    BY <1>1, <2>2, ShotFacts, ShotsAre DEF OneWriter
  <2>3. n + m = IF service.active.writing THEN 1 ELSE 0
    <3>1. writers = {} => n = 0
      BY FS_EmptySet
    <3>2. service.results = << >> => m = 0
      OBVIOUS
    <3>3. (\E w : writers = {w}) => n = 1
      BY FS_Singleton
    <3>. HIDE DEF n, m
    <3>4. CASE service.active.writing
      <4>1. (n = 0 /\ m = 1) \/ (n = 1 /\ m = 0)
        BY <2>2, <3>1, <3>2, <3>3, <3>4 DEF m
      <4> QED
        BY <3>4, <4>1
    <3>5. CASE ~service.active.writing
      BY <2>1, <3>1, <3>2, <3>5
    <3> QED
      BY <3>4, <3>5
  <2>4. ASSUME NEW w \in writers
        PROVE  w.job = service.active.job
               /\ w.image = [entity |-> service.active.entity, filled |-> TRUE]
    BY <1>1, WriterIs
  <2>5. ASSUME NEW r \in ToSet(service.results) PROVE r.job = service.active.job
    <3>1. PICK i \in 1 .. Len(service.results) : r = service.results[i]
      BY <1>1, ShotFacts DEF ToSet
    <3>2. service.active.writing
      BY <2>1, <3>1
    <3>3. i = 1 /\ service.results[1].job = service.active.job
      BY <2>2, <3>1, <3>2
    <3> QED
      BY <3>1, <3>3
  <2>6. live = IF IsActive(service) /\ ~service.active.writing
               THEN {service.active.entity} ELSE {}
    BY <1>1, ShotFacts, ShotsAre DEF OneActive
  <2> QED
    BY <1>1, <2>3, <2>4, <2>5, <2>6 DEF WriterServesActive, ShotInv
<1> QED
  BY <1>1, ShotInvInit, ShotStep, PTL DEF SafetySpec

-----------------------------------------------------------------------------
(* Every line is answered once *)

Outcomes == {"completed", "rejected", "stopped", "protocol"}

\* What may be in the channel to the writer: the answer of shutdown as well.
Written == Responses \cup [id : RequestIds, outcome : {"shutdown"}]

LEMMA WrittenIs == Seq(Responses) \subseteq Seq(Written)
<1>1. Responses \subseteq Written
  BY DEF Written
<1>. HIDE DEF Written, Responses
<1> QED
  BY <1>1

\* The requests being worked on stay the same.
SameWork == /\ warp'.id = warp.id /\ service'.active.job.id = service.active.job.id
            /\ service'.queue = service.queue

\* A line is taken, and answered at once.
TakesAnswers(o) ==
    /\ lines # << >> /\ lines' = Tail(lines)
    /\ output' = output \o <<Answer(Line.id, o)>>
    /\ UNCHANGED <<sent, answered>> /\ SameWork

Enqueues ==
    /\ Dispatch({"screenshot"}) /\ Enqueue(Line.id, Line.request.path)
    /\ UNCHANGED <<output, warp>>

Begins ==
    /\ Dispatch({"start"}) /\ warp.id = 0 /\ warp'.id = Line.id
    /\ UNCHANGED <<output, service>>

\* Nothing that counts.
Idles == UNCHANGED <<lines, output, sent, answered>> /\ SameWork

OnceInv ==
    /\ WarpInv /\ ShotInv
    /\ sent \in [RequestIds -> Nat] /\ answered \in [RequestIds -> Nat]
    /\ output \in Seq(Written)
    /\ AnsweredOnce

LEMMA TakeSteps ==
    ASSUME TakeLine, OnceInv
    PROVE  \/ \E o \in Outcomes : TakesAnswers(o)
           \/ TakesAnswers("shutdown")
           \/ Enqueues \/ Begins \/ TakeStop
<1>. DEFINE Taking(o) == /\ lines # << >> /\ lines' = Tail(lines)
                         /\ output' = output \o <<Answer(Line.id, o)>>
                         /\ UNCHANGED <<sent, answered>>
<1>0. ASSUME NEW o, Taking(o), SameWork PROVE TakesAnswers(o)
  BY <1>0 DEF TakesAnswers
<1>1. ASSUME TakeMalformed \/ TakeDuplicate PROVE TakesAnswers("protocol")
  BY <1>1 DEF TakeMalformed, TakeDuplicate, Takes, Respond, PipesRest, TakesAnswers, SameWork,
              warpVars, shotVars
<1>2. ASSUME NEW ok, Answers(ok)
      PROVE  \E o \in Outcomes : output' = output \o <<Answer(Line.id, o)>>
  BY <1>2 DEF Answers, Respond, Outcomes
<1>3. ASSUME NEW kinds, NEW o, Dispatch(kinds), SameWork,
             output' = output \o <<Answer(Line.id, o)>>
      PROVE  TakesAnswers(o)
  BY <1>3 DEF Dispatch, Takes, PipesRest, TakesAnswers
<1>4. ASSUME TakeQuery PROVE \E o \in Outcomes : TakesAnswers(o)
  <2>1. SameWork /\ (\E o \in Outcomes : output' = output \o <<Answer(Line.id, o)>>)
    BY <1>2, <1>4 DEF TakeQuery, SameWork, warpVars, shotVars
  <2> QED
    BY <1>3, <1>4, <2>1 DEF TakeQuery
<1>5. ASSUME TakePointer PROVE \E o \in Outcomes : TakesAnswers(o)
  <2>. DEFINE ok == PointerResult(Line.request).ok
  <2>1. Answers(ok) /\ SameWork
    BY <1>5 DEF TakePointer, SameWork, warpVars, shotVars
  <2>. HIDE DEF ok
  <2>2. \E o \in Outcomes : output' = output \o <<Answer(Line.id, o)>>
    BY <1>2, <2>1
  <2> QED
    BY <1>3, <1>5, <2>1, <2>2 DEF TakePointer
<1>6. ASSUME TakeKey PROVE \E o \in Outcomes : TakesAnswers(o)
  <2>. DEFINE ok == PressKey(Line.request.key, Line.request.kind = "keyPress").ok
  <2>1. Answers(ok) /\ SameWork
    BY <1>6 DEF TakeKey, SameWork, warpVars, shotVars
  <2>. HIDE DEF ok
  <2>2. \E o \in Outcomes : output' = output \o <<Answer(Line.id, o)>>
    BY <1>2, <2>1
  <2> QED
    BY <1>3, <1>6, <2>1, <2>2 DEF TakeKey
<1>7. ASSUME TakeText PROVE \E o \in Outcomes : TakesAnswers(o)
  <2>. DEFINE ok == TextInput(Line.request.value).ok
  <2>1. Answers(ok) /\ SameWork
    BY <1>7 DEF TakeText, SameWork, warpVars, shotVars
  <2>. HIDE DEF ok
  <2>2. \E o \in Outcomes : output' = output \o <<Answer(Line.id, o)>>
    BY <1>2, <2>1
  <2> QED
    BY <1>3, <1>7, <2>1, <2>2 DEF TakeText
<1>8. ASSUME TakeScreenshot PROVE Enqueues \/ \E o \in Outcomes : TakesAnswers(o)
  <2>1. Enqueues \/ (Answers(FALSE) /\ SameWork)
    BY <1>8 DEF TakeScreenshot, Enqueues, SameWork, warpVars
  <2>2. Answers(FALSE) => \E o \in Outcomes : output' = output \o <<Answer(Line.id, o)>>
    BY <1>2
  <2> QED
    BY <1>3, <1>8, <2>1, <2>2 DEF TakeScreenshot
<1>9. ASSUME TakeStart PROVE Begins \/ \E o \in Outcomes : TakesAnswers(o)
  <2>1. Begins \/ (Answers(FALSE) /\ SameWork)
    <3>. DEFINE r     == Line.request
                named == IF r.pace = "" THEN pace ELSE r.pace
                begun == [NoWarp EXCEPT !.id = Line.id, !.requested = r.ticks,
                                        !.slow = (named = "slow")]
    <3>1. begun.id = Line.id
      BY DEF NoWarp
    <3>2. \/ Answers(FALSE) /\ UNCHANGED warp
          \/ warp.id = 0 /\ warp' = begun /\ UNCHANGED output
      BY <1>9 DEF TakeStart
    <3>. HIDE DEF begun
    <3>3. UNCHANGED service /\ Dispatch({"start"})
      BY <1>9 DEF TakeStart, shotVars
    <3> QED
      BY <3>1, <3>2, <3>3 DEF Begins, SameWork
  <2>2. Answers(FALSE) => \E o \in Outcomes : output' = output \o <<Answer(Line.id, o)>>
    BY <1>2
  <2> QED
    BY <1>3, <1>9, <2>1, <2>2 DEF TakeStart
<1>10. ASSUME TakeSetPace PROVE \E o \in Outcomes : TakesAnswers(o)
  <2>. DEFINE ok == Line.request.pace # "never"
  <2>1. Answers(ok) /\ SameWork
    <3>1. warp'.id = warp.id
      <4>. DEFINE b == Line.request.pace = "slow"
      <4>1. warp' = warp \/ warp' = [warp EXCEPT !.slow = b, !.recent = FALSE]
        BY <1>10 DEF TakeSetPace
      <4>. HIDE DEF b
      <4>2. warp \in Warps
        BY DEF OnceInv, WarpInv
      <4> QED
        BY <4>1, <4>2 DEF Warps
    <3> QED
      BY <1>10, <3>1 DEF TakeSetPace, SameWork, shotVars
  <2>. HIDE DEF ok
  <2>2. \E o \in Outcomes : output' = output \o <<Answer(Line.id, o)>>
    BY <1>2, <2>1
  <2> QED
    BY <1>3, <1>10, <2>1, <2>2 DEF TakeSetPace
<1>11. ASSUME TakeShutdown PROVE TakesAnswers("shutdown")
  <2>1. SameWork /\ output' = output \o <<Answer(Line.id, "shutdown")>>
    BY <1>11 DEF TakeShutdown, Respond, SameWork, warpVars, shotVars
  <2> QED
    BY <1>3, <1>11, <2>1 DEF TakeShutdown
<1>12. ASSUME TakesAnswers("protocol") PROVE \E o \in Outcomes : TakesAnswers(o)
  BY <1>12 DEF Outcomes
<1> QED
  BY <1>1, <1>12, <1>4, <1>5, <1>6, <1>7, <1>8, <1>9, <1>10, <1>11 DEF TakeLine

LEMMA OnceSteps ==
    ASSUME [Next]_vars, OnceInv
    PROVE  \/ \E o \in Outcomes : TakesAnswers(o)
           \/ TakesAnswers("shutdown")
           \/ Enqueues \/ Begins \/ TakeStop
           \/ PollStep \/ Tick \/ WriteResponse
           \/ \E id \in RequestIds, request \in Asked \cup {Malformed} : Sends(id, request)
           \/ Idles
<1>1. ASSUME BeginRun \/ FlushShutdown \/ Disconnected \/ EndIntake \/ EndRun \/ AppExits
      PROVE  Idles
  BY <1>1 DEF BeginRun, FlushShutdown, Disconnected, EndIntake, EndRun, AppExits, Idles,
              SameWork, pipeVars, warpVars, shotVars
<1>2. ASSUME StdoutBreaks \/ CloseStdin \/ Rest \/ UNCHANGED vars PROVE Idles
  BY <1>2 DEF StdoutBreaks, CloseStdin, Rest, Idles, SameWork, vars, pipeVars, warpVars, shotVars
<1>3. ASSUME PacePasses PROVE Idles
  <2>1. warp'.id = warp.id
    BY <1>3 DEF PacePasses, OnceInv, WarpInv, Warps
  <2> QED
    BY <1>3, <2>1 DEF PacePasses, Idles, SameWork, pipeVars, shotVars
<1>4. ASSUME Between PROVE Idles
  BY <1>4 DEF Between, Extract, Idles, SameWork, pipeVars, warpVars, shotVars
<1>. ShotInv
  BY DEF OnceInv
<1>5. ASSUME Check \/ ReadbackTimeout \/ Readback \/ Writer
      PROVE  service'.active.job.id = service.active.job.id /\ service'.queue = service.queue
  <2>1. ASSUME Check
        PROVE  service'.active.job.id = service.active.job.id /\ service'.queue = service.queue
    BY <2>1, ShotFacts DEF Check, Services, Actives
  <2>2. ASSUME ReadbackTimeout \/ Readback
        PROVE  service'.active.job.id = service.active.job.id /\ service'.queue = service.queue
    BY <2>2, ShotFacts DEF ReadbackTimeout, Readback, Services, Actives
  <2>3. ASSUME Writer
        PROVE  service'.active.job.id = service.active.job.id /\ service'.queue = service.queue
    BY <2>3, ShotFacts DEF Writer, Prepare, WriteFails, Rename, WriterReports, Services
  <2> QED
    BY <1>5, <2>1, <2>2, <2>3
<1>6. ASSUME Render \/ WriterStep PROVE Idles
  BY <1>5, <1>6 DEF Render, WriterStep, Idles, SameWork, pipeVars, warpVars
<1>7. ASSUME SendRequest \/ SendAgain \/ SendMalformed
      PROVE  \E id \in RequestIds, request \in Asked \cup {Malformed} : Sends(id, request)
  <2>1. ASSUME SendRequest
        PROVE  \E id \in RequestIds, request \in Asked \cup {Malformed} : Sends(id, request)
    BY <2>1 DEF SendRequest, Asked
  <2>2. ASSUME SendAgain
        PROVE  \E id \in RequestIds, request \in Asked \cup {Malformed} : Sends(id, request)
    BY <2>2 DEF SendAgain, Asked
  <2>3. ASSUME SendMalformed
        PROVE  \E id \in RequestIds, request \in Asked \cup {Malformed} : Sends(id, request)
    BY <2>3 DEF SendMalformed, Malformed
  <2> QED
    BY <1>7, <2>1, <2>2, <2>3
<1> QED
  BY <1>1, <1>2, <1>3, <1>4, <1>6, <1>7, TakeSteps DEF Next, Main

LEMMA CountMore ==
    ASSUME NEW S, NEW s \in Seq(S), NEW x \in S, NEW id
    PROVE  /\ s \o <<x>> \in Seq(S)
           /\ Count(s \o <<x>>, id) = Count(s, id) + (IF x.id = id THEN 1 ELSE 0)
<1>1. s \o <<x>> = Append(s, x) /\ Append(s, x) \in Seq(S)
  OBVIOUS
<1>2. Count(Append(s, x), id) = Count(s, id) + (IF x.id = id THEN 1 ELSE 0)
  BY CountAppend
<1>. DEFINE t == s \o <<x>>
            u == Append(s, x)
            k == IF x.id = id THEN 1 ELSE 0
<1>3. t = u /\ u \in Seq(S) /\ Count(u, id) = Count(s, id) + k
  BY <1>1, <1>2
<1>. SUFFICES t \in Seq(S) /\ Count(t, id) = Count(s, id) + k
  OBVIOUS
<1>. HIDE DEF t, u, k
<1> QED
  BY <1>3

\* The numbers that AnsweredOnce adds up.
LEMMA OnceFacts ==
    ASSUME OnceInv, NEW id \in RequestIds
    PROVE  /\ sent[id] \in Nat /\ answered[id] \in Nat
           /\ Count(lines, id) \in Nat /\ Count(output, id) \in Nat
           /\ Work(id) \in Nat /\ Count(service.queue, id) \in Nat
           /\ sent[id] = Count(lines, id) + Work(id) + Count(output, id) + answered[id]
           /\ Work(id) <= 1
<1>1. lines \in Seq(Lines) /\ output \in Seq(Written) /\ ShotInv
  BY DEF OnceInv, ShotInv
<1>2. service.queue \in Seq(Jobs)
  BY <1>1, ShotFacts
<1>3. Count(lines, id) \in Nat /\ Count(output, id) \in Nat /\ Count(service.queue, id) \in Nat
  BY <1>1, <1>2, CountIs
<1>4. Work(id) \in Nat
  <2>. DEFINE n == Count(service.queue, id)
  <2>1. n \in Nat
    BY <1>3
  <2>. HIDE DEF n
  <2> QED
    BY <2>1 DEF Work, n
<1> QED
  BY <1>3, <1>4 DEF OnceInv, AnsweredOnce

LEMMA LineCounts ==
    ASSUME OnceInv, lines # << >>, NEW id
    PROVE  /\ Line.id \in RequestIds
           /\ Count(lines, id) = Count(Tail(lines), id) + (IF Line.id = id THEN 1 ELSE 0)
           /\ Count(Tail(lines), id) \in Nat
<1>1. lines \in Seq(Lines)
  BY DEF OnceInv, ShotInv
<1>2. Tail(lines) \in Seq(Lines)
  BY <1>1
<1>3. Count(Tail(lines), id) \in Nat
  BY <1>2, CountIs
<1> QED
  BY <1>1, <1>3, LineIs, CountTail DEF Line

\* The work of a step that leaves the requests alone.
LEMMA WorkKept == ASSUME SameWork, NEW id PROVE Work(id)' = Work(id)
BY DEF SameWork, Work

LEMMA FreshLine ==
    ASSUME OnceInv, lines # << >>, ~IsDuplicate(Line.id)
    PROVE  Work(Line.id) = 0 /\ warp.id # Line.id /\ service.active.job.id # Line.id
           /\ Count(service.queue, Line.id) = 0
<1>1. warp.id # Line.id /\ service.active.job.id # Line.id
      /\ ~\E i \in DOMAIN service.queue : service.queue[i].id = Line.id
  BY DEF IsDuplicate, IsPending
<1>2. {i \in DOMAIN service.queue : service.queue[i].id = Line.id} = {}
  BY <1>1
<1>3. Count(service.queue, Line.id) = 0
  BY <1>2, FS_EmptySet DEF Count
<1> QED
  BY <1>1, <1>3 DEF Work

\* The answer of a warp that is there.
LEMMA WarpAnswers ==
    ASSUME OnceInv, NEW o \in Outcomes, NEW id
    PROVE  /\ WarpAnswer(o) \in Seq(Responses)
           /\ Count(WarpAnswer(o), id) = IF warp.id # 0 /\ warp.id = id THEN 1 ELSE 0
<1>1. warp.id \in 0 .. MaxId
  BY DEF OnceInv, WarpInv, Warps
<1>2. CASE warp.id = 0
  BY <1>2, CountEmpty DEF WarpAnswer
<1>3. CASE warp.id # 0
  <2>. DEFINE a == Answer(warp.id, o)
              e == << >>
  <2>1. a \in Responses /\ a.id = warp.id
    BY <1>1, <1>3, BoundsAssumption DEF Answer, Responses, Outcomes, RequestIds
  <2>2. WarpAnswer(o) = e \o <<a>> /\ e \in Seq(Responses)
    BY <1>3 DEF WarpAnswer
  <2>. HIDE DEF a
  <2>3. Count(e, id) = 0
    BY CountEmpty
  <2>. HIDE DEF e
  <2>4. e \o <<a>> \in Seq(Responses)
        /\ Count(e \o <<a>>, id) = Count(e, id) + (IF a.id = id THEN 1 ELSE 0)
    BY <2>1, <2>2, CountMore
  <2> QED
    BY <1>3, <2>1, <2>2, <2>3, <2>4
<1> QED
  BY <1>2, <1>3

\* What a step has to keep.
OnceKept ==
    /\ sent' \in [RequestIds -> Nat] /\ answered' \in [RequestIds -> Nat]
    /\ output' \in Seq(Written) /\ AnsweredOnce'

LEMMA TakesKeeps ==
    ASSUME OnceInv, NEW o \in Outcomes \cup {"shutdown"}, TakesAnswers(o)
    PROVE  OnceKept
<1>. DEFINE response == Answer(Line.id, o)
<1>1. response \in Written /\ response.id = Line.id
  <2>1. lines # << >>
    BY DEF TakesAnswers
  <2>2. Line.id \in RequestIds
    BY <2>1, LineIs DEF OnceInv, ShotInv
  <2> QED
    BY <2>2 DEF Answer, Responses, Written, Outcomes
<1>2. /\ lines # << >> /\ lines' = Tail(lines) /\ output' = output \o <<response>>
      /\ UNCHANGED <<sent, answered>> /\ SameWork
  BY DEF TakesAnswers
<1>. HIDE DEF response
<1>3. output \in Seq(Written) /\ output' \in Seq(Written)
  BY <1>1, <1>2, CountMore DEF OnceInv
<1>4. ASSUME NEW id \in RequestIds
      PROVE  /\ sent'[id] = Count(lines', id) + Work(id)' + Count(output', id) + answered'[id]
             /\ Work(id)' <= 1
  <2>1. Count(output', id) = Count(output, id) + (IF Line.id = id THEN 1 ELSE 0)
    BY <1>1, <1>2, <1>3, CountMore
  <2>2. Count(lines, id) = Count(lines', id) + (IF Line.id = id THEN 1 ELSE 0)
        /\ Count(lines', id) \in Nat
    BY <1>2, LineCounts
  <2>3. Work(id)' = Work(id)
    BY <1>2, WorkKept
  <2> QED
    BY <1>2, <2>1, <2>2, <2>3, OnceFacts
<1> QED
  BY <1>2, <1>3, <1>4 DEF OnceKept, OnceInv, AnsweredOnce

LEMMA EnqueuesKeeps ==
    ASSUME OnceInv, Enqueues
    PROVE  OnceKept
<1>. DEFINE job == [id |-> Line.id, path |-> Line.request.path, window |-> world.primary]
<1>1. /\ lines # << >> /\ lines' = Tail(lines) /\ ~IsDuplicate(Line.id)
      /\ UNCHANGED <<sent, answered, output, warp>>
      /\ service' = [service EXCEPT !.queue = Append(service.queue, job)]
  BY DEF Enqueues, Enqueue, Dispatch, Takes, PipesRest
<1>2. job.id = Line.id
  OBVIOUS
<1>. DEFINE J == AnyJob \cup {job}
<1>3. service \in Services /\ service.queue \in Seq(J) /\ job \in J
  <2>1. service \in Services /\ service.queue \in Seq(Jobs)
    BY ShotFacts DEF OnceInv
  <2>2. Seq(Jobs) \subseteq Seq(J)
    BY JobsAre
  <2> QED
    BY <2>1, <2>2
<1>. HIDE DEF job, J
<1>4. service'.active = service.active /\ service'.queue = Append(service.queue, job)
  BY <1>1, <1>3 DEF Services
<1>5. ASSUME NEW id \in RequestIds
      PROVE  /\ sent'[id] = Count(lines', id) + Work(id)' + Count(output', id) + answered'[id]
             /\ Work(id)' <= 1
  <2>1. Count(service'.queue, id) = Count(service.queue, id) + (IF Line.id = id THEN 1 ELSE 0)
    BY <1>2, <1>3, <1>4, CountAppend
  <2>2. Count(lines, id) = Count(lines', id) + (IF Line.id = id THEN 1 ELSE 0)
        /\ Count(lines', id) \in Nat
    BY <1>1, LineCounts
  <2>3. Work(id)' = Work(id) + (IF Line.id = id THEN 1 ELSE 0)
    <3>. DEFINE n == Count(service.queue, id)
                m == Count(service'.queue, id)
                a == IF warp.id = id THEN 1 ELSE 0
                b == IF service.active.job.id = id THEN 1 ELSE 0
                c == IF Line.id = id THEN 1 ELSE 0
    <3>1. Work(id)' = a + b + m /\ Work(id) = a + b + n
      BY <1>1, <1>4 DEF Work
    <3>2. m = n + c /\ n \in Nat /\ a \in Nat /\ b \in Nat /\ c \in Nat
      BY <2>1, OnceFacts
    <3>. HIDE DEF a, b, c, m, n
    <3>3. Work(id)' = Work(id) + c
      BY <3>1, <3>2
    <3> QED
      BY <3>3 DEF c
  <2>4. Line.id = id => Work(id) = 0
    BY <1>1, FreshLine
  <2> QED
    BY <1>1, <2>2, <2>3, <2>4, OnceFacts
<1> QED
  BY <1>1, <1>5 DEF OnceKept, OnceInv, AnsweredOnce

LEMMA BeginsKeeps ==
    ASSUME OnceInv, Begins
    PROVE  OnceKept
<1>1. /\ lines # << >> /\ lines' = Tail(lines) /\ ~IsDuplicate(Line.id)
      /\ UNCHANGED <<sent, answered, output, service>> /\ warp.id = 0 /\ warp'.id = Line.id
  BY DEF Begins, Dispatch, Takes, PipesRest
<1>2. ASSUME NEW id \in RequestIds
      PROVE  /\ sent'[id] = Count(lines', id) + Work(id)' + Count(output', id) + answered'[id]
             /\ Work(id)' <= 1
  <2>2. Count(lines, id) = Count(lines', id) + (IF Line.id = id THEN 1 ELSE 0)
        /\ Count(lines', id) \in Nat
    BY <1>1, LineCounts
  <2>3. Work(id)' = Work(id) + (IF Line.id = id THEN 1 ELSE 0)
    <3>. DEFINE n == Count(service.queue, id)
                b == IF service.active.job.id = id THEN 1 ELSE 0
                c == IF Line.id = id THEN 1 ELSE 0
    <3>1. warp.id # id
      BY <1>1 DEF RequestIds
    <3>2. Work(id)' = c + b + n /\ Work(id) = 0 + b + n
      BY <1>1, <3>1 DEF Work
    <3>3. n \in Nat /\ b \in Nat /\ c \in Nat
      BY OnceFacts
    <3>. HIDE DEF b, c, n
    <3>4. Work(id)' = Work(id) + c
      BY <3>2, <3>3
    <3> QED
      BY <3>4 DEF c
  <2>4. Line.id = id => Work(id) = 0
    BY <1>1, FreshLine
  <2> QED
    BY <1>1, <2>2, <2>3, <2>4, OnceFacts
<1> QED
  BY <1>1, <1>2 DEF OnceKept, OnceInv, AnsweredOnce

\* The warp is answered before the stop.
LEMMA StopKeeps ==
    ASSUME OnceInv, TakeStop
    PROVE  OnceKept
<1>. DEFINE first == WarpAnswer("stopped")
            second == Answer(Line.id, "completed")
            middle == output \o first
<1>1. /\ lines # << >> /\ lines' = Tail(lines)
      /\ output' = output \o (first \o <<second>>)
      /\ UNCHANGED <<sent, answered, service>> /\ warp' = NoWarp
  BY DEF TakeStop, Dispatch, Takes, PipesRest, Respond, EndsWarp, shotVars
<1>2. second \in Written /\ second.id = Line.id
  <2>1. Line.id \in RequestIds
    BY <1>1, LineIs DEF OnceInv, ShotInv
  <2> QED
    BY <2>1 DEF Answer, Responses, Written
<1>3. first \in Seq(Written)
      /\ \A id : Count(first, id) = IF warp.id # 0 /\ warp.id = id THEN 1 ELSE 0
  BY WarpAnswers, WrittenIs DEF Outcomes
<1>4. output \in Seq(Written)
  BY DEF OnceInv
<1>. HIDE DEF first, second
<1>5. middle \in Seq(Written) /\ output' = middle \o <<second>>
  BY <1>1, <1>2, <1>3, <1>4
<1>6. \A id : Count(middle, id) = Count(output, id) + Count(first, id)
  BY <1>3, <1>4, CountConcat
<1>. HIDE DEF middle
<1>7. output' \in Seq(Written)
      /\ \A id : Count(output', id) = Count(middle, id) + (IF Line.id = id THEN 1 ELSE 0)
  BY <1>2, <1>5, CountMore
<1>8. ASSUME NEW id \in RequestIds
      PROVE  /\ sent'[id] = Count(lines', id) + Work(id)' + Count(output', id) + answered'[id]
             /\ Work(id)' <= 1
  <2>. DEFINE n == Count(service.queue, id)
              b == IF service.active.job.id = id THEN 1 ELSE 0
              c == IF Line.id = id THEN 1 ELSE 0
              w == IF warp.id = id THEN 1 ELSE 0
  <2>1. Count(lines, id) = Count(lines', id) + c /\ Count(lines', id) \in Nat
    BY <1>1, LineCounts
  <2>2. id # 0 /\ NoWarp.id = 0
    BY DEF RequestIds, NoWarp
  <2>3. Work(id)' = 0 + b + n /\ Work(id) = w + b + n
    BY <1>1, <2>2 DEF Work
  <2>4. Count(first, id) = w
    BY <1>3, <2>2
  <2>5. Count(output', id) = Count(output, id) + w + c
    BY <1>6, <1>7, <2>4
  <2>6. n \in Nat /\ b \in Nat /\ c \in Nat /\ w \in Nat
    BY OnceFacts
  <2>9. /\ sent[id] \in Nat /\ answered[id] \in Nat
        /\ Count(lines, id) \in Nat /\ Count(output, id) \in Nat /\ Work(id) \in Nat
        /\ sent[id] = Count(lines, id) + Work(id) + Count(output, id) + answered[id]
        /\ Work(id) <= 1
    BY OnceFacts
  <2>10. /\ sent'[id] = sent[id] /\ answered'[id] = answered[id]
    BY <1>1
  <2>. DEFINE x == Count(lines', id)
              y == Count(output', id)
              z == Work(id)'
              l == Count(lines, id)
              o == Count(output, id)
              v == Work(id)
  <2>11. /\ l = x + c /\ x \in Nat /\ z = 0 + b + n /\ v = w + b + n /\ y = o + w + c
         /\ o \in Nat /\ v <= 1 /\ sent[id] = l + v + o + answered[id]
    BY <2>1, <2>3, <2>5, <2>9
  <2>. HIDE DEF n, b, c, w, x, y, z, l, o, v
  <2>12. sent[id] = x + z + y + answered[id] /\ z <= 1
    BY <2>6, <2>9, <2>11
  <2> QED
    BY <2>10, <2>12 DEF x, y, z
<1> QED
  BY <1>1, <1>7, <1>8 DEF OnceKept, OnceInv, AnsweredOnce

\* A warp that has run to its end is answered.
LEMMA TickKeeps ==
    ASSUME OnceInv, Tick
    PROVE  OnceKept
<1>0. UNCHANGED <<lines, sent, answered, service>>
  BY DEF Tick, shotVars
<1>1. \/ /\ output' = output \o WarpAnswer("completed") /\ warp' = NoWarp
      \/ /\ warp' = [warp EXCEPT !.executed = Executed, !.recent = TRUE]
         /\ output' = output
  BY DEF Tick, Respond, EndsWarp
<1>2. CASE warp' = [warp EXCEPT !.executed = Executed, !.recent = TRUE] /\ output' = output
  <2>1. warp'.id = warp.id
    <3>. DEFINE e == Executed
    <3>. HIDE DEF e
    <3>1. warp \in Warps /\ warp' = [warp EXCEPT !.executed = e, !.recent = TRUE]
      BY <1>2 DEF OnceInv, WarpInv, e
    <3> QED
      BY <3>1 DEF Warps
  <2>2. \A id : Work(id)' = Work(id)
    BY <1>0, <2>1 DEF Work
  <2> QED
    BY <1>0, <1>2, <2>2 DEF OnceInv, OnceKept, AnsweredOnce
<1>3. CASE output' = output \o WarpAnswer("completed") /\ warp' = NoWarp
  <2>. DEFINE first == WarpAnswer("completed")
  <2>1. first \in Seq(Written)
        /\ \A id : Count(first, id) = IF warp.id # 0 /\ warp.id = id THEN 1 ELSE 0
    BY WarpAnswers, WrittenIs DEF Outcomes
  <2>2. output \in Seq(Written)
    BY DEF OnceInv
  <2>. HIDE DEF first
  <2>3. output' \in Seq(Written)
        /\ \A id : Count(output', id) = Count(output, id) + Count(first, id)
    BY <1>3, <2>1, <2>2, CountConcat DEF first
  <2>4. ASSUME NEW id \in RequestIds
        PROVE  /\ sent'[id] = Count(lines', id) + Work(id)' + Count(output', id) + answered'[id]
               /\ Work(id)' <= 1
    <3>. DEFINE n == Count(service.queue, id)
                b == IF service.active.job.id = id THEN 1 ELSE 0
                w == IF warp.id = id THEN 1 ELSE 0
    <3>1. id # 0 /\ NoWarp.id = 0
      BY DEF RequestIds, NoWarp
    <3>2. Work(id)' = 0 + b + n /\ Work(id) = w + b + n
      BY <1>0, <1>3, <3>1 DEF Work
    <3>3. Count(output', id) = Count(output, id) + w
      BY <2>1, <2>3, <3>1
    <3>4. n \in Nat /\ b \in Nat /\ w \in Nat
      BY OnceFacts
    <3>. HIDE DEF n, b, w
    <3> QED
      BY <1>0, <3>2, <3>3, <3>4, OnceFacts
  <2> QED
    BY <1>0, <2>3, <2>4 DEF OnceKept, OnceInv, AnsweredOnce
<1> QED
  BY <1>1, <1>2, <1>3

\* What a poll answers it no longer owes.
LEMMA PollAnswers ==
    ASSUME OnceInv, PollStep
    PROVE  OnceKept
<1>. DEFINE q == Polled
<1>1. ShotOK(q) /\ \A id \in RequestIds : Owed(q, id) = Owed(Shots, id)
  BY ShotFacts, PolledIs DEF Follows, OnceInv
<1>2. /\ service' = q.service /\ output' = output \o q.responses
      /\ UNCHANGED <<lines, sent, answered, warp>>
  BY DEF PollStep, PollScreenshots, Respond, warpVars
<1>3. q.responses \in Seq(Written) /\ q.service.queue \in Seq(Jobs)
  BY <1>1, PollIs, WrittenIs
<1>4. output \in Seq(Written)
  BY DEF OnceInv
<1>. HIDE DEF q
<1>5. output' \in Seq(Written)
      /\ \A id : Count(output', id) = Count(output, id) + Count(q.responses, id)
  BY <1>2, <1>3, <1>4, CountConcat
<1>6. ASSUME NEW id \in RequestIds
      PROVE  /\ sent'[id] = Count(lines', id) + Work(id)' + Count(output', id) + answered'[id]
             /\ Work(id)' <= 1
  <2>. DEFINE n == Count(service.queue, id)
              m == Count(q.service.queue, id)
              r == Count(q.responses, id)
              w == IF warp.id = id THEN 1 ELSE 0
              b == IF service.active.job.id = id THEN 1 ELSE 0
              c == IF q.service.active.job.id = id THEN 1 ELSE 0
  <2>1. Owed(q, id) = c + m + r
    BY DEF Owed
  <2>2. Owed(Shots, id) = b + n + 0
    BY ShotsAre, CountEmpty DEF Owed
  <2>3. Work(id) = w + b + n /\ Work(id)' = w + c + m
    BY <1>2 DEF Work
  <2>4. Count(output', id) = Count(output, id) + r
    BY <1>5
  <2>5. n \in Nat /\ m \in Nat /\ r \in Nat /\ w \in Nat /\ b \in Nat /\ c \in Nat
    BY <1>3, CountIs, OnceFacts
  <2>6. c + m + r = b + n + 0
    BY <1>1, <2>1, <2>2
  <2>9. /\ sent[id] \in Nat /\ answered[id] \in Nat
        /\ Count(lines, id) \in Nat /\ Count(output, id) \in Nat /\ Work(id) \in Nat
        /\ sent[id] = Count(lines, id) + Work(id) + Count(output, id) + answered[id]
        /\ Work(id) <= 1
    BY OnceFacts
  <2>10. /\ sent'[id] = sent[id] /\ answered'[id] = answered[id] /\ lines' = lines
    BY <1>2
  <2>. DEFINE y == Count(output', id)
              z == Work(id)'
              l == Count(lines, id)
              o == Count(output, id)
              v == Work(id)
  <2>11. /\ v = w + b + n /\ z = w + c + m /\ y = o + r /\ c + m + r = b + n + 0
         /\ o \in Nat /\ l \in Nat /\ v <= 1 /\ sent[id] = l + v + o + answered[id]
    BY <2>3, <2>4, <2>6, <2>9
  <2>. HIDE DEF n, m, r, w, b, c, y, z, l, o, v
  <2>12. sent[id] = l + z + y + answered[id] /\ z <= 1
    BY <2>5, <2>9, <2>11
  <2> QED
    BY <2>10, <2>12 DEF y, z, l
<1> QED
  BY <1>2, <1>5, <1>6 DEF OnceKept, OnceInv, AnsweredOnce

LEMMA WriteKeeps ==
    ASSUME OnceInv, WriteResponse
    PROVE  OnceKept
<1>1. /\ output # << >> /\ output' = Tail(output)
      /\ answered' = [answered EXCEPT ![Head(output).id] = @ + 1]
      /\ UNCHANGED <<lines, sent, service, warp>>
  BY DEF WriteResponse, shotVars, warpVars
<1>2. output \in Seq(Written)
  BY DEF OnceInv
<1>3. Head(output) \in Written /\ output' \in Seq(Written)
  BY <1>1, <1>2
<1>4. Head(output).id \in RequestIds
  BY <1>3 DEF Responses, Written
<1>5. \A id : Count(output, id) = Count(output', id) + (IF Head(output).id = id THEN 1 ELSE 0)
  BY <1>1, <1>2, CountTail
<1>. DEFINE h == Head(output).id
<1>6. answered' = [answered EXCEPT ![h] = answered[h] + 1] /\ h \in RequestIds
  BY <1>1, <1>4
<1>7. \A id : Work(id)' = Work(id)
  BY <1>1 DEF Work
<1>8. \A id \in RequestIds : Count(output', id) \in Nat
  BY <1>3, CountIs
<1>. HIDE DEF h
<1>9. answered' \in [RequestIds -> Nat]
      /\ \A id \in RequestIds : answered'[id] = answered[id] + (IF h = id THEN 1 ELSE 0)
  BY <1>6 DEF OnceInv
<1>10. ASSUME NEW id \in RequestIds
       PROVE  /\ sent'[id] = Count(lines', id) + Work(id)' + Count(output', id) + answered'[id]
              /\ Work(id)' <= 1
  <2>1. Count(output, id) = Count(output', id) + (IF h = id THEN 1 ELSE 0)
    BY <1>5 DEF h
  <2> QED
    BY <1>1, <1>7, <1>8, <1>9, <2>1, OnceFacts
<1> QED
  BY <1>1, <1>3, <1>9, <1>10 DEF OnceKept, OnceInv, AnsweredOnce

LEMMA SendsKeeps ==
    ASSUME OnceInv, NEW n \in RequestIds, NEW request \in Asked \cup {Malformed}, Sends(n, request)
    PROVE  OnceKept
<1>. DEFINE line == [id |-> n, request |-> request]
<1>1. /\ lines' = Append(lines, line) /\ sent' = [sent EXCEPT ![n] = sent[n] + 1]
      /\ UNCHANGED <<output, answered, service, warp>>
  BY DEF Sends, shotVars, warpVars
<1>2. line \in Lines /\ line.id = n
  BY DEF Lines
<1>3. lines \in Seq(Lines)
  BY DEF OnceInv, ShotInv
<1>. HIDE DEF line
<1>4. \A id : Count(lines', id) = Count(lines, id) + (IF n = id THEN 1 ELSE 0)
  BY <1>1, <1>2, <1>3, CountAppend
<1>5. \A id : Work(id)' = Work(id)
  BY <1>1 DEF Work
<1>6. sent' \in [RequestIds -> Nat]
      /\ \A id \in RequestIds : sent'[id] = sent[id] + (IF n = id THEN 1 ELSE 0)
  BY <1>1 DEF OnceInv
<1>7. ASSUME NEW id \in RequestIds
      PROVE  /\ sent'[id] = Count(lines', id) + Work(id)' + Count(output', id) + answered'[id]
             /\ Work(id)' <= 1
  <2>. DEFINE c == IF n = id THEN 1 ELSE 0
  <2>1. Count(lines', id) = Count(lines, id) + c /\ sent'[id] = sent[id] + c /\ c \in Nat
    BY <1>4, <1>6
  <2>2. answered'[id] = answered[id] /\ output' = output /\ Work(id)' = Work(id)
    BY <1>1, <1>5
  <2>9. /\ sent[id] \in Nat /\ answered[id] \in Nat
        /\ Count(lines, id) \in Nat /\ Count(output, id) \in Nat /\ Work(id) \in Nat
        /\ sent[id] = Count(lines, id) + Work(id) + Count(output, id) + answered[id]
        /\ Work(id) <= 1
    BY OnceFacts
  <2>. HIDE DEF c
  <2> QED
    BY <2>1, <2>2, <2>9
<1> QED
  BY <1>1, <1>6, <1>7 DEF OnceKept, OnceInv, AnsweredOnce

LEMMA IdlesKeeps ==
    ASSUME OnceInv, Idles
    PROVE  OnceKept
<1>1. \A id : Work(id)' = Work(id)
  BY WorkKept DEF Idles
<1> QED
  BY <1>1 DEF Idles, OnceInv, OnceKept, AnsweredOnce

LEMMA OnceInit == Init => OnceInv
<1>. SUFFICES ASSUME Init PROVE OnceInv
  OBVIOUS
<1>1. WarpInv /\ ShotInv
  BY WarpInit, ShotInvInit
<1>2. /\ lines = << >> /\ output = << >> /\ sent = [id \in RequestIds |-> 0] /\ answered = sent
      /\ warp = NoWarp /\ service = [queue |-> << >>, active |-> Idle, results |-> << >>]
  BY DEF Init, ShotInit
<1>3. ASSUME NEW id \in RequestIds PROVE Work(id) = 0
  <2>1. id # 0 /\ NoWarp.id = 0 /\ Count(<< >>, id) = 0
    BY CountEmpty DEF RequestIds, NoWarp
  <2> QED
    BY <1>2, <2>1, IdleIs DEF Work
<1>4. \A id \in RequestIds : Count(lines, id) = 0 /\ Count(output, id) = 0
  BY <1>2, CountEmpty
<1> QED
  BY <1>1, <1>2, <1>3, <1>4 DEF OnceInv, AnsweredOnce

LEMMA OnceStep == OnceInv /\ [Next]_vars => OnceInv'
<1>. SUFFICES ASSUME OnceInv, [Next]_vars PROVE OnceInv'
  OBVIOUS
<1>1. WarpInv' /\ ShotInv'
  BY WarpStep, ShotStep DEF OnceInv
<1>2. OnceKept
  BY OnceSteps, TakesKeeps, EnqueuesKeeps, BeginsKeeps, StopKeeps, TickKeeps, PollAnswers,
     WriteKeeps, SendsKeeps, IdlesKeeps
<1> QED
  BY <1>1, <1>2 DEF OnceKept, OnceInv

(***************************************************************************)
(* Whatever the peer sends, repeats or garbles, and however its captures   *)
(* and warps end: each line has exactly one response, and an id never      *)
(* names two pieces of work (session/plugin.rs, run and dispatch;          *)
(* session/screenshot/capture.rs, poll).                                   *)
(***************************************************************************)
THEOREM LinesAreAnsweredOnce == SafetySpec => []AnsweredOnce
<1>1. OnceInv => AnsweredOnce
  BY DEF OnceInv
<1> QED
  BY <1>1, OnceInit, OnceStep, PTL DEF SafetySpec

-----------------------------------------------------------------------------
(* The wait of a shutdown *)

(***************************************************************************)
(* While the writer writes, a response that it will acknowledge is the     *)
(* last one in the channel, and the main thread waits for it.  Once it is  *)
(* acknowledged the channel is empty, since nobody else fills it.          *)
(***************************************************************************)
AckedIsLast ==
    /\ ack => pc = "flush" /\ output = << >>
    /\ stdout = "open" =>
          \A i \in 1 .. Len(output) :
              Acknowledges(output[i]) => pc = "flush" /\ i = Len(output)

FlushInv == OnceInv /\ ack \in BOOLEAN /\ AckedIsLast

\* The main thread runs and may answer; shutdown is not among its answers.
Running ==
    /\ pc # "flush" /\ UNCHANGED <<ack, stdout>>
    /\ UNCHANGED output \/ \E more \in Seq(Responses) : output' = output \o more

LEMMA TakesRun ==
    ASSUME OnceInv, TakeLine
    PROVE  \/ pc = "intake" /\ Running
           \/ /\ pc = "intake" /\ pc' = "flush" /\ UNCHANGED <<ack, stdout>>
              /\ output' = output \o <<Answer(Line.id, "shutdown")>>
<1>1. pc = "intake" /\ lines # << >> /\ UNCHANGED <<ack, stdout>>
  BY DEF TakeLine, TakeMalformed, TakeDuplicate, TakeQuery, TakePointer, TakeKey, TakeText,
         TakeScreenshot, TakeShutdown, TakeStart, TakeSetPace, TakeStop, Dispatch, Takes,
         PipesRest
<1>2. Line.id \in RequestIds
  BY <1>1, LineIs DEF OnceInv, ShotInv
<1>3. ASSUME NEW o \in Outcomes PROVE <<Answer(Line.id, o)>> \in Seq(Responses)
  <2>1. Answer(Line.id, o) \in Responses
    BY <1>2 DEF Answer, Responses, Outcomes
  <2> QED
    BY <2>1
<1>4. ASSUME NEW ok, Answers(ok) PROVE Running
  <2>1. \E o \in Outcomes : output' = output \o <<Answer(Line.id, o)>>
    BY <1>4 DEF Answers, Respond, Outcomes
  <2> QED
    BY <1>1, <1>3, <2>1 DEF Running
<1>5. ASSUME TakeMalformed \/ TakeDuplicate PROVE Running
  <2>1. output' = output \o <<Answer(Line.id, "protocol")>> /\ "protocol" \in Outcomes
    BY <1>5 DEF TakeMalformed, TakeDuplicate, Respond, Outcomes
  <2> QED
    BY <1>1, <1>3, <2>1 DEF Running
<1>6. ASSUME TakeQuery \/ TakePointer \/ TakeKey \/ TakeText \/ TakeSetPace PROVE Running
  BY <1>4, <1>6 DEF TakeQuery, TakePointer, TakeKey, TakeText, TakeSetPace
<1>7. ASSUME TakeScreenshot \/ TakeStart PROVE Running
  <2>1. UNCHANGED output \/ Answers(FALSE)
    BY <1>7 DEF TakeScreenshot, TakeStart
  <2> QED
    BY <1>1, <1>4, <2>1 DEF Running
<1>8. ASSUME TakeStop PROVE Running
  <2>. DEFINE first == WarpAnswer("stopped")
              last  == <<Answer(Line.id, "completed")>>
  <2>1. output' = output \o (first \o last)
    BY <1>8 DEF TakeStop, Respond
  <2>2. first \in Seq(Responses) /\ last \in Seq(Responses)
    BY <1>3, WarpAnswers DEF Outcomes
  <2>. HIDE DEF first, last
  <2>3. first \o last \in Seq(Responses)
    BY <2>2
  <2> QED
    BY <1>1, <2>1, <2>3 DEF Running
<1>9. ASSUME TakeShutdown
      PROVE  pc' = "flush" /\ output' = output \o <<Answer(Line.id, "shutdown")>>
  BY <1>9 DEF TakeShutdown, Respond
<1> QED
  BY <1>1, <1>5, <1>6, <1>7, <1>8, <1>9 DEF TakeLine

\* What the steps do to the channel to the writer, and to the wait for it.
LEMMA FlushSteps ==
    ASSUME OnceInv, [Next]_vars
    PROVE  \/ Running
           \/ /\ pc = "intake" /\ pc' = "flush" /\ UNCHANGED <<ack, stdout>>
              /\ output' = output \o <<Answer(Line.id, "shutdown")>>
           \/ FlushShutdown \/ WriteResponse \/ StdoutBreaks
           \/ UNCHANGED <<pc, output, ack, stdout>>
<1>1. ASSUME BeginRun \/ Disconnected \/ EndIntake \/ EndRun \/ AppExits PROVE Running
  BY <1>1 DEF BeginRun, Disconnected, EndIntake, EndRun, AppExits, Running, pipeVars
<1>2. ASSUME PollStep PROVE Running
  <2>1. output' = output \o Polled.responses /\ pc = "poll" /\ UNCHANGED <<ack, stdout>>
    BY <1>2 DEF PollStep, Respond
  <2>2. Polled.responses \in Seq(Responses)
    BY ShotFacts, PolledIs, PollIs DEF Follows, OnceInv
  <2> QED
    BY <2>1, <2>2 DEF Running
<1>3. ASSUME Tick PROVE Running
  <2>1. /\ pc = "ticks" /\ UNCHANGED <<ack, stdout>>
        /\ UNCHANGED output \/ output' = output \o WarpAnswer("completed")
    BY <1>3 DEF Tick, Respond
  <2>2. WarpAnswer("completed") \in Seq(Responses)
    BY WarpAnswers DEF Outcomes
  <2> QED
    BY <2>1, <2>2 DEF Running
<1>4. ASSUME SendRequest \/ SendAgain \/ SendMalformed \/ CloseStdin \/ PacePasses \/ Between
                \/ Render \/ WriterStep \/ Rest \/ UNCHANGED vars
      PROVE  UNCHANGED <<pc, output, ack, stdout>>
  BY <1>4 DEF SendRequest, SendAgain, SendMalformed, Sends, CloseStdin, PacePasses, Between,
              Render, WriterStep, Rest, vars, loopVars, pipeVars
<1> QED
  BY <1>1, <1>2, <1>3, <1>4, TakesRun DEF Next, Main

LEMMA FlushStep == FlushInv /\ [Next]_vars => FlushInv'
<1>. SUFFICES ASSUME FlushInv, [Next]_vars PROVE FlushInv'
  OBVIOUS
<1>0. OnceInv /\ OnceInv' /\ output \in Seq(Written)
  BY OnceStep DEF FlushInv, OnceInv
<1>. USE DEF FlushInv
<1>1. CASE Running
  <2>1. ~ack /\ ack' = ack /\ stdout' = stdout
    BY <1>1 DEF AckedIsLast, Running
  <2>2. ASSUME stdout = "open", NEW i \in 1 .. Len(output') PROVE ~Acknowledges(output'[i])
    <3>1. CASE UNCHANGED output
      BY <1>1, <2>2, <3>1 DEF AckedIsLast, Running, Acknowledges
    <3>2. CASE \E more \in Seq(Responses) : output' = output \o more
      <4>1. PICK more \in Seq(Responses) : output' = output \o more
        BY <3>2
      <4>2. more \in Seq(Written)
        BY <4>1, WrittenIs
      <4>3. CASE i \in 1 .. Len(output)
        <5>1. output'[i] = output[i]
          BY <1>0, <4>1, <4>2, <4>3
        <5> QED
          BY <1>1, <2>2, <4>3, <5>1 DEF AckedIsLast, Running, Acknowledges
      <4>4. CASE i \notin 1 .. Len(output)
        <5>1. PICK k \in 1 .. Len(more) : output'[i] = more[k]
          BY <1>0, <2>2, <4>1, <4>2, <4>4
        <5>2. more[k] \in Responses
          BY <5>1
        <5> QED
          BY <5>1, <5>2 DEF Acknowledges, Responses
      <4> QED
        BY <4>3, <4>4
    <3> QED
      BY <1>1, <3>1, <3>2 DEF Running
  <2> QED
    BY <1>0, <2>1, <2>2 DEF AckedIsLast
<1>2. CASE /\ pc = "intake" /\ pc' = "flush" /\ UNCHANGED <<ack, stdout>>
           /\ output' = output \o <<Answer(Line.id, "shutdown")>>
  <2>. DEFINE last == Answer(Line.id, "shutdown")
              S    == Written \cup {last}
  <2>1. output \in Seq(S) /\ last \in S
    <3>1. Written \subseteq S /\ last \in S
      OBVIOUS
    <3>. HIDE DEF S
    <3> QED
      BY <1>0, <3>1
  <2>. HIDE DEF last, S
  <2>2. /\ output' = Append(output, last) /\ Len(output') = Len(output) + 1
        /\ \A i \in 1 .. Len(output) : output'[i] = output[i]
    BY <1>2, <2>1 DEF last
  <2>3. ~ack /\ ack' = ack
    BY <1>2 DEF AckedIsLast
  <2>4. ASSUME stdout' = "open", NEW i \in 1 .. Len(output'), Acknowledges(output'[i])
        PROVE  i = Len(output')
    <3>1. SUFFICES ASSUME i \in 1 .. Len(output) PROVE FALSE
      BY <1>0, <2>2
    <3>2. output'[i] = output[i] /\ Acknowledges(output[i])
      BY <2>2, <2>4, <3>1 DEF Acknowledges
    <3> QED
      BY <1>2, <2>4, <3>1, <3>2 DEF AckedIsLast
  <2> QED
    BY <1>0, <1>2, <2>3, <2>4 DEF AckedIsLast
<1>3. CASE FlushShutdown
  <2>1. ack' = FALSE /\ UNCHANGED <<output, stdout>> /\ (ack \/ stdout = "broken")
    BY <1>3 DEF FlushShutdown, Flushed
  <2>2. CASE stdout = "broken"
    BY <1>0, <2>1, <2>2 DEF AckedIsLast
  <2>3. CASE ack
    <3>1. output = << >>
      BY <2>3 DEF AckedIsLast
    <3>2. Len(output') = 0
      BY <2>1, <3>1, EmptySeq
    <3>3. 1 .. Len(output') = {}
      BY ONLY <3>2
    <3> QED
      BY ONLY <1>0, <2>1, <3>3 DEF AckedIsLast, FlushInv
  <2> QED
    BY <2>1, <2>2, <2>3
<1>4. CASE WriteResponse
  <2>. DEFINE h == Head(output)
  <2>1. /\ output # << >> /\ output' = Tail(output) /\ stdout = "open"
        /\ ack' = (ack \/ Acknowledges(h)) /\ UNCHANGED <<pc, stdout>>
    BY <1>4 DEF WriteResponse, loopVars
  <2>2. /\ Len(output) \in Nat \ {0} /\ h = output[1] /\ Len(output') = Len(output) - 1
        /\ \A i \in 1 .. Len(output') : output'[i] = output[i + 1] /\ i + 1 \in 1 .. Len(output)
    BY <1>0, <2>1
  <2>. HIDE DEF h
  <2>3. ~ack
    BY <2>1 DEF AckedIsLast
  <2>4. ASSUME Acknowledges(h) PROVE pc = "flush" /\ output' = << >>
    <3>1. 1 \in 1 .. Len(output) /\ Acknowledges(output[1])
      BY <2>2, <2>4
    <3>2. pc = "flush" /\ 1 = Len(output)
      BY <2>1, <3>1 DEF AckedIsLast
    <3>3. Len(output') = 0 /\ output' \in Seq(Written)
      BY <1>0, <2>1, <2>2, <3>2
    <3> QED
      BY <3>2, <3>3, EmptySeq
  <2>5. ASSUME NEW i \in 1 .. Len(output'), Acknowledges(output'[i])
        PROVE  pc = "flush" /\ i = Len(output')
    <3>1. i + 1 \in 1 .. Len(output) /\ Acknowledges(output[i + 1])
      BY <2>2, <2>5
    <3>2. pc = "flush" /\ i + 1 = Len(output)
      BY <2>1, <3>1 DEF AckedIsLast
    <3> QED
      BY <2>2, <3>2
  <2>6. ack' \in BOOLEAN /\ (ack' => pc' = "flush" /\ output' = << >>)
    BY <2>1, <2>3, <2>4 DEF Acknowledges
  <2> QED
    BY <1>0, <2>1, <2>5, <2>6 DEF AckedIsLast, Acknowledges
<1>5. CASE StdoutBreaks
  <2>1. stdout' = "broken" /\ UNCHANGED <<pc, ack, output>>
    BY <1>5 DEF StdoutBreaks, loopVars
  <2> QED
    BY <1>0, <2>1 DEF AckedIsLast
<1>6. CASE UNCHANGED <<pc, output, ack, stdout>>
  BY <1>0, <1>6 DEF AckedIsLast, Acknowledges
<1> QED
  BY <1>0, <1>1, <1>2, <1>3, <1>4, <1>5, <1>6, FlushSteps

(***************************************************************************)
(* Whatever the peer sent before a shutdown, and whoever was to answer it: *)
(* the one acknowledgement of the last response is enough, and AppExit     *)
(* leaves no answer in the channel, unless stdout broke (session/plugin.rs,*)
(* the writer thread and Command::Shutdown).                               *)
(***************************************************************************)
THEOREM ExitsAreFlushed == SafetySpec => ExitIsFlushed
<1>1. Init => FlushInv
  <2>. SUFFICES ASSUME Init PROVE FlushInv
    OBVIOUS
  <2>1. OnceInv /\ ack = FALSE /\ output = << >>
    BY OnceInit DEF Init
  <2>2. Len(output) = 0
    BY <2>1, EmptySeq
  <2>3. 1 .. Len(output) = {}
    BY ONLY <2>2
  <2> QED
    BY <2>1, <2>3 DEF FlushInv, AckedIsLast
<1>2. ASSUME FlushInv, [Next]_vars, pc = "flush", pc' # "flush", stdout # "broken",
             NEW id \in RequestIds
      PROVE  sent[id] = Count(lines, id) + Work(id) + answered[id]
  <2>1. FlushShutdown
    <3>1. ~Running
      BY <1>2 DEF Running
    <3>2. ASSUME WriteResponse \/ StdoutBreaks PROVE FALSE
      BY <1>2, <3>2 DEF WriteResponse, StdoutBreaks, loopVars
    <3>3. OnceInv
      BY <1>2 DEF FlushInv
    <3> QED
      BY <1>2, <3>1, <3>2, <3>3, FlushSteps
  <2>2. output = << >>
    BY <1>2, <2>1 DEF FlushShutdown, Flushed, FlushInv, AckedIsLast
  <2>3. Count(output, id) = 0
    BY <2>2, CountEmpty
  <2> QED
    BY <1>2, <2>3, OnceFacts DEF FlushInv
<1>3. FlushInv /\ [Next]_vars =>
        [pc = "flush" /\ pc' # "flush" =>
            \/ stdout = "broken"
            \/ \A id \in RequestIds : sent[id] = Count(lines, id) + Work(id) + answered[id]]_vars
  BY <1>2
<1> QED
  BY <1>1, <1>3, FlushStep, PTL DEF SafetySpec, ExitIsFlushed

-----------------------------------------------------------------------------
(* The events of a tick *)

Pressed(p, seq) == FoldLeft(SeenButton, p, seq)

\* The buttons after each event of the pointer.
LEMMA PressedFold ==
    ASSUME NEW p, NEW n \in Nat, NEW seq, DOMAIN seq = 1 .. n
    PROVE  \E h : /\ h[0] = p
                  /\ \A i \in 1 .. n : h[i] = SeenButton(h[i - 1], seq[i])
                  /\ Pressed(p, seq) = h[n]
<1>. DEFINE Is(g, k) == g = [s \in SUBSET (1 .. k) |->
                                IF s = {} THEN p
                                ELSE LET x == Max(s) IN SeenButton(g[s \ {x}], seq[x])]
            Good == {k \in Nat : \E g : Is(g, k)}
            it == CHOOSE g : Is(g, n)
            h == [i \in 0 .. n |-> it[1 .. i]]
<1>1. Pressed(p, seq) = it[1 .. n]
  BY DEF Pressed, FoldLeft, MapThenFoldSet
<1>2. 0 \in Good
  <2>1. Is([s \in SUBSET (1 .. 0) |-> p], 0)
    OBVIOUS
  <2> QED
    BY <2>1
<1>3. ASSUME NEW k \in Nat, k \in Good PROVE k + 1 \in Good
  <2>1. PICK f : Is(f, k)
    BY <1>3
  <2>. DEFINE g == [s \in SUBSET (1 .. k + 1) |->
                       IF k + 1 \in s THEN SeenButton(f[s \ {k + 1}], seq[k + 1]) ELSE f[s]]
  <2>2. ASSUME NEW s \in SUBSET (1 .. k + 1)
        PROVE  g[s] = IF s = {} THEN p
                      ELSE LET x == Max(s) IN SeenButton(g[s \ {x}], seq[x])
    <3>1. CASE k + 1 \in s
      <4>1. Max(s) = k + 1
        BY <3>1, MaxOfRange
      <4>2. s \ {k + 1} \in SUBSET (1 .. k + 1) /\ s # {}
        BY <3>1
      <4>3. g[s \ {k + 1}] = f[s \ {k + 1}]
        BY <4>2
      <4> QED
        BY <3>1, <4>1, <4>2, <4>3
    <3>2. CASE k + 1 \notin s
      <4>1. s \in SUBSET (1 .. k)
        BY <3>2
      <4>2. g[s] = f[s]
        BY <3>2
      <4>3. CASE s = {}
        BY <2>1, <4>1, <4>2, <4>3
      <4>4. CASE s # {}
        <5>. DEFINE x == Max(s)
        <5>1. f[s] = SeenButton(f[s \ {x}], seq[x])
          BY <2>1, <4>1, <4>4
        <5>2. s \ {x} \in SUBSET (1 .. k + 1) /\ k + 1 \notin s \ {x}
          BY <3>2
        <5>3. g[s \ {x}] = f[s \ {x}]
          BY <5>2
        <5> QED
          BY <4>2, <4>4, <5>1, <5>3
      <4> QED
        BY <4>3, <4>4
    <3> QED
      BY <3>1, <3>2
  <2>3. Is(g, k + 1)
    BY <2>2
  <2>. HIDE DEF g, Is
  <2>4. \E e : Is(e, k + 1)
    BY <2>3
  <2> QED
    BY <2>4
<1>4. Nat \subseteq Good
  <2>. HIDE DEF Good
  <2> QED
    BY <1>2, <1>3, NatsIn
<1>5. Is(it, n)
  <2>. HIDE DEF Is
  <2>1. \E g : Is(g, n)
    BY <1>4
  <2> QED
    BY <2>1
<1>6. \A s \in SUBSET (1 .. n) :
         it[s] = IF s = {} THEN p ELSE LET x == Max(s) IN SeenButton(it[s \ {x}], seq[x])
  <2>. HIDE DEF it
  <2> QED
    BY <1>5
<1>. HIDE DEF it, Is
<1>7. h[0] = p
  <2>1. 1 .. 0 = {} /\ {} \in SUBSET (1 .. n) /\ h[0] = it[1 .. 0]
    OBVIOUS
  <2> QED
    BY <1>6, <2>1
<1>8. ASSUME NEW i \in 1 .. n PROVE h[i] = SeenButton(h[i - 1], seq[i])
  <2>1. 1 .. i \in SUBSET (1 .. n) /\ i \in 1 .. i
    OBVIOUS
  <2>2. (1 .. i) \ {i} = 1 .. i - 1
    OBVIOUS
  <2>3. Max(1 .. i) = i
    <3>1. 1 .. i \subseteq Nat /\ \A y \in 1 .. i : y <= i
      OBVIOUS
    <3> QED
      BY <2>1, <3>1, MaxIs
  <2>4. it[1 .. i] = SeenButton(it[1 .. i - 1], seq[i])
    BY <1>6, <2>1, <2>2, <2>3
  <2> QED
    BY <2>4
<1>9. h[n] = it[1 .. n]
  OBVIOUS
<1>. HIDE DEF h
<1> QED
  BY <1>1, <1>7, <1>8, <1>9

\* The states h[0] .. h[n] that the fold of the pointer's events goes through.
PressedBy(p, n, seq, h) ==
    /\ h[0] = p /\ \A i \in 1 .. n : h[i] = SeenButton(h[i - 1], seq[i])
    /\ Pressed(p, seq) = h[n]

LEMMA PressedFoldBy ==
    ASSUME NEW p, NEW n \in Nat, NEW seq, DOMAIN seq = 1 .. n
    PROVE  \E h : PressedBy(p, n, seq, h)
<1>1. \E h : /\ h[0] = p
             /\ \A i \in 1 .. n : h[i] = SeenButton(h[i - 1], seq[i])
             /\ Pressed(p, seq) = h[n]
  BY ONLY PressedFold, n \in Nat, DOMAIN seq = 1 .. n
<1>2. PICK h : /\ h[0] = p
               /\ \A i \in 1 .. n : h[i] = SeenButton(h[i - 1], seq[i])
               /\ Pressed(p, seq) = h[n]
  BY <1>1
<1>3. PressedBy(p, n, seq, h)
  BY <1>2 DEF PressedBy
<1> QED
  BY <1>3

LEMMA PressedFoldLonger ==
    ASSUME NEW g, NEW m \in Nat, NEW a, DOMAIN a = 1 .. m, NEW b, DOMAIN b = 1 .. m + 1,
           \A i \in 1 .. m : b[i] = a[i]
    PROVE  Pressed(g, b) = SeenButton(Pressed(g, a), b[m + 1])
<1>a. PICK h : PressedBy(g, m, a, h)
  BY PressedFoldBy
<1>1. /\ h[0] = g
      /\ \A i \in 1 .. m : h[i] = SeenButton(h[i - 1], a[i])
      /\ Pressed(g, a) = h[m]
  BY <1>a DEF PressedBy
<1>2. m + 1 \in Nat
  OBVIOUS
<1>b. PICK k : PressedBy(g, m + 1, b, k)
  BY <1>2, PressedFoldBy
<1>3. /\ k[0] = g
      /\ \A i \in 1 .. m + 1 : k[i] = SeenButton(k[i - 1], b[i])
      /\ Pressed(g, b) = k[m + 1]
  BY <1>b DEF PressedBy
<1>. DEFINE Good == {i \in Nat : i <= m => k[i] = h[i]}
<1>4. 0 \in Good
  BY <1>1, <1>3
<1>5. ASSUME NEW i \in Nat, i \in Good PROVE i + 1 \in Good
  <2>. SUFFICES ASSUME i + 1 <= m PROVE k[i + 1] = h[i + 1]
    OBVIOUS
  <2>1. k[i] = h[i] /\ i + 1 \in 1 .. m /\ i + 1 \in 1 .. m + 1 /\ (i + 1) - 1 = i
    BY <1>5
  <2>2. h[i + 1] = SeenButton(h[i], a[i + 1]) /\ k[i + 1] = SeenButton(k[i], b[i + 1])
    BY <1>1, <1>3, <2>1
  <2> QED
    BY <2>1, <2>2
<1>6. Nat \subseteq Good
  <2>. HIDE DEF Good
  <2> QED
    BY <1>4, <1>5, NatsIn
<1>7. k[m] = h[m]
  BY <1>6
<1>8. m + 1 \in 1 .. m + 1 /\ (m + 1) - 1 = m
  OBVIOUS
<1>9. k[m + 1] = SeenButton(k[m], b[m + 1])
  BY <1>3, <1>8
<1> QED
  BY <1>1, <1>3, <1>7, <1>9

LEMMA PressedFoldAppend ==
    ASSUME NEW g, NEW S, NEW list \in Seq(S), NEW e \in S
    PROVE  /\ Pressed(g, << >>) = g
           /\ Pressed(g, Append(list, e)) = SeenButton(Pressed(g, list), e)
<1>. DEFINE m == Len(list)
            t == Append(list, e)
<1>1. m \in Nat /\ DOMAIN list = 1 .. m /\ DOMAIN t = 1 .. m + 1
      /\ t[m + 1] = e /\ \A i \in 1 .. m : t[i] = list[i]
  BY AppendProperties
<1>2. DOMAIN << >> = 1 .. 0
  OBVIOUS
<1>3. Pressed(g, << >>) = g
  <2>. DEFINE none == << >>
              z    == 0
  <2>1. DOMAIN none = 1 .. z /\ z \in Nat
    BY <1>2
  <2>. HIDE DEF none, z
  <2>2. PICK h : PressedBy(g, z, none, h)
    BY <2>1, PressedFoldBy
  <2>3. h[0] = g /\ Pressed(g, none) = h[z]
    BY <2>2 DEF PressedBy
  <2> QED
    BY <2>3 DEF none, z
<1>. HIDE DEF t, m
<1>4. Pressed(g, t) = SeenButton(Pressed(g, list), t[m + 1])
  BY <1>1, PressedFoldLonger
<1> QED
  BY <1>1, <1>3, <1>4 DEF t

Keyed(p, seq) == FoldLeft(SeenKey, p, seq)

\* The keys after each event of the keyboard.
LEMMA KeyedFold ==
    ASSUME NEW p, NEW n \in Nat, NEW seq, DOMAIN seq = 1 .. n
    PROVE  \E h : /\ h[0] = p
                  /\ \A i \in 1 .. n : h[i] = SeenKey(h[i - 1], seq[i])
                  /\ Keyed(p, seq) = h[n]
<1>. DEFINE Is(g, k) == g = [s \in SUBSET (1 .. k) |->
                                IF s = {} THEN p
                                ELSE LET x == Max(s) IN SeenKey(g[s \ {x}], seq[x])]
            Good == {k \in Nat : \E g : Is(g, k)}
            it == CHOOSE g : Is(g, n)
            h == [i \in 0 .. n |-> it[1 .. i]]
<1>1. Keyed(p, seq) = it[1 .. n]
  BY DEF Keyed, FoldLeft, MapThenFoldSet
<1>2. 0 \in Good
  <2>1. Is([s \in SUBSET (1 .. 0) |-> p], 0)
    OBVIOUS
  <2> QED
    BY <2>1
<1>3. ASSUME NEW k \in Nat, k \in Good PROVE k + 1 \in Good
  <2>1. PICK f : Is(f, k)
    BY <1>3
  <2>. DEFINE g == [s \in SUBSET (1 .. k + 1) |->
                       IF k + 1 \in s THEN SeenKey(f[s \ {k + 1}], seq[k + 1]) ELSE f[s]]
  <2>2. ASSUME NEW s \in SUBSET (1 .. k + 1)
        PROVE  g[s] = IF s = {} THEN p
                      ELSE LET x == Max(s) IN SeenKey(g[s \ {x}], seq[x])
    <3>1. CASE k + 1 \in s
      <4>1. Max(s) = k + 1
        BY <3>1, MaxOfRange
      <4>2. s \ {k + 1} \in SUBSET (1 .. k + 1) /\ s # {}
        BY <3>1
      <4>3. g[s \ {k + 1}] = f[s \ {k + 1}]
        BY <4>2
      <4> QED
        BY <3>1, <4>1, <4>2, <4>3
    <3>2. CASE k + 1 \notin s
      <4>1. s \in SUBSET (1 .. k)
        BY <3>2
      <4>2. g[s] = f[s]
        BY <3>2
      <4>3. CASE s = {}
        BY <2>1, <4>1, <4>2, <4>3
      <4>4. CASE s # {}
        <5>. DEFINE x == Max(s)
        <5>1. f[s] = SeenKey(f[s \ {x}], seq[x])
          BY <2>1, <4>1, <4>4
        <5>2. s \ {x} \in SUBSET (1 .. k + 1) /\ k + 1 \notin s \ {x}
          BY <3>2
        <5>3. g[s \ {x}] = f[s \ {x}]
          BY <5>2
        <5> QED
          BY <4>2, <4>4, <5>1, <5>3
      <4> QED
        BY <4>3, <4>4
    <3> QED
      BY <3>1, <3>2
  <2>3. Is(g, k + 1)
    BY <2>2
  <2>. HIDE DEF g, Is
  <2>4. \E e : Is(e, k + 1)
    BY <2>3
  <2> QED
    BY <2>4
<1>4. Nat \subseteq Good
  <2>. HIDE DEF Good
  <2> QED
    BY <1>2, <1>3, NatsIn
<1>5. Is(it, n)
  <2>. HIDE DEF Is
  <2>1. \E g : Is(g, n)
    BY <1>4
  <2> QED
    BY <2>1
<1>6. \A s \in SUBSET (1 .. n) :
         it[s] = IF s = {} THEN p ELSE LET x == Max(s) IN SeenKey(it[s \ {x}], seq[x])
  <2>. HIDE DEF it
  <2> QED
    BY <1>5
<1>. HIDE DEF it, Is
<1>7. h[0] = p
  <2>1. 1 .. 0 = {} /\ {} \in SUBSET (1 .. n) /\ h[0] = it[1 .. 0]
    OBVIOUS
  <2> QED
    BY <1>6, <2>1
<1>8. ASSUME NEW i \in 1 .. n PROVE h[i] = SeenKey(h[i - 1], seq[i])
  <2>1. 1 .. i \in SUBSET (1 .. n) /\ i \in 1 .. i
    OBVIOUS
  <2>2. (1 .. i) \ {i} = 1 .. i - 1
    OBVIOUS
  <2>3. Max(1 .. i) = i
    <3>1. 1 .. i \subseteq Nat /\ \A y \in 1 .. i : y <= i
      OBVIOUS
    <3> QED
      BY <2>1, <3>1, MaxIs
  <2>4. it[1 .. i] = SeenKey(it[1 .. i - 1], seq[i])
    BY <1>6, <2>1, <2>2, <2>3
  <2> QED
    BY <2>4
<1>9. h[n] = it[1 .. n]
  OBVIOUS
<1>. HIDE DEF h
<1> QED
  BY <1>1, <1>7, <1>8, <1>9

\* The states h[0] .. h[n] that the fold of the keyboard's events goes through.
KeyedBy(p, n, seq, h) ==
    /\ h[0] = p /\ \A i \in 1 .. n : h[i] = SeenKey(h[i - 1], seq[i])
    /\ Keyed(p, seq) = h[n]

LEMMA KeyedFoldBy ==
    ASSUME NEW p, NEW n \in Nat, NEW seq, DOMAIN seq = 1 .. n
    PROVE  \E h : KeyedBy(p, n, seq, h)
<1>1. \E h : /\ h[0] = p
             /\ \A i \in 1 .. n : h[i] = SeenKey(h[i - 1], seq[i])
             /\ Keyed(p, seq) = h[n]
  BY ONLY KeyedFold, n \in Nat, DOMAIN seq = 1 .. n
<1>2. PICK h : /\ h[0] = p
               /\ \A i \in 1 .. n : h[i] = SeenKey(h[i - 1], seq[i])
               /\ Keyed(p, seq) = h[n]
  BY <1>1
<1>3. KeyedBy(p, n, seq, h)
  BY <1>2 DEF KeyedBy
<1> QED
  BY <1>3

LEMMA KeyedFoldLonger ==
    ASSUME NEW g, NEW m \in Nat, NEW a, DOMAIN a = 1 .. m, NEW b, DOMAIN b = 1 .. m + 1,
           \A i \in 1 .. m : b[i] = a[i]
    PROVE  Keyed(g, b) = SeenKey(Keyed(g, a), b[m + 1])
<1>a. PICK h : KeyedBy(g, m, a, h)
  BY KeyedFoldBy
<1>1. /\ h[0] = g
      /\ \A i \in 1 .. m : h[i] = SeenKey(h[i - 1], a[i])
      /\ Keyed(g, a) = h[m]
  BY <1>a DEF KeyedBy
<1>2. m + 1 \in Nat
  OBVIOUS
<1>b. PICK k : KeyedBy(g, m + 1, b, k)
  BY <1>2, KeyedFoldBy
<1>3. /\ k[0] = g
      /\ \A i \in 1 .. m + 1 : k[i] = SeenKey(k[i - 1], b[i])
      /\ Keyed(g, b) = k[m + 1]
  BY <1>b DEF KeyedBy
<1>. DEFINE Good == {i \in Nat : i <= m => k[i] = h[i]}
<1>4. 0 \in Good
  BY <1>1, <1>3
<1>5. ASSUME NEW i \in Nat, i \in Good PROVE i + 1 \in Good
  <2>. SUFFICES ASSUME i + 1 <= m PROVE k[i + 1] = h[i + 1]
    OBVIOUS
  <2>1. k[i] = h[i] /\ i + 1 \in 1 .. m /\ i + 1 \in 1 .. m + 1 /\ (i + 1) - 1 = i
    BY <1>5
  <2>2. h[i + 1] = SeenKey(h[i], a[i + 1]) /\ k[i + 1] = SeenKey(k[i], b[i + 1])
    BY <1>1, <1>3, <2>1
  <2> QED
    BY <2>1, <2>2
<1>6. Nat \subseteq Good
  <2>. HIDE DEF Good
  <2> QED
    BY <1>4, <1>5, NatsIn
<1>7. k[m] = h[m]
  BY <1>6
<1>8. m + 1 \in 1 .. m + 1 /\ (m + 1) - 1 = m
  OBVIOUS
<1>9. k[m + 1] = SeenKey(k[m], b[m + 1])
  BY <1>3, <1>8
<1> QED
  BY <1>1, <1>3, <1>7, <1>9

LEMMA KeyedFoldAppend ==
    ASSUME NEW g, NEW S, NEW list \in Seq(S), NEW e \in S
    PROVE  /\ Keyed(g, << >>) = g
           /\ Keyed(g, Append(list, e)) = SeenKey(Keyed(g, list), e)
<1>. DEFINE m == Len(list)
            t == Append(list, e)
<1>1. m \in Nat /\ DOMAIN list = 1 .. m /\ DOMAIN t = 1 .. m + 1
      /\ t[m + 1] = e /\ \A i \in 1 .. m : t[i] = list[i]
  BY AppendProperties
<1>2. DOMAIN << >> = 1 .. 0
  OBVIOUS
<1>3. Keyed(g, << >>) = g
  <2>. DEFINE none == << >>
              z    == 0
  <2>1. DOMAIN none = 1 .. z /\ z \in Nat
    BY <1>2
  <2>. HIDE DEF none, z
  <2>2. PICK h : KeyedBy(g, z, none, h)
    BY <2>1, KeyedFoldBy
  <2>3. h[0] = g /\ Keyed(g, none) = h[z]
    BY <2>2 DEF KeyedBy
  <2> QED
    BY <2>3 DEF none, z
<1>. HIDE DEF t, m
<1>4. Keyed(g, t) = SeenKey(Keyed(g, list), t[m + 1])
  BY <1>1, KeyedFoldLonger
<1> QED
  BY <1>1, <1>3, <1>4 DEF t

Typed(p, seq) == FoldLeft(SeenText, p, seq)

\* The texts after each edit.
LEMMA TypedFold ==
    ASSUME NEW p, NEW n \in Nat, NEW seq, DOMAIN seq = 1 .. n
    PROVE  \E h : /\ h[0] = p
                  /\ \A i \in 1 .. n : h[i] = SeenText(h[i - 1], seq[i])
                  /\ Typed(p, seq) = h[n]
<1>. DEFINE Is(g, k) == g = [s \in SUBSET (1 .. k) |->
                                IF s = {} THEN p
                                ELSE LET x == Max(s) IN SeenText(g[s \ {x}], seq[x])]
            Good == {k \in Nat : \E g : Is(g, k)}
            it == CHOOSE g : Is(g, n)
            h == [i \in 0 .. n |-> it[1 .. i]]
<1>1. Typed(p, seq) = it[1 .. n]
  BY DEF Typed, FoldLeft, MapThenFoldSet
<1>2. 0 \in Good
  <2>1. Is([s \in SUBSET (1 .. 0) |-> p], 0)
    OBVIOUS
  <2> QED
    BY <2>1
<1>3. ASSUME NEW k \in Nat, k \in Good PROVE k + 1 \in Good
  <2>1. PICK f : Is(f, k)
    BY <1>3
  <2>. DEFINE g == [s \in SUBSET (1 .. k + 1) |->
                       IF k + 1 \in s THEN SeenText(f[s \ {k + 1}], seq[k + 1]) ELSE f[s]]
  <2>2. ASSUME NEW s \in SUBSET (1 .. k + 1)
        PROVE  g[s] = IF s = {} THEN p
                      ELSE LET x == Max(s) IN SeenText(g[s \ {x}], seq[x])
    <3>1. CASE k + 1 \in s
      <4>1. Max(s) = k + 1
        BY <3>1, MaxOfRange
      <4>2. s \ {k + 1} \in SUBSET (1 .. k + 1) /\ s # {}
        BY <3>1
      <4>3. g[s \ {k + 1}] = f[s \ {k + 1}]
        BY <4>2
      <4> QED
        BY <3>1, <4>1, <4>2, <4>3
    <3>2. CASE k + 1 \notin s
      <4>1. s \in SUBSET (1 .. k)
        BY <3>2
      <4>2. g[s] = f[s]
        BY <3>2
      <4>3. CASE s = {}
        BY <2>1, <4>1, <4>2, <4>3
      <4>4. CASE s # {}
        <5>. DEFINE x == Max(s)
        <5>1. f[s] = SeenText(f[s \ {x}], seq[x])
          BY <2>1, <4>1, <4>4
        <5>2. s \ {x} \in SUBSET (1 .. k + 1) /\ k + 1 \notin s \ {x}
          BY <3>2
        <5>3. g[s \ {x}] = f[s \ {x}]
          BY <5>2
        <5> QED
          BY <4>2, <4>4, <5>1, <5>3
      <4> QED
        BY <4>3, <4>4
    <3> QED
      BY <3>1, <3>2
  <2>3. Is(g, k + 1)
    BY <2>2
  <2>. HIDE DEF g, Is
  <2>4. \E e : Is(e, k + 1)
    BY <2>3
  <2> QED
    BY <2>4
<1>4. Nat \subseteq Good
  <2>. HIDE DEF Good
  <2> QED
    BY <1>2, <1>3, NatsIn
<1>5. Is(it, n)
  <2>. HIDE DEF Is
  <2>1. \E g : Is(g, n)
    BY <1>4
  <2> QED
    BY <2>1
<1>6. \A s \in SUBSET (1 .. n) :
         it[s] = IF s = {} THEN p ELSE LET x == Max(s) IN SeenText(it[s \ {x}], seq[x])
  <2>. HIDE DEF it
  <2> QED
    BY <1>5
<1>. HIDE DEF it, Is
<1>7. h[0] = p
  <2>1. 1 .. 0 = {} /\ {} \in SUBSET (1 .. n) /\ h[0] = it[1 .. 0]
    OBVIOUS
  <2> QED
    BY <1>6, <2>1
<1>8. ASSUME NEW i \in 1 .. n PROVE h[i] = SeenText(h[i - 1], seq[i])
  <2>1. 1 .. i \in SUBSET (1 .. n) /\ i \in 1 .. i
    OBVIOUS
  <2>2. (1 .. i) \ {i} = 1 .. i - 1
    OBVIOUS
  <2>3. Max(1 .. i) = i
    <3>1. 1 .. i \subseteq Nat /\ \A y \in 1 .. i : y <= i
      OBVIOUS
    <3> QED
      BY <2>1, <3>1, MaxIs
  <2>4. it[1 .. i] = SeenText(it[1 .. i - 1], seq[i])
    BY <1>6, <2>1, <2>2, <2>3
  <2> QED
    BY <2>4
<1>9. h[n] = it[1 .. n]
  OBVIOUS
<1>. HIDE DEF h
<1> QED
  BY <1>1, <1>7, <1>8, <1>9

\* A record of what the game has seen.
Sights == {"buttons", "keys", "logical", "windowEvents", "texts"}

LogicalIs(g) == g.logical = {LogicalOf(key) : key \in g.keys}

LEMMA SeenButtonIs ==
    ASSUME NEW g, DOMAIN g = Sights, NEW event
    PROVE  LET s == SeenButton(g, event) IN
           /\ DOMAIN s = Sights /\ s.keys = g.keys /\ s.logical = g.logical
           /\ s.windowEvents = g.windowEvents
           /\ s.buttons = IF "down" \in DOMAIN event THEN Pressing(g.buttons, event) ELSE g.buttons
BY DEF SeenButton, Sights

LEMMA SeenKeyIs ==
    ASSUME NEW g, DOMAIN g = Sights, NEW event
    PROVE  LET s == SeenKey(g, event) IN
           /\ DOMAIN s = Sights /\ s.buttons = g.buttons
           /\ s.windowEvents = g.windowEvents
           /\ s.keys = Pressing(g.keys, event)
           /\ LogicalIs(g) => LogicalIs(s)
<1>. DEFINE held == Pressing(g.keys, event)
            l == LogicalHeld(g.logical, held, event)
            s == SeenKey(g, event)
<1>1. s = [g EXCEPT !.keys = held, !.logical = l]
  BY DEF SeenKey, Sights
<1>. HIDE DEF s
<1>2. DOMAIN s = Sights /\ s.buttons = g.buttons /\ s.windowEvents = g.windowEvents
      /\ s.keys = held /\ s.logical = l
  <2>. HIDE DEF held, l
  <2> QED
    BY <1>1 DEF Sights
<1>3. ASSUME LogicalIs(g) PROVE l = {LogicalOf(key) : key \in held}
  <2>1. g.logical = {LogicalOf(key) : key \in g.keys}
    BY <1>3 DEF LogicalIs
  <2>2. CASE event.down
    BY <2>1, <2>2 DEF Pressing, LogicalHeld
  <2>3. CASE ~event.down
    BY <2>1, <2>3 DEF Pressing, LogicalHeld
  <2> QED
    BY <2>2, <2>3
<1> QED
  BY <1>2, <1>3 DEF LogicalIs, s

LEMMA SeenTextIs ==
    ASSUME NEW g, DOMAIN g = Sights, NEW edit
    PROVE  LET s == SeenText(g, edit) IN
           /\ DOMAIN s = Sights /\ s.buttons = g.buttons /\ s.keys = g.keys
           /\ s.logical = g.logical /\ s.windowEvents = g.windowEvents
BY DEF SeenText, Sights

\* Events of any kind, in a sequence.
Listed(seq) == \E S : seq \in Seq(S)

LEMMA ListedIs ==
    ASSUME NEW seq, Listed(seq)
    PROVE  \E n \in Nat : DOMAIN seq = 1 .. n
<1>1. PICK S : seq \in Seq(S)
  BY DEF Listed
<1>2. DOMAIN seq = 1 .. Len(seq) /\ Len(seq) \in Nat
  BY <1>1
<1> QED
  BY <1>2

LEMMA ListedAppend ==
    ASSUME NEW seq, Listed(seq), NEW e
    PROVE  /\ Listed(Append(seq, e))
           /\ \E S : seq \in Seq(S) /\ e \in S
<1>1. PICK S : seq \in Seq(S)
  BY DEF Listed
<1>. DEFINE T == S \cup {e}
<1>2. seq \in Seq(T) /\ e \in T
  <2>1. Seq(S) \subseteq Seq(T)
    OBVIOUS
  <2> QED
    BY <1>1, <2>1
<1>. HIDE DEF T
<1>3. Append(seq, e) \in Seq(T)
  BY <1>2
<1> QED
  BY <1>2, <1>3 DEF Listed

\* The fold of a device goes on with the next event.
LEMMA PressedNext ==
    ASSUME NEW g, NEW seq, Listed(seq), NEW e
    PROVE  Pressed(g, Append(seq, e)) = SeenButton(Pressed(g, seq), e)
<1>1. PICK S : seq \in Seq(S) /\ e \in S
  BY ListedAppend
<1> QED
  BY <1>1, PressedFoldAppend

LEMMA KeyedNext ==
    ASSUME NEW g, NEW seq, Listed(seq), NEW e
    PROVE  Keyed(g, Append(seq, e)) = SeenKey(Keyed(g, seq), e)
<1>1. PICK S : seq \in Seq(S) /\ e \in S
  BY ListedAppend
<1> QED
  BY <1>1, KeyedFoldAppend

LEMMA NoEvents == ASSUME NEW g PROVE Pressed(g, << >>) = g /\ Keyed(g, << >>) = g
<1>1. << >> \in Seq({g}) /\ g \in {g}
  OBVIOUS
<1> QED
  BY <1>1, PressedFoldAppend, KeyedFoldAppend

\* The buttons are the pointer's, whatever its events.
LEMMA PressedIs ==
    ASSUME NEW g, DOMAIN g = Sights, NEW seq, Listed(seq)
    PROVE  LET s == Pressed(g, seq) IN
           /\ DOMAIN s = Sights /\ s.keys = g.keys /\ s.logical = g.logical
           /\ s.windowEvents = g.windowEvents
<1>1. PICK n \in Nat : DOMAIN seq = 1 .. n
  BY ListedIs
<1>2. PICK h : PressedBy(g, n, seq, h)
  BY <1>1, PressedFoldBy
<1>3. /\ h[0] = g /\ \A i \in 1 .. n : h[i] = SeenButton(h[i - 1], seq[i])
      /\ Pressed(g, seq) = h[n]
  BY <1>2 DEF PressedBy
<1>. DEFINE Like(s) == /\ DOMAIN s = Sights /\ s.keys = g.keys /\ s.logical = g.logical
                       /\ s.windowEvents = g.windowEvents
            Good == {i \in Nat : i <= n => Like(h[i])}
<1>4. 0 \in Good
  BY <1>3
<1>5. ASSUME NEW i \in Nat, i \in Good PROVE i + 1 \in Good
  <2>. SUFFICES ASSUME i + 1 <= n PROVE Like(h[i + 1])
    OBVIOUS
  <2>1. Like(h[i]) /\ i + 1 \in 1 .. n /\ (i + 1) - 1 = i
    BY <1>5
  <2>2. h[i + 1] = SeenButton(h[i], seq[i + 1])
    BY <1>3, <2>1
  <2>. DEFINE f == h[i]
              e == seq[i + 1]
  <2>3. Like(f)
    BY <2>1
  <2>. HIDE DEF f, e
  <2>5. DOMAIN f = Sights /\ f.keys = g.keys /\ f.logical = g.logical
        /\ f.windowEvents = g.windowEvents
    BY <2>3
  <2>. DEFINE t == SeenButton(f, e)
  <2>6. DOMAIN t = Sights /\ t.keys = f.keys /\ t.logical = f.logical
        /\ t.windowEvents = f.windowEvents
    BY <2>5, SeenButtonIs, Zenon
  <2>. HIDE DEF t
  <2>7. Like(t)
    BY <2>5, <2>6
  <2>4. Like(SeenButton(f, e))
    BY <2>7 DEF t
  <2>. HIDE DEF Like
  <2> QED
    BY <2>2, <2>4 DEF f, e
<1>6. Nat \subseteq Good
  <2>. HIDE DEF Good
  <2> QED
    BY <1>4, <1>5, NatsIn
<1>7. Like(h[n])
  <2>. HIDE DEF Like
  <2> QED
    BY <1>6
<1> QED
  BY <1>3, <1>7

\* The keys are the keyboard's, and the logical ones follow them.
LEMMA KeyedIs ==
    ASSUME NEW g, DOMAIN g = Sights, NEW seq, Listed(seq)
    PROVE  LET s == Keyed(g, seq) IN
           /\ DOMAIN s = Sights /\ s.buttons = g.buttons /\ s.windowEvents = g.windowEvents
           /\ LogicalIs(g) => LogicalIs(s)
<1>1. PICK n \in Nat : DOMAIN seq = 1 .. n
  BY ListedIs
<1>2. PICK h : KeyedBy(g, n, seq, h)
  BY <1>1, KeyedFoldBy
<1>3. /\ h[0] = g /\ \A i \in 1 .. n : h[i] = SeenKey(h[i - 1], seq[i])
      /\ Keyed(g, seq) = h[n]
  BY <1>2 DEF KeyedBy
<1>. DEFINE Like(s) == /\ DOMAIN s = Sights /\ s.buttons = g.buttons
                       /\ s.windowEvents = g.windowEvents
                       /\ LogicalIs(g) => LogicalIs(s)
            Good == {i \in Nat : i <= n => Like(h[i])}
<1>4. 0 \in Good
  BY <1>3
<1>5. ASSUME NEW i \in Nat, i \in Good PROVE i + 1 \in Good
  <2>. SUFFICES ASSUME i + 1 <= n PROVE Like(h[i + 1])
    OBVIOUS
  <2>1. Like(h[i]) /\ i + 1 \in 1 .. n /\ (i + 1) - 1 = i
    BY <1>5
  <2>2. h[i + 1] = SeenKey(h[i], seq[i + 1])
    BY <1>3, <2>1
  <2> QED
    BY <2>1, <2>2, SeenKeyIs
<1>6. Nat \subseteq Good
  <2>. HIDE DEF Good
  <2> QED
    BY <1>4, <1>5, NatsIn
<1>7. Like(h[n])
  <2>. HIDE DEF Like
  <2> QED
    BY <1>6
<1> QED
  BY <1>3, <1>7

\* Only the keys that are held decide which keys are held next.
LEMMA KeyedSame ==
    ASSUME NEW f, DOMAIN f = Sights, NEW g, DOMAIN g = Sights, f.keys = g.keys,
           NEW seq, Listed(seq)
    PROVE  Keyed(f, seq).keys = Keyed(g, seq).keys
<1>1. PICK n \in Nat : DOMAIN seq = 1 .. n
  BY ListedIs
<1>2. PICK h : KeyedBy(f, n, seq, h)
  BY <1>1, KeyedFoldBy
<1>3. PICK k : KeyedBy(g, n, seq, k)
  BY <1>1, KeyedFoldBy
<1>4. /\ h[0] = f /\ \A i \in 1 .. n : h[i] = SeenKey(h[i - 1], seq[i])
      /\ Keyed(f, seq) = h[n]
  BY <1>2 DEF KeyedBy
<1>5. /\ k[0] = g /\ \A i \in 1 .. n : k[i] = SeenKey(k[i - 1], seq[i])
      /\ Keyed(g, seq) = k[n]
  BY <1>3 DEF KeyedBy
<1>. DEFINE Like(s, t) == DOMAIN s = Sights /\ DOMAIN t = Sights /\ s.keys = t.keys
            Good == {i \in Nat : i <= n => Like(h[i], k[i])}
<1>6. 0 \in Good
  BY <1>4, <1>5
<1>7. ASSUME NEW i \in Nat, i \in Good PROVE i + 1 \in Good
  <2>. SUFFICES ASSUME i + 1 <= n PROVE Like(h[i + 1], k[i + 1])
    OBVIOUS
  <2>1. Like(h[i], k[i]) /\ i + 1 \in 1 .. n /\ (i + 1) - 1 = i
    BY <1>7
  <2>2. h[i + 1] = SeenKey(h[i], seq[i + 1]) /\ k[i + 1] = SeenKey(k[i], seq[i + 1])
    BY <1>4, <1>5, <2>1
  <2> QED
    BY <2>1, <2>2, SeenKeyIs
<1>8. Nat \subseteq Good
  <2>. HIDE DEF Good
  <2> QED
    BY <1>6, <1>7, NatsIn
<1>9. Like(h[n], k[n])
  <2>. HIDE DEF Like
  <2> QED
    BY <1>8
<1> QED
  BY <1>4, <1>5, <1>9

\* The states h[0] .. h[n] that the fold of the edits goes through.
TypedBy(p, n, seq, h) ==
    /\ h[0] = p /\ \A i \in 1 .. n : h[i] = SeenText(h[i - 1], seq[i])
    /\ Typed(p, seq) = h[n]

LEMMA TypedFoldBy ==
    ASSUME NEW p, NEW n \in Nat, NEW seq, DOMAIN seq = 1 .. n
    PROVE  \E h : TypedBy(p, n, seq, h)
BY TypedFold DEF TypedBy

\* Text does not touch buttons and keys.
LEMMA TypedIs ==
    ASSUME NEW g, DOMAIN g = Sights, NEW seq, Listed(seq)
    PROVE  LET s == Typed(g, seq) IN
           /\ DOMAIN s = Sights /\ s.buttons = g.buttons /\ s.keys = g.keys
           /\ s.logical = g.logical /\ s.windowEvents = g.windowEvents
<1>1. PICK n \in Nat : DOMAIN seq = 1 .. n
  BY ListedIs
<1>3. PICK h : TypedBy(g, n, seq, h)
  BY <1>1, TypedFoldBy
<1>2. /\ h[0] = g /\ \A i \in 1 .. n : h[i] = SeenText(h[i - 1], seq[i])
      /\ Typed(g, seq) = h[n]
  BY <1>3 DEF TypedBy
<1>. DEFINE Like(s) == /\ DOMAIN s = Sights /\ s.buttons = g.buttons /\ s.keys = g.keys
                       /\ s.logical = g.logical /\ s.windowEvents = g.windowEvents
            Good == {i \in Nat : i <= n => Like(h[i])}
<1>4. 0 \in Good
  BY <1>2
<1>5. ASSUME NEW i \in Nat, i \in Good PROVE i + 1 \in Good
  <2>. SUFFICES ASSUME i + 1 <= n PROVE Like(h[i + 1])
    OBVIOUS
  <2>1. Like(h[i]) /\ i + 1 \in 1 .. n /\ (i + 1) - 1 = i
    BY <1>5
  <2>2. h[i + 1] = SeenText(h[i], seq[i + 1])
    BY <1>2, <2>1
  <2> QED
    BY <2>1, <2>2, SeenTextIs
<1>6. Nat \subseteq Good
  <2>. HIDE DEF Good
  <2> QED
    BY <1>4, <1>5, NatsIn
<1>7. Like(h[n])
  <2>. HIDE DEF Like
  <2> QED
    BY <1>6
<1> QED
  BY <1>2, <1>7

-----------------------------------------------------------------------------
(* Accepted input arrives whole *)

Pointers  == {"window", "position", "pressed", "pending"}
Keyboards == {"pressed", "pending"}
Gates     == [native : SUBSET {"a"}, arrived : Nat, kept : Nat, ever : Nat]

(***************************************************************************)
(* At any time the game will hold, after the events that are queued, what  *)
(* the device says is pressed.                                             *)
(***************************************************************************)
InputInv ==
    /\ game = [x \in Sights |-> game[x]] /\ DOMAIN game = Sights
    /\ LogicalIs(game) /\ game.windowEvents \in Nat
    /\ DOMAIN pointer = Pointers /\ DOMAIN keyboard = Keyboards /\ gate \in Gates
    /\ Listed(pointer.pending) /\ Listed(keyboard.pending) /\ Listed(text)
    /\ Pressed(game, pointer.pending).buttons = pointer.pressed
    /\ Keyed(game, keyboard.pending).keys = keyboard.pressed
    /\ game.windowEvents + gate.kept + gate.arrived = gate.ever

devices == <<pointer, keyboard, text, gate, game>>

LEMMA InputSteps ==
    ASSUME [Next]_vars
    PROVE  \/ UNCHANGED devices
           \/ BeginRun \/ TakePointer \/ TakeKey \/ TakeText \/ Tick \/ NativeEvent
<1>1. ASSUME TakeLine PROVE UNCHANGED devices \/ TakePointer \/ TakeKey \/ TakeText
  BY <1>1 DEF TakeLine, TakeMalformed, TakeDuplicate, TakeQuery, TakeScreenshot, TakeShutdown,
              TakeStart, TakeSetPace, TakeStop, inputVars, devices
<1>2. ASSUME FlushShutdown \/ Disconnected \/ EndIntake \/ PollStep \/ EndRun \/ AppExits
      PROVE  UNCHANGED devices
  BY <1>2 DEF FlushShutdown, Disconnected, EndIntake, PollStep, EndRun, AppExits, inputVars,
              devices
<1>3. ASSUME WriteResponse \/ StdoutBreaks \/ SendRequest \/ SendAgain \/ SendMalformed
                \/ CloseStdin \/ PacePasses \/ Render \/ WriterStep \/ Rest \/ UNCHANGED vars
      PROVE  UNCHANGED devices
  BY <1>3 DEF WriteResponse, StdoutBreaks, SendRequest, SendAgain, SendMalformed, Sends,
              CloseStdin, PacePasses, Render, WriterStep, Rest, vars, inputVars, devices
<1>4. ASSUME Between PROVE UNCHANGED devices \/ NativeEvent
  BY <1>4 DEF Between, WorldChanges, inputVars, devices
<1> QED
  BY <1>1, <1>2, <1>3, <1>4 DEF Next, Main

\* A pointer after a command: rejected, or with one event more and what it presses.
Pushed(d, e) ==
    /\ DOMAIN d = Pointers /\ d.pending = Append(pointer.pending, e)
    /\ d.pressed = IF "down" \in DOMAIN e THEN Pressing(pointer.pressed, e) ELSE pointer.pressed

LEMMA MoveOnIs ==
    ASSUME DOMAIN pointer = Pointers, NEW position
    PROVE  LET d == MoveOn(position).device IN d = pointer \/ \E e : Pushed(d, e)
<1>. DEFINE e == [move |-> position]
            d == [pointer EXCEPT !.window = world.primary, !.position = position,
                                 !.pending = Append(pointer.pending, e)]
<1>1. MoveOn(position).device = pointer \/ MoveOn(position).device = d
  BY DEF MoveOn, Accept, Reject, Pointers
<1>2. "down" \notin DOMAIN e
  OBVIOUS
<1>. HIDE DEF e
<1>3. Pushed(d, e)
  BY <1>2 DEF Pushed, Pointers
<1> QED
  BY <1>1, <1>3

LEMMA ButtonIs ==
    ASSUME DOMAIN pointer = Pointers, NEW button, NEW down \in BOOLEAN
    PROVE  LET d == Button(button, down).device IN d = pointer \/ \E e : Pushed(d, e)
<1>. DEFINE e == [key |-> button, down |-> down]
            held == IF down THEN pointer.pressed \cup {button} ELSE pointer.pressed \ {button}
            d == [pointer EXCEPT !.pressed = held, !.pending = Append(pointer.pending, e)]
<1>1. Button(button, down).device = pointer \/ Button(button, down).device = d
  BY DEF Button, Accept, Reject, Pointers
<1>2. "down" \in DOMAIN e /\ held = Pressing(pointer.pressed, e)
  BY DEF Pressing
<1>. HIDE DEF e, held
<1>3. Pushed(d, e)
  BY <1>2 DEF Pushed, Pointers
<1> QED
  BY <1>1, <1>3

LEMMA ScrollIs ==
    ASSUME DOMAIN pointer = Pointers, NEW delta
    PROVE  LET d == Scroll(delta).device IN d = pointer \/ \E e : Pushed(d, e)
<1>. DEFINE e == [scroll |-> delta]
            d == [pointer EXCEPT !.pending = Append(pointer.pending, e)]
<1>1. Scroll(delta).device = pointer \/ Scroll(delta).device = d
  BY DEF Scroll, Accept, Reject, Pointers
<1>2. "down" \notin DOMAIN e
  OBVIOUS
<1>. HIDE DEF e
<1>3. Pushed(d, e)
  BY <1>2 DEF Pushed, Pointers
<1> QED
  BY <1>1, <1>3

LEMMA PointerIs ==
    ASSUME InputInv, TakePointer
    PROVE  UNCHANGED pointer \/ \E e : Pushed(pointer', e)
<1>. DEFINE r == Line.request
            d == PointerResult(r).device
<1>0. DOMAIN pointer = Pointers /\ pointer' = d
      /\ r.kind \in {"moveTo", "moveBy", "press", "release", "scroll"}
  BY DEF InputInv, TakePointer, Dispatch
<1>1. CASE r.kind = "moveTo"
  <2>1. d = MoveTo(r.position).device
    BY <1>1 DEF PointerResult
  <2>2. d = pointer \/ d = MoveOn(r.position).device
    BY <2>1 DEF MoveTo, Reject
  <2> QED
    BY <1>0, <2>2, MoveOnIs
<1>2. CASE r.kind = "moveBy"
  <2>1. d = MoveBy(r.position).device
    BY <1>2 DEF PointerResult
  <2>2. d = pointer \/ d = MoveOn(pointer.position + r.position).device
    BY <2>1 DEF MoveBy, Reject
  <2> QED
    BY <1>0, <2>2, MoveOnIs
<1>3. CASE r.kind = "press"
  <2>1. d = Button(r.button, TRUE).device
    BY <1>3 DEF PointerResult
  <2> QED
    BY <1>0, <2>1, ButtonIs
<1>4. CASE r.kind = "release"
  <2>1. d = Button(r.button, FALSE).device
    BY <1>4 DEF PointerResult
  <2> QED
    BY <1>0, <2>1, ButtonIs
<1>5. CASE r.kind = "scroll"
  <2>1. d = Scroll(r.position).device
    BY <1>5 DEF PointerResult
  <2> QED
    BY <1>0, <2>1, ScrollIs
<1> QED
  BY <1>0, <1>1, <1>2, <1>3, <1>4, <1>5

LEMMA PointerKeeps == ASSUME InputInv, TakePointer PROVE InputInv'
<1>0. UNCHANGED <<keyboard, text, gate, game>>
  BY DEF TakePointer
<1>1. CASE UNCHANGED pointer
  BY <1>0, <1>1 DEF InputInv, LogicalIs
<1>2. ASSUME NEW e, Pushed(pointer', e) PROVE InputInv'
  <2>1. DOMAIN pointer' = Pointers /\ pointer'.pending = Append(pointer.pending, e)
    BY <1>2 DEF Pushed
  <2>2. Listed(pointer'.pending)
        /\ Pressed(game, pointer'.pending) = SeenButton(Pressed(game, pointer.pending), e)
    BY <2>1, ListedAppend, PressedNext DEF InputInv
  <2>. DEFINE f == Pressed(game, pointer.pending)
              t == SeenButton(f, e)
  <2>3. DOMAIN f = Sights /\ f.buttons = pointer.pressed
    BY PressedIs DEF InputInv
  <2>. HIDE DEF f
  <2>4. t.buttons = IF "down" \in DOMAIN e THEN Pressing(f.buttons, e) ELSE f.buttons
    BY <2>3, SeenButtonIs, Zenon
  <2>. HIDE DEF t
  <2>5. t.buttons = pointer'.pressed
    BY <1>2, <2>3, <2>4 DEF Pushed
  <2>6. Pressed(game, pointer'.pending).buttons = pointer'.pressed
    BY <2>2, <2>5 DEF t, f
  <2> QED
    BY <1>0, <2>1, <2>2, <2>6 DEF InputInv, LogicalIs
<1> QED
  BY <1>1, <1>2, PointerIs

LEMMA KeyKeeps == ASSUME InputInv, TakeKey PROVE InputInv'
<1>0. UNCHANGED <<pointer, text, gate, game>>
  BY DEF TakeKey
<1>. DEFINE key  == Line.request.key
            down == Line.request.kind = "keyPress"
            e    == [key |-> key, down |-> down]
            held == IF down THEN keyboard.pressed \cup {key} ELSE keyboard.pressed \ {key}
<1>1. keyboard' = PressKey(key, down).device
  BY DEF TakeKey
<1>2. \/ UNCHANGED keyboard
      \/ keyboard' = [pressed |-> held, pending |-> Append(keyboard.pending, e)]
  BY <1>1 DEF PressKey, Accept, Reject
<1>3. held = Pressing(keyboard.pressed, e)
  BY DEF Pressing
<1>. HIDE DEF e, held
<1>4. CASE UNCHANGED keyboard
  BY <1>0, <1>4 DEF InputInv, LogicalIs
<1>5. CASE keyboard' = [pressed |-> held, pending |-> Append(keyboard.pending, e)]
  <2>1. DOMAIN keyboard' = Keyboards /\ keyboard'.pending = Append(keyboard.pending, e)
        /\ keyboard'.pressed = held
    BY <1>5 DEF Keyboards
  <2>2. Listed(keyboard'.pending)
        /\ Keyed(game, keyboard'.pending) = SeenKey(Keyed(game, keyboard.pending), e)
    BY <2>1, ListedAppend, KeyedNext DEF InputInv
  <2>. DEFINE f == Keyed(game, keyboard.pending)
              t == SeenKey(f, e)
  <2>3. DOMAIN f = Sights /\ f.keys = keyboard.pressed
    BY KeyedIs DEF InputInv
  <2>. HIDE DEF f
  <2>4. t.keys = Pressing(f.keys, e)
    BY <2>3, SeenKeyIs, Zenon
  <2>. HIDE DEF t
  <2>5. t.keys = keyboard'.pressed
    BY <1>3, <2>1, <2>3, <2>4
  <2>6. Keyed(game, keyboard'.pending).keys = keyboard'.pressed
    BY <2>2, <2>5 DEF t, f
  <2> QED
    BY <1>0, <2>1, <2>2, <2>6 DEF InputInv, LogicalIs
<1> QED
  BY <1>2, <1>4, <1>5

LEMMA TextKeeps == ASSUME InputInv, TakeText PROVE InputInv'
<1>1. UNCHANGED <<pointer, keyboard, gate, game>> /\ text' = TextInput(Line.request.value).device
  BY DEF TakeText
<1>2. text' = text \/ \E e : text' = Append(text, e)
  BY <1>1 DEF TextInput, Accept, Reject
<1>3. Listed(text')
  BY <1>2, ListedAppend DEF InputInv
<1> QED
  BY <1>1, <1>3 DEF InputInv, LogicalIs

\* The gate: window events move on, none is lost or doubled.
LEMMA CapturedIs ==
    ASSUME gate \in Gates
    PROVE  LET g == Captured(gate) IN
           /\ g \in Gates /\ g.native = {} /\ g.kept = gate.kept + gate.arrived
           /\ g.arrived = 0 /\ g.ever = gate.ever
<1>. DEFINE k == gate.kept + gate.arrived
<1>1. k \in Nat /\ Captured(gate) = [gate EXCEPT !.native = {}, !.kept = k, !.arrived = 0]
  BY DEF Captured, Gates
<1>. HIDE DEF k
<1>2. ASSUME NEW g, g = [gate EXCEPT !.native = {}, !.kept = k, !.arrived = 0]
      PROVE  g \in Gates /\ g.native = {} /\ g.kept = k /\ g.arrived = 0 /\ g.ever = gate.ever
  BY <1>1, <1>2 DEF Gates
<1> QED
  BY <1>1, <1>2 DEF k

LEMMA GateKeeps == ASSUME InputInv, BeginRun \/ NativeEvent PROVE InputInv'
<1>1. UNCHANGED <<pointer, keyboard, text, game>> /\ gate \in Gates
  BY DEF BeginRun, NativeEvent, InputInv
<1>2. CASE BeginRun
  <2>1. gate' = Captured(gate)
    BY <1>2 DEF BeginRun
  <2>2. gate' \in Gates /\ gate'.kept = gate.kept + gate.arrived /\ gate'.arrived = 0
        /\ gate'.ever = gate.ever
    BY <1>1, <2>1, CapturedIs
  <2>3. game.windowEvents + gate'.kept + gate'.arrived = gate'.ever
    BY <1>1, <2>2 DEF InputInv, Gates
  <2> QED
    BY <1>1, <2>2, <2>3 DEF InputInv, LogicalIs
<1>3. CASE NativeEvent
  <2>1. \/ gate' = [gate EXCEPT !.native = @ \cup {"a"}]
        \/ gate' = [gate EXCEPT !.arrived = @ + 1, !.ever = @ + 1]
    BY <1>3 DEF NativeEvent
  <2>2. gate' \in Gates /\ gate'.kept = gate.kept
        /\ gate'.arrived - gate.arrived = gate'.ever - gate.ever
    <3>1. CASE gate' = [gate EXCEPT !.native = @ \cup {"a"}]
      BY <1>1, <3>1 DEF Gates
    <3>2. CASE gate' = [gate EXCEPT !.arrived = @ + 1, !.ever = @ + 1]
      <4>. DEFINE m == gate.arrived + 1
                  n == gate.ever + 1
      <4>1. m \in Nat /\ n \in Nat /\ m - gate.arrived = n - gate.ever
        BY <1>1 DEF Gates
      <4>2. gate' = [gate EXCEPT !.arrived = m, !.ever = n]
        BY <3>2
      <4>. HIDE DEF m, n
      <4>3. gate' \in Gates /\ gate'.arrived = m /\ gate'.ever = n /\ gate'.kept = gate.kept
        BY <1>1, <4>1, <4>2 DEF Gates
      <4> QED
        BY <4>1, <4>3
    <3> QED
      BY <2>1, <3>1, <3>2
  <2>3. game.windowEvents + gate'.kept + gate'.arrived = gate'.ever
    BY <1>1, <2>2 DEF InputInv, Gates
  <2> QED
    BY <1>1, <2>2, <2>3 DEF InputInv, LogicalIs
<1> QED
  BY <1>2, <1>3

\* What the game has seen after a tick.
LEMMA SeenIs ==
    ASSUME InputInv
    PROVE  LET s == SeenInTick(Captured(gate)) IN
           /\ DOMAIN s = Sights /\ s = [x \in Sights |-> s[x]] /\ LogicalIs(s)
           /\ s.buttons = pointer.pressed /\ s.keys = keyboard.pressed
           /\ s.windowEvents = game.windowEvents + gate.kept + gate.arrived
<1>. DEFINE g == Captured(gate)
            n == [game EXCEPT !.keys = @ \cup g.native]
            b == Pressed(n, pointer.pending)
            k == Keyed(b, keyboard.pending)
            t == Typed(k, text)
            s == [t EXCEPT !.windowEvents = @ + g.kept]
<1>1. SeenInTick(g) = s
  BY DEF SeenInTick, Pressed, Keyed, Typed
<1>2. g.native = {} /\ g.kept = gate.kept + gate.arrived
  BY CapturedIs DEF InputInv
<1>. HIDE DEF g
<1>3. n = game
  <2>1. DOMAIN game = Sights /\ game = [x \in Sights |-> game[x]]
    BY DEF InputInv
  <2>2. n = [x \in Sights |-> n[x]]
    BY <2>1
  <2>3. \A x \in Sights : n[x] = game[x]
    BY <1>2, <2>1 DEF Sights
  <2>. HIDE DEF n
  <2>4. [x \in Sights |-> n[x]] = [x \in Sights |-> game[x]]
    BY <2>3
  <2> QED
    BY <2>1, <2>2, <2>4, Zenon
<1>. HIDE DEF n
<1>4. /\ DOMAIN b = Sights /\ b.keys = game.keys /\ b.logical = game.logical
      /\ b.windowEvents = game.windowEvents /\ b.buttons = pointer.pressed
  BY <1>3, PressedIs DEF InputInv
<1>5. LogicalIs(b)
  BY <1>4 DEF InputInv, LogicalIs
<1>. HIDE DEF b
<1>6. /\ DOMAIN k = Sights /\ k.buttons = b.buttons /\ k.windowEvents = b.windowEvents
      /\ LogicalIs(k)
  BY <1>4, <1>5, KeyedIs DEF InputInv
<1>7. k.keys = keyboard.pressed
  BY <1>4, KeyedSame DEF InputInv
<1>. HIDE DEF k
<1>8. /\ DOMAIN t = Sights /\ t.buttons = k.buttons /\ t.keys = k.keys
      /\ t.logical = k.logical /\ t.windowEvents = k.windowEvents
  BY <1>6, TypedIs DEF InputInv
<1>. HIDE DEF t
<1>9. DOMAIN s = Sights /\ s.buttons = t.buttons /\ s.keys = t.keys /\ s.logical = t.logical
      /\ s.windowEvents = t.windowEvents + g.kept
  BY <1>8 DEF Sights
<1>14. s = [x \in Sights |-> s[x]]
  BY <1>8
<1>10. LogicalIs(s)
  BY <1>6, <1>8, <1>9 DEF LogicalIs
<1>11. s.windowEvents = game.windowEvents + (gate.kept + gate.arrived)
  BY <1>2, <1>4, <1>6, <1>8, <1>9
<1>12. s.windowEvents = game.windowEvents + gate.kept + gate.arrived
  BY <1>11 DEF InputInv, Gates
<1>. HIDE DEF s
<1>13. s.buttons = pointer.pressed /\ s.keys = keyboard.pressed /\ DOMAIN s = Sights
  BY <1>4, <1>6, <1>7, <1>8, <1>9
<1> QED
  BY <1>1, <1>10, <1>12, <1>13, <1>14 DEF g

LEMMA TickFlushes == ASSUME InputInv, Tick PROVE InputInv'
<1>. DEFINE g == Captured(gate)
<1>1. /\ game' = SeenInTick(g) /\ pointer' = [pointer EXCEPT !.pending = << >>]
      /\ keyboard' = [keyboard EXCEPT !.pending = << >>] /\ text' = << >>
      /\ gate' = [g EXCEPT !.kept = 0]
  BY DEF Tick, Flush
<1>2. g \in Gates /\ g.arrived = 0 /\ g.ever = gate.ever
  BY CapturedIs DEF InputInv
<1>3. /\ DOMAIN game' = Sights /\ game' = [x \in Sights |-> game'[x]] /\ LogicalIs(game')
      /\ game'.buttons = pointer.pressed /\ game'.keys = keyboard.pressed
      /\ game'.windowEvents = game.windowEvents + gate.kept + gate.arrived
  BY <1>1, SeenIs
<1>. HIDE DEF g
<1>4. gate' \in Gates /\ gate'.kept = 0 /\ gate'.arrived = 0 /\ gate'.ever = gate.ever
  BY <1>1, <1>2 DEF Gates
<1>5. game'.windowEvents \in Nat /\ game'.windowEvents + gate'.kept + gate'.arrived = gate'.ever
  BY <1>3, <1>4 DEF InputInv, Gates
<1>6. Listed(<< >>)
  <2>1. << >> \in Seq({})
    OBVIOUS
  <2> QED
    BY <2>1 DEF Listed
<1>7. /\ DOMAIN pointer' = Pointers /\ pointer'.pending = << >>
      /\ pointer'.pressed = pointer.pressed
  BY <1>1 DEF InputInv, Pointers
<1>8. /\ DOMAIN keyboard' = Keyboards /\ keyboard'.pending = << >>
      /\ keyboard'.pressed = keyboard.pressed
  BY <1>1 DEF InputInv, Keyboards
<1>9. Pressed(game', pointer'.pending) = game' /\ Keyed(game', keyboard'.pending) = game'
  BY <1>7, <1>8, NoEvents
<1>10. LogicalIs(game)'
  BY <1>3 DEF LogicalIs
<1> QED
  BY <1>1, <1>3, <1>4, <1>5, <1>6, <1>7, <1>8, <1>9, <1>10 DEF InputInv

LEMMA InputInvInit == Init => InputInv
<1>. SUFFICES ASSUME Init PROVE InputInv
  OBVIOUS
<1>1. /\ pointer = [window |-> 0, position |-> 0, pressed |-> {}, pending |-> << >>]
      /\ keyboard = [pressed |-> {}, pending |-> << >>] /\ text = << >>
      /\ gate = [native |-> {}, arrived |-> 0, kept |-> 0, ever |-> 0]
      /\ game = [buttons |-> {}, keys |-> {}, logical |-> {}, windowEvents |-> 0,
                 texts |-> [f \in Fields |-> << >>]]
  BY DEF Init, InputInit
<1>2. Listed(<< >>)
  <2>1. << >> \in Seq({})
    OBVIOUS
  <2> QED
    BY <2>1 DEF Listed
<1>3. DOMAIN game = Sights /\ LogicalIs(game)
  BY <1>1 DEF Sights, LogicalIs
<1>4. Pressed(game, << >>) = game /\ Keyed(game, << >>) = game
  BY NoEvents
<1>5. DOMAIN pointer = Pointers /\ DOMAIN keyboard = Keyboards /\ gate \in Gates
  BY <1>1 DEF Pointers, Keyboards, Gates
<1>6. /\ game.windowEvents = 0 /\ game.buttons = {} /\ game.keys = {}
      /\ game = [x \in Sights |-> game[x]]
  BY <1>1, <1>3
<1>7. /\ pointer.pending = << >> /\ pointer.pressed = {}
      /\ keyboard.pending = << >> /\ keyboard.pressed = {}
      /\ gate.kept = 0 /\ gate.arrived = 0 /\ gate.ever = 0
  BY <1>1
<1>8. Pressed(game, pointer.pending).buttons = pointer.pressed
      /\ Keyed(game, keyboard.pending).keys = keyboard.pressed
  BY <1>4, <1>6, <1>7
<1>9. Listed(pointer.pending) /\ Listed(keyboard.pending) /\ Listed(text)
  BY <1>1, <1>2, <1>7
<1>. HIDE DEF Sights
<1> QED
  BY <1>3, <1>5, <1>6, <1>7, <1>8, <1>9 DEF InputInv

LEMMA InputStep == InputInv /\ [Next]_vars => InputInv'
<1>. SUFFICES ASSUME InputInv, [Next]_vars PROVE InputInv'
  OBVIOUS
<1>1. CASE UNCHANGED devices
  BY <1>1 DEF InputInv, LogicalIs, devices
<1> QED
  BY <1>1, InputSteps, GateKeeps, PointerKeeps, KeyKeeps, TextKeeps, TickFlushes

(***************************************************************************)
(* What the client presses and releases is what the game holds once the    *)
(* events are flushed, whatever was rejected, typed natively or changed in *)
(* the window in between; a logical key is down with any of its physical   *)
(* ones, and no window event is lost (session/input.rs, its devices and    *)
(* its gate).                                                              *)
(***************************************************************************)
THEOREM InputsArriveWhole == SafetySpec => []InputArrivesWhole
<1>1. ASSUME InputInv PROVE InputArrivesWhole
  <2>1. Pressed(game, << >>) = game /\ Keyed(game, << >>) = game
    BY NoEvents
  <2> QED
    BY <1>1, <2>1 DEF InputInv, InputArrivesWhole, LogicalIs
<1> QED
  BY <1>1, InputInvInit, InputStep, PTL DEF SafetySpec
=============================================================================
