--------------------------- MODULE ActivityProofs ---------------------------
(***************************************************************************)
(* Lemmas about the activity store (Activity): its positions follow one    *)
(* another from the floor on, what it keeps fits into its bytes, and a     *)
(* poll returns all that lies behind the cursor.  The modules about the    *)
(* server and about its clients cite them.                                 *)
(***************************************************************************)
EXTENDS Activity, FiniteSetTheorems, SequenceTheorems, WellFoundedInduction, TLAPS

-----------------------------------------------------------------------------
(* Induction, and the folds over the entries *)

\* A set of natural numbers that is not empty has a least element.
LEMMA LeastOf ==
    ASSUME NEW S, S \subseteq Nat, S # {}
    PROVE  \E x \in S : \A y \in S : x <= y
<1>. DEFINE less == {ss \in Nat \X Nat : ss[1] < ss[2]}
<1>1. IsWellFoundedOn(less, Nat)
  BY NatLessThanWellFounded DEF OpToRel
<1>. HIDE DEF less
<1>2. PICK x \in S : \A y \in S : ~ (<<y, x>> \in less)
  BY <1>1, WFMin, Zenon
<1>3. ASSUME NEW y \in S PROVE x <= y
  <2>1. y \in Nat /\ x \in Nat /\ ~(<<y, x>> \in less)
    BY <1>2
  <2> QED
    BY <2>1 DEF less
<1> QED
  BY <1>2, <1>3

\* Induction over the natural numbers, with a set for the property.
LEMMA NatsIn ==
    ASSUME NEW S, 0 \in S, \A n \in Nat : n \in S => n + 1 \in S
    PROVE  Nat \subseteq S
<1>1. SUFFICES ASSUME Nat \ S # {} PROVE FALSE
  OBVIOUS
<1>2. PICK x \in Nat \ S : \A y \in Nat \ S : x <= y
  BY <1>1, LeastOf
<1>3. x - 1 \in Nat /\ x - 1 \notin Nat \ S
  BY <1>2
<1> QED
  BY <1>2, <1>3

\* The largest number of a set is the one that no other exceeds.
LEMMA MaxIs ==
    ASSUME NEW S, S \subseteq Nat, NEW x \in S, \A y \in S : y <= x
    PROVE  Max(S) = x
<1>1. \A z \in S : (\A y \in S : z >= y) => z = x
  OBVIOUS
<1>2. \A y \in S : x >= y
  OBVIOUS
<1> QED
  BY <1>1, <1>2 DEF Max

\* The largest member of a part of 1 .. k + 1 that has k + 1.
LEMMA MaxOfRange ==
    ASSUME NEW k \in Nat, NEW s \in SUBSET (1 .. k + 1), k + 1 \in s
    PROVE  Max(s) = k + 1
<1>1. s \subseteq Nat /\ \A y \in s : y <= k + 1
  OBVIOUS
<1> QED
  BY <1>1, MaxIs

\* The sums h[0] .. h[n] that the fold of the sizes goes through.
LEMMA BytesFold ==
    ASSUME NEW n \in Nat, NEW seq, DOMAIN seq = 1 .. n
    PROVE  \E h : /\ h[0] = 0
                  /\ \A i \in 1 .. n : h[i] = Summed(h[i - 1], seq[i])
                  /\ Bytes(seq) = h[n]
<1>. DEFINE Is(g, k) == g = [s \in SUBSET (1 .. k) |->
                                IF s = {} THEN 0
                                ELSE LET x == Max(s) IN Summed(g[s \ {x}], seq[x])]
            Good == {k \in Nat : \E g : Is(g, k)}
            it == CHOOSE g : Is(g, n)
            h == [i \in 0 .. n |-> it[1 .. i]]
<1>1. Bytes(seq) = it[1 .. n]
  BY DEF Bytes, FoldLeft, MapThenFoldSet
<1>2. 0 \in Good
  <2>1. Is([s \in SUBSET (1 .. 0) |-> 0], 0)
    OBVIOUS
  <2> QED
    BY <2>1
<1>3. ASSUME NEW k \in Nat, k \in Good PROVE k + 1 \in Good
  <2>1. PICK f : Is(f, k)
    BY <1>3
  <2>. DEFINE g == [s \in SUBSET (1 .. k + 1) |->
                       IF k + 1 \in s THEN Summed(f[s \ {k + 1}], seq[k + 1]) ELSE f[s]]
  <2>2. ASSUME NEW s \in SUBSET (1 .. k + 1)
        PROVE  g[s] = IF s = {} THEN 0
                      ELSE LET x == Max(s) IN Summed(g[s \ {x}], seq[x])
    <3>1. CASE k + 1 \in s
      <4>1. Max(s) = k + 1
        BY <3>1, MaxOfRange
      <4>2. s \ {k + 1} \in SUBSET (1 .. k + 1) /\ s # {}
        BY <3>1
      <4>3. g[s \ {k + 1}] = f[s \ {k + 1}]
        BY <4>2
      <4> QED
        BY <3>1, <4>1, <4>2, <4>3
    <3>2. CASE k + 1 \notin s
      <4>1. s \in SUBSET (1 .. k)
        BY <3>2
      <4>2. g[s] = f[s]
        BY <3>2
      <4>3. CASE s = {}
        BY <2>1, <4>1, <4>2, <4>3
      <4>4. CASE s # {}
        <5>. DEFINE x == Max(s)
        <5>1. f[s] = Summed(f[s \ {x}], seq[x])
          BY <2>1, <4>1, <4>4
        <5>2. s \ {x} \in SUBSET (1 .. k + 1) /\ k + 1 \notin s \ {x}
          BY <3>2
        <5>3. g[s \ {x}] = f[s \ {x}]
          BY <5>2
        <5> QED
          BY <4>2, <4>4, <5>1, <5>3
      <4> QED
        BY <4>3, <4>4
    <3> QED
      BY <3>1, <3>2
  <2>3. Is(g, k + 1)
    BY <2>2
  <2>. HIDE DEF g, Is
  <2>4. \E e : Is(e, k + 1)
    BY <2>3
  <2> QED
    BY <2>4
<1>4. Nat \subseteq Good
  <2>. HIDE DEF Good
  <2> QED
    BY <1>2, <1>3, NatsIn
<1>5. Is(it, n)
  <2>. HIDE DEF Is
  <2>1. \E g : Is(g, n)
    BY <1>4
  <2> QED
    BY <2>1
<1>6. \A s \in SUBSET (1 .. n) :
         it[s] = IF s = {} THEN 0 ELSE LET x == Max(s) IN Summed(it[s \ {x}], seq[x])
  <2>. HIDE DEF it
  <2> QED
    BY <1>5
<1>. HIDE DEF it, Is
<1>7. h[0] = 0
  <2>1. 1 .. 0 = {} /\ {} \in SUBSET (1 .. n) /\ h[0] = it[1 .. 0]
    OBVIOUS
  <2> QED
    BY <1>6, <2>1
<1>8. ASSUME NEW i \in 1 .. n PROVE h[i] = Summed(h[i - 1], seq[i])
  <2>1. 1 .. i \in SUBSET (1 .. n) /\ i \in 1 .. i
    OBVIOUS
  <2>2. (1 .. i) \ {i} = 1 .. i - 1
    OBVIOUS
  <2>3. Max(1 .. i) = i
    <3>1. 1 .. i \subseteq Nat /\ \A y \in 1 .. i : y <= i
      OBVIOUS
    <3> QED
      BY <2>1, <3>1, MaxIs
  <2>4. it[1 .. i] = Summed(it[1 .. i - 1], seq[i])
    BY <1>6, <2>1, <2>2, <2>3
  <2> QED
    BY <2>4
<1>9. h[n] = it[1 .. n]
  OBVIOUS
<1>. HIDE DEF h
<1> QED
  BY <1>1, <1>7, <1>8, <1>9

\* A poll's step: the news so far, with the entry if it is behind the cursor.
Newer(cursor, news, entry) ==
    IF entry.position > cursor THEN Append(news, entry) ELSE news

\* The news h[0] .. h[n] that the fold of the entries behind a cursor goes through.
LEMMA NewsFold ==
    ASSUME NEW store, NEW cursor, NEW n \in Nat,
           DOMAIN store.entries = 1 .. n
    PROVE  \E h : /\ h[0] = << >>
                  /\ \A i \in 1 .. n : h[i] = Newer(cursor, h[i - 1], store.entries[i])
                  /\ News(store, cursor) = h[n]
<1>. DEFINE Is(g, k) == g = [s \in SUBSET (1 .. k) |->
                                IF s = {} THEN << >>
                                ELSE LET x == Max(s) IN Newer(cursor, g[s \ {x}], store.entries[x])]
            Good == {k \in Nat : \E g : Is(g, k)}
            it == CHOOSE g : Is(g, n)
            h == [i \in 0 .. n |-> it[1 .. i]]
<1>1. News(store, cursor) = it[1 .. n]
  BY DEF News, Newer, FoldLeft, MapThenFoldSet
<1>2. 0 \in Good
  <2>1. Is([s \in SUBSET (1 .. 0) |-> << >>], 0)
    OBVIOUS
  <2> QED
    BY <2>1
<1>3. ASSUME NEW k \in Nat, k \in Good PROVE k + 1 \in Good
  <2>1. PICK f : Is(f, k)
    BY <1>3
  <2>. DEFINE g == [s \in SUBSET (1 .. k + 1) |->
                       IF k + 1 \in s THEN Newer(cursor, f[s \ {k + 1}], store.entries[k + 1]) ELSE f[s]]
  <2>2. ASSUME NEW s \in SUBSET (1 .. k + 1)
        PROVE  g[s] = IF s = {} THEN << >>
                      ELSE LET x == Max(s) IN Newer(cursor, g[s \ {x}], store.entries[x])
    <3>1. CASE k + 1 \in s
      <4>1. Max(s) = k + 1
        BY <3>1, MaxOfRange
      <4>2. s \ {k + 1} \in SUBSET (1 .. k + 1) /\ s # {}
        BY <3>1
      <4>3. g[s \ {k + 1}] = f[s \ {k + 1}]
        BY <4>2
      <4> QED
        BY <3>1, <4>1, <4>2, <4>3
    <3>2. CASE k + 1 \notin s
      <4>1. s \in SUBSET (1 .. k)
        BY <3>2
      <4>2. g[s] = f[s]
        BY <3>2
      <4>3. CASE s = {}
        BY <2>1, <4>1, <4>2, <4>3
      <4>4. CASE s # {}
        <5>. DEFINE x == Max(s)
        <5>1. f[s] = Newer(cursor, f[s \ {x}], store.entries[x])
          BY <2>1, <4>1, <4>4
        <5>2. s \ {x} \in SUBSET (1 .. k + 1) /\ k + 1 \notin s \ {x}
          BY <3>2
        <5>3. g[s \ {x}] = f[s \ {x}]
          BY <5>2
        <5> QED
          BY <4>2, <4>4, <5>1, <5>3
      <4> QED
        BY <4>3, <4>4
    <3> QED
      BY <3>1, <3>2
  <2>3. Is(g, k + 1)
    BY <2>2
  <2>. HIDE DEF g, Is
  <2>4. \E e : Is(e, k + 1)
    BY <2>3
  <2> QED
    BY <2>4
<1>4. Nat \subseteq Good
  <2>. HIDE DEF Good
  <2> QED
    BY <1>2, <1>3, NatsIn
<1>5. Is(it, n)
  <2>. HIDE DEF Is
  <2>1. \E g : Is(g, n)
    BY <1>4
  <2> QED
    BY <2>1
<1>6. \A s \in SUBSET (1 .. n) :
         it[s] = IF s = {} THEN << >> ELSE LET x == Max(s) IN Newer(cursor, it[s \ {x}], store.entries[x])
  <2>. HIDE DEF it
  <2> QED
    BY <1>5
<1>. HIDE DEF it, Is
<1>7. h[0] = << >>
  <2>1. 1 .. 0 = {} /\ {} \in SUBSET (1 .. n) /\ h[0] = it[1 .. 0]
    OBVIOUS
  <2> QED
    BY <1>6, <2>1
<1>8. ASSUME NEW i \in 1 .. n PROVE h[i] = Newer(cursor, h[i - 1], store.entries[i])
  <2>1. 1 .. i \in SUBSET (1 .. n) /\ i \in 1 .. i
    OBVIOUS
  <2>2. (1 .. i) \ {i} = 1 .. i - 1
    OBVIOUS
  <2>3. Max(1 .. i) = i
    <3>1. 1 .. i \subseteq Nat /\ \A y \in 1 .. i : y <= i
      OBVIOUS
    <3> QED
      BY <2>1, <3>1, MaxIs
  <2>4. it[1 .. i] = Newer(cursor, it[1 .. i - 1], store.entries[i])
    BY <1>6, <2>1, <2>2, <2>3
  <2> QED
    BY <2>4
<1>9. h[n] = it[1 .. n]
  OBVIOUS
<1>. HIDE DEF h
<1> QED
  BY <1>1, <1>7, <1>8, <1>9

\* The same, named.
NewsBy(store, cursor, n, h) ==
    /\ h[0] = << >>
    /\ \A i \in 1 .. n : h[i] = Newer(cursor, h[i - 1], store.entries[i])
    /\ News(store, cursor) = h[n]

LEMMA NewsFoldBy ==
    ASSUME NEW store, NEW cursor, NEW n \in Nat, DOMAIN store.entries = 1 .. n
    PROVE  \E h : NewsBy(store, cursor, n, h)
<1>1. \E h : /\ h[0] = << >>
             /\ \A i \in 1 .. n : h[i] = Newer(cursor, h[i - 1], store.entries[i])
             /\ News(store, cursor) = h[n]
  BY ONLY NewsFold, n \in Nat, DOMAIN store.entries = 1 .. n
<1> QED
  BY <1>1 DEF NewsBy

-----------------------------------------------------------------------------
(* The bytes of a sequence of entries *)

HasSizes(seq) == \A i \in 1 .. Len(seq) : seq[i].size \in Nat

LEMMA BytesNat ==
    ASSUME NEW E, NEW seq \in Seq(E), HasSizes(seq)
    PROVE  Bytes(seq) \in Nat
<1>. DEFINE n == Len(seq)
<1>1. n \in Nat /\ DOMAIN seq = 1 .. n
  OBVIOUS
<1>2. PICK h : /\ h[0] = 0 /\ \A i \in 1 .. n : h[i] = Summed(h[i - 1], seq[i])
               /\ Bytes(seq) = h[n]
  BY <1>1, BytesFold
<1>. DEFINE Good == {i \in Nat : i <= n => h[i] \in Nat}
<1>3. 0 \in Good
  BY <1>2
<1>4. ASSUME NEW i \in Nat, i \in Good PROVE i + 1 \in Good
  BY <1>1, <1>2, <1>4 DEF Summed, HasSizes
<1>. HIDE DEF Good, n
<1>5. n \in Good
  BY <1>1, <1>3, <1>4, NatsIn
<1> QED
  BY <1>1, <1>2, <1>5 DEF Good

LEMMA BytesEmpty == Bytes(<< >>) = 0
<1>1. 0 \in Nat /\ DOMAIN << >> = 1 .. 0
  OBVIOUS
<1>2. \E h : h[0] = 0 /\ Bytes(<< >>) = h[0]
  BY <1>1, BytesFold
<1> QED
  BY <1>2

LEMMA BytesAppend ==
    ASSUME NEW E, NEW seq \in Seq(E), NEW e \in E
    PROVE  Bytes(Append(seq, e)) = Bytes(seq) + e.size
<1>. DEFINE n == Len(seq)
            more == Append(seq, e)
<1>1. /\ n \in Nat /\ DOMAIN seq = 1 .. n /\ DOMAIN more = 1 .. n + 1
      /\ \A i \in 1 .. n : more[i] = seq[i]
      /\ more[n + 1] = e
  OBVIOUS
<1>. HIDE DEF n, more
<1>2. PICK h : /\ h[0] = 0 /\ \A i \in 1 .. n : h[i] = Summed(h[i - 1], seq[i])
               /\ Bytes(seq) = h[n]
  BY <1>1, BytesFold
<1>3. PICK g : /\ g[0] = 0 /\ \A i \in 1 .. n + 1 : g[i] = Summed(g[i - 1], more[i])
               /\ Bytes(more) = g[n + 1]
  <2>1. n + 1 \in Nat
    BY <1>1
  <2> QED
    BY <1>1, <2>1, BytesFold
<1>. DEFINE Good == {i \in Nat : i <= n => g[i] = h[i]}
<1>4. 0 \in Good
  BY <1>2, <1>3
<1>5. ASSUME NEW i \in Nat, i \in Good PROVE i + 1 \in Good
  <2>1. SUFFICES ASSUME i + 1 <= n PROVE g[i + 1] = h[i + 1]
    OBVIOUS
  <2>2. i + 1 \in 1 .. n /\ i + 1 \in 1 .. n + 1 /\ (i + 1) - 1 = i /\ i <= n
    BY <1>1, <2>1
  <2> QED
    BY <1>1, <1>2, <1>3, <1>5, <2>2
<1>. HIDE DEF Good
<1>6. n \in Good
  BY <1>1, <1>4, <1>5, NatsIn
<1>7. n + 1 \in 1 .. n + 1 /\ (n + 1) - 1 = n
  BY <1>1
<1>8. g[n + 1] = Summed(h[n], e)
  BY <1>1, <1>3, <1>6, <1>7 DEF Good
<1> QED
  BY <1>2, <1>3, <1>8 DEF Summed, more

-----------------------------------------------------------------------------
(* The store *)

LEMMA AfterIs ==
    ASSUME NEW E, NEW seq \in Seq(E), NEW n \in 0 .. Len(seq)
    PROVE  /\ After(seq, n) \in Seq(E) /\ Len(After(seq, n)) = Len(seq) - n
           /\ \A i \in 1 .. Len(seq) - n : After(seq, n)[i] = seq[n + i]
<1>1. /\ Len(seq) \in Nat /\ n \in Nat /\ n <= Len(seq) /\ n + 1 \in Int
      /\ \A i \in n + 1 .. Len(seq) : seq[i] \in E
  OBVIOUS
<1>. DEFINE t == SubSeq(seq, n + 1, Len(seq))
<1>2. /\ t \in Seq(E)
      /\ Len(t) = IF n + 1 <= Len(seq) THEN Len(seq) - (n + 1) + 1 ELSE 0
      /\ \A i \in 1 .. Len(seq) - (n + 1) + 1 : t[i] = seq[(n + 1) + i - 1]
  BY <1>1, SubSeqProperties
<1>3. After(seq, n) = t
  BY DEF After
<1>. HIDE DEF t
<1>4. \A i \in 1 .. Len(seq) - n : (n + 1) + i - 1 = n + i /\ i \in 1 .. Len(seq) - (n + 1) + 1
  BY <1>1
<1> QED
  BY <1>1, <1>2, <1>3, <1>4

LEMMA AfterSizes ==
    ASSUME NEW E, NEW seq \in Seq(E), HasSizes(seq), NEW n \in 0 .. Len(seq)
    PROVE  HasSizes(After(seq, n))
<1>. DEFINE kept == After(seq, n)
<1>1. /\ Len(kept) = Len(seq) - n /\ \A i \in 1 .. Len(seq) - n : kept[i] = seq[n + i]
  BY AfterIs
<1>. HIDE DEF kept
<1>2. ASSUME NEW i \in 1 .. Len(kept) PROVE kept[i].size \in Nat
  <2>1. i \in 1 .. Len(seq) - n /\ n + i \in 1 .. Len(seq)
    BY <1>1
  <2> QED
    BY <1>1, <2>1 DEF HasSizes
<1> QED
  BY <1>2 DEF HasSizes, kept

LEMMA AppendIs ==
    ASSUME NEW E, NEW seq \in Seq(E), NEW e \in E
    PROVE  /\ Append(seq, e) \in Seq(E) /\ Len(Append(seq, e)) = Len(seq) + 1
           /\ \A i \in 1 .. Len(seq) : Append(seq, e)[i] = seq[i]
           /\ Append(seq, e)[Len(seq) + 1] = e
OBVIOUS

\* Enough is evicted for the size, or all.
LEMMA EvictedIs ==
    ASSUME NEW E, NEW seq \in Seq(E), HasSizes(seq), NEW size \in Nat
    PROVE  /\ Evicted(seq, size) \in 0 .. Len(seq)
           /\ \/ Evicted(seq, size) = Len(seq)
              \/ Bytes(After(seq, Evicted(seq, size))) + size <= Limit
<1>. DEFINE Fits(n) == n = Len(seq) \/ Bytes(After(seq, n)) + size <= Limit
            S == {n \in 0 .. Len(seq) : Fits(n)}
<1>1. Len(seq) \in S /\ S \subseteq Nat
  OBVIOUS
<1>2. PICK n \in S : \A m \in S : n <= m
  <2>. HIDE DEF S
  <2> QED
    BY <1>1, LeastOf
<1>3. \A m \in 0 .. n - 1 : Bytes(After(seq, m)) + size > Limit
  <2>1. TAKE m \in 0 .. n - 1
  <2>2. m \in 0 .. Len(seq) /\ m # Len(seq) /\ m \notin S
    BY <1>2
  <2>3. Bytes(After(seq, m)) \in Nat
    <3>1. After(seq, m) \in Seq(E) /\ HasSizes(After(seq, m))
      BY <2>2, AfterIs, AfterSizes
    <3> QED
      BY <3>1, BytesNat
  <2> QED
    BY <2>2, <2>3, LimitAssumption
<1>4. \E x \in 0 .. Len(seq) :
         /\ x = Len(seq) \/ Bytes(After(seq, x)) + size <= Limit
         /\ \A m \in 0 .. x - 1 : Bytes(After(seq, m)) + size > Limit
  BY <1>2, <1>3
<1> QED
  BY <1>4 DEF Evicted

(***************************************************************************)
(* A log: the positions of the entries follow one another, from the floor  *)
(* to the position of the store, and their sizes fit into it.              *)
(***************************************************************************)
LogOf(entries, floor, position, E) ==
    /\ entries \in Seq(E) /\ HasSizes(entries)
    /\ floor \in Nat /\ position = floor + Len(entries)
    /\ \A i \in 1 .. Len(entries) : entries[i].position = floor + i
    /\ Bytes(entries) <= Limit

IsLog(store, E) == LogOf(store.entries, store.floor, store.position, E)

LEMMA EmptyLog ==
    ASSUME NEW E, NEW floor \in Nat
    PROVE  LogOf(<< >>, floor, floor, E)
BY BytesEmpty, LimitAssumption DEF LogOf, HasSizes

LEMMA MoreLog ==
    ASSUME NEW E, NEW entries, NEW floor, NEW position, LogOf(entries, floor, position, E),
           NEW n \in 0 .. Len(entries), NEW e \in E,
           e.position = position + 1, e.size \in Nat,
           Bytes(After(entries, n)) + e.size <= Limit
    PROVE  LogOf(Append(After(entries, n), e), floor + n, position + 1, E)
<1>. DEFINE kept == After(entries, n)
            new  == Append(kept, e)
<1>1. /\ entries \in Seq(E) /\ HasSizes(entries) /\ Len(entries) \in Nat
      /\ floor \in Nat /\ position = floor + Len(entries)
      /\ \A i \in 1 .. Len(entries) : entries[i].position = floor + i
  BY DEF LogOf
<1>2. /\ kept \in Seq(E) /\ Len(kept) = Len(entries) - n
      /\ \A i \in 1 .. Len(entries) - n : kept[i] = entries[n + i]
      /\ HasSizes(kept)
  BY <1>1, AfterIs, AfterSizes
<1>. HIDE DEF kept
<1>3. /\ new \in Seq(E) /\ Len(new) = Len(kept) + 1
      /\ \A i \in 1 .. Len(kept) : new[i] = kept[i]
      /\ new[Len(kept) + 1] = e
  BY <1>2, AppendIs
<1>4. Bytes(new) = Bytes(kept) + e.size
  BY <1>2, BytesAppend
<1>. HIDE DEF new
<1>5. ASSUME NEW i \in 1 .. Len(new)
      PROVE  new[i].size \in Nat /\ new[i].position = (floor + n) + i
  <2>1. CASE i <= Len(kept)
    <3>1. i \in 1 .. Len(kept) /\ i \in 1 .. Len(entries) - n /\ n + i \in 1 .. Len(entries)
      BY <1>1, <1>2, <2>1
    <3>2. new[i] = entries[n + i] /\ new[i] = kept[i]
      BY <1>2, <1>3, <3>1
    <3>3. kept[i].size \in Nat
      BY <1>2, <3>1 DEF HasSizes
    <3>4. entries[n + i].position = floor + (n + i)
      BY <1>1, <3>1
    <3>5. floor + (n + i) = (floor + n) + i
      BY <1>1, <3>1
    <3> QED
      BY <3>2, <3>3, <3>4, <3>5
  <2>2. CASE i = Len(kept) + 1
    <3>1. new[i] = e
      BY <1>3, <2>2
    <3> QED
      BY <1>1, <1>2, <2>2, <3>1
  <2> QED
    BY <1>2, <1>3, <2>1, <2>2
<1>6. floor + n \in Nat /\ position + 1 = (floor + n) + Len(new)
  BY <1>1, <1>2, <1>3
<1>7. Bytes(new) <= Limit
  BY <1>4 DEF kept
<1> QED
  BY <1>3, <1>5, <1>6, <1>7 DEF LogOf, HasSizes, new, kept

LEMMA NewLog == ASSUME NEW E PROVE IsLog(NewStore, E)
BY EmptyLog DEF IsLog, NewStore

Pushes(store, what, size, pending) ==
    [position |-> store.position + 1, size |-> size, what |-> what, pending |-> pending]

(***************************************************************************)
(* What a push makes of a log: so many entries leave at the front, all of  *)
(* them for one that never fits, and what was known with the last of them  *)
(* is known at the floor.                                                  *)
(***************************************************************************)
PushesAfter(store, what, size, pending, n) ==
    LET new  == Push(store, what, size, pending)
        kept == After(store.entries, n)
    IN  /\ n \in 0 .. Len(store.entries)
        /\ new.position = store.position + 1
        /\ size > Limit =>
              n = Len(store.entries) /\ new.entries = << >> /\ new.floor = new.position
                /\ new.known = pending
        /\ size <= Limit =>
              /\ new.entries = Append(kept, Pushes(store, what, size, pending))
              /\ new.floor = store.floor + n
              /\ new.known = IF n = 0 THEN store.known ELSE store.entries[n].pending
              /\ Bytes(kept) + size <= Limit

LEMMA PushIs ==
    ASSUME NEW E, NEW store, IsLog(store, E), NEW what, NEW size \in Nat, NEW pending
    PROVE  \E n : PushesAfter(store, what, size, pending, n)
<1>. DEFINE n == Evicted(store.entries, size)
            new == Push(store, what, size, pending)
            kept == After(store.entries, n)
<1>1. /\ n \in 0 .. Len(store.entries)
      /\ n = Len(store.entries) \/ Bytes(kept) + size <= Limit
  BY EvictedIs DEF IsLog, LogOf
<1>2. kept \in Seq(E) /\ Len(kept) = Len(store.entries) - n /\ HasSizes(kept)
  BY <1>1, AfterIs, AfterSizes DEF IsLog, LogOf
<1>3. Bytes(kept) \in Nat
  BY <1>2, BytesNat
<1>4. n = Len(store.entries) => kept = << >> /\ Bytes(kept) = 0
  BY <1>2, BytesEmpty
<1>5. new = [position |-> store.position + 1,
             floor |-> IF size > Limit THEN store.position + 1
                       ELSE IF n = 0 THEN store.floor ELSE store.entries[n].position,
             known |-> IF size > Limit THEN pending
                       ELSE IF n = 0 THEN store.known ELSE store.entries[n].pending,
             entries |-> IF size > Limit THEN kept
                         ELSE Append(kept, Pushes(store, what, size, pending))]
  BY DEF Push, Floor, FloorKnown, Pushes
<1>. HIDE DEF n, new, kept
<1>6. ASSUME size > Limit
      PROVE  n = Len(store.entries) /\ new.entries = << >> /\ new.floor = new.position
               /\ new.known = pending
  <2>1. n = Len(store.entries)
    BY <1>1, <1>3, <1>6, LimitAssumption
  <2> QED
    BY <1>4, <1>5, <1>6, <2>1
<1>7. ASSUME size <= Limit
      PROVE  /\ new.entries = Append(kept, Pushes(store, what, size, pending))
             /\ new.floor = store.floor + n
             /\ new.known = IF n = 0 THEN store.known ELSE store.entries[n].pending
             /\ Bytes(kept) + size <= Limit
  <2>1. ~(size > Limit)
    BY <1>7, LimitAssumption
  <2>2. Bytes(kept) + size <= Limit
    BY <1>1, <1>4, <1>7, LimitAssumption
  <2>3. n # 0 => store.entries[n].position = store.floor + n
    BY <1>1 DEF IsLog, LogOf
  <2>4. store.floor + 0 = store.floor
    BY DEF IsLog, LogOf
  <2> QED
    BY <1>5, <2>1, <2>2, <2>3, <2>4
<1>8. PushesAfter(store, what, size, pending, n)
  BY <1>1, <1>5, <1>6, <1>7 DEF PushesAfter, new, kept
<1> QED
  BY <1>8

LEMMA PushKeepsLog ==
    ASSUME NEW E, NEW store, IsLog(store, E), NEW what, NEW size \in Nat, NEW pending,
           Pushes(store, what, size, pending) \in E
    PROVE  IsLog(Push(store, what, size, pending), E)
<1>. DEFINE new == Push(store, what, size, pending)
            entry == Pushes(store, what, size, pending)
<1>1. PICK n : PushesAfter(store, what, size, pending, n)
  BY PushIs
<1>. DEFINE kept == After(store.entries, n)
<1>2. /\ n \in 0 .. Len(store.entries) /\ new.position = store.position + 1
      /\ Len(store.entries) \in Nat /\ store.floor \in Nat
      /\ store.position = store.floor + Len(store.entries)
  BY <1>1 DEF PushesAfter, IsLog, LogOf
<1>3. CASE size > Limit
  <2>1. new.entries = << >> /\ new.floor = new.position
    BY <1>1, <1>3 DEF PushesAfter
  <2>2. new.position \in Nat
    BY <1>2
  <2> QED
    BY <2>1, <2>2, EmptyLog DEF IsLog
<1>4. CASE size <= Limit
  <2>1. new.entries = Append(kept, entry) /\ new.floor = store.floor + n
        /\ Bytes(kept) + size <= Limit
    BY <1>1, <1>4 DEF PushesAfter
  <2>2. entry.position = store.position + 1 /\ entry.size = size
    BY DEF Pushes
  <2>. HIDE DEF new, entry
  <2>3. LogOf(store.entries, store.floor, store.position, E)
    BY DEF IsLog
  <2>4. entry \in E
    BY DEF entry
  <2>5. LogOf(Append(kept, entry), store.floor + n, store.position + 1, E)
    BY <1>2, <2>1, <2>2, <2>3, <2>4, MoreLog
  <2>6. IsLog(new, E)
    BY <1>2, <2>1, <2>5 DEF IsLog
  <2> QED
    BY <2>6 DEF new
<1> QED
  BY <1>3, <1>4, LimitAssumption

\* What a push leaves in the store was there, or is the new entry.
LEMMA PushContents ==
    ASSUME NEW E, NEW store, IsLog(store, E), NEW what, NEW size \in Nat, NEW pending,
           NEW i \in 1 .. Len(Push(store, what, size, pending).entries),
           Pushes(store, what, size, pending) \in E
    PROVE  \/ Push(store, what, size, pending).entries[i] = Pushes(store, what, size, pending)
           \/ \E j \in 1 .. Len(store.entries) :
                 Push(store, what, size, pending).entries[i] = store.entries[j]
<1>. DEFINE new == Push(store, what, size, pending)
            entry == Pushes(store, what, size, pending)
<1>1. PICK n : PushesAfter(store, what, size, pending, n)
  BY PushIs
<1>. DEFINE kept == After(store.entries, n)
<1>2. n \in 0 .. Len(store.entries) /\ Len(store.entries) \in Nat
  BY <1>1 DEF PushesAfter, IsLog, LogOf
<1>3. CASE size > Limit
  <2>1. new.entries = << >>
    BY <1>1, <1>3 DEF PushesAfter
  <2>. HIDE DEF new
  <2> QED
    BY <2>1 DEF new
<1>4. CASE size <= Limit
  <2>1. new.entries = Append(kept, entry)
    BY <1>1, <1>4 DEF PushesAfter
  <2>2. /\ kept \in Seq(E) /\ Len(kept) = Len(store.entries) - n
        /\ \A k \in 1 .. Len(store.entries) - n : kept[k] = store.entries[n + k]
    BY <1>2, AfterIs DEF IsLog, LogOf
  <2>3. i \in 1 .. Len(new.entries)
    OBVIOUS
  <2>. HIDE DEF new, kept, entry
  <2>4. i \in 1 .. Len(kept) + 1
    BY <2>1, <2>2, <2>3
  <2>5. CASE i = Len(kept) + 1
    BY <2>1, <2>2, <2>5 DEF new, entry
  <2>6. CASE i <= Len(kept)
    <3>1. new.entries[i] = kept[i] /\ kept[i] = store.entries[n + i]
          /\ n + i \in 1 .. Len(store.entries)
      BY <1>2, <2>1, <2>2, <2>4, <2>6
    <3> QED
      BY <3>1 DEF new
  <2> QED
    BY <2>2, <2>4, <2>5, <2>6
<1> QED
  BY <1>3, <1>4, LimitAssumption

-----------------------------------------------------------------------------
(* A poll with a cursor that is no gap returns what lies behind the cursor. *)
LEMMA NewsIs ==
    ASSUME NEW E, NEW store, IsLog(store, E), NEW cursor \in Nat,
           store.floor <= cursor, cursor <= store.position
    PROVE  News(store, cursor) = After(store.entries, cursor - store.floor)
<1>. DEFINE n == Len(store.entries)
            seq == store.entries
            k == cursor - store.floor
            Is(x, i) == /\ x \in Seq(E)
                        /\ Len(x) = IF i <= k THEN 0 ELSE i - k
                        /\ \A j \in 1 .. Len(x) : x[j] = seq[k + j]
<1>1. /\ n \in Nat /\ DOMAIN seq = 1 .. n /\ k \in 0 .. n /\ seq \in Seq(E)
      /\ \A i \in 1 .. n : seq[i].position = store.floor + i
      /\ store.floor \in Nat /\ cursor = k + store.floor
  BY DEF IsLog, LogOf
<1>. HIDE DEF n, k
<1>2. PICK h : NewsBy(store, cursor, n, h)
  BY <1>1, NewsFoldBy
<1>3. /\ h[0] = << >> /\ \A i \in 1 .. n : h[i] = Newer(cursor, h[i - 1], seq[i])
      /\ News(store, cursor) = h[n]
  BY <1>2 DEF NewsBy
<1>. HIDE DEF seq
<1>. DEFINE Good == {i \in Nat : i <= n => Is(h[i], i)}
<1>4. 0 \in Good
  <2>1. << >> \in Seq(E) /\ Len(<< >>) = 0 /\ 0 <= k
    BY <1>1
  <2>2. Is(<< >>, 0)
    BY <2>1
  <2> QED
    BY <1>3, <2>2
<1>5. ASSUME NEW i \in Nat, i \in Good PROVE i + 1 \in Good
  <2>1. SUFFICES ASSUME i + 1 <= n PROVE Is(h[i + 1], i + 1)
    OBVIOUS
  <2>2. i + 1 \in 1 .. n /\ (i + 1) - 1 = i /\ i <= n
    BY <1>1, <2>1
  <2>3. h[i + 1] = Newer(cursor, h[i], seq[i + 1]) /\ Is(h[i], i)
    BY <1>3, <1>5, <2>2
  <2>4. seq[i + 1].position = store.floor + (i + 1) /\ seq[i + 1] \in E
    BY <1>1, <2>2
  <2>5. CASE i + 1 <= k
    <3>1. h[i + 1] = h[i]
      BY <1>1, <2>3, <2>4, <2>5 DEF Newer
    <3> QED
      BY <1>1, <2>3, <2>5, <3>1
  <2>6. CASE i + 1 > k
    <3>1. h[i + 1] = Append(h[i], seq[i + 1])
      BY SMTT(30), <1>1, <2>3, <2>4, <2>6 DEF Newer
    <3>2. Len(h[i]) = i - k /\ h[i] \in Seq(E) /\ \A j \in 1 .. Len(h[i]) : h[i][j] = seq[k + j]
      BY <1>1, <2>3, <2>6
    <3>3. /\ h[i + 1] \in Seq(E) /\ Len(h[i + 1]) = Len(h[i]) + 1
          /\ \A j \in 1 .. Len(h[i]) : h[i + 1][j] = h[i][j]
          /\ h[i + 1][Len(h[i]) + 1] = seq[i + 1]
      BY <2>4, <3>1, <3>2, AppendIs
    <3>4. ASSUME NEW j \in 1 .. Len(h[i + 1]) PROVE h[i + 1][j] = seq[k + j]
      <4>1. CASE j = Len(h[i]) + 1
        <5>1. k + j = i + 1
          BY <1>1, <3>2, <4>1
        <5> QED
          BY <3>3, <4>1, <5>1
      <4>2. CASE j \in 1 .. Len(h[i])
        BY <3>2, <3>3, <4>2
      <4>3. Len(h[i]) \in Nat
        BY <3>2
      <4> QED
        BY <3>3, <4>1, <4>2, <4>3
    <3>5. Len(h[i + 1]) = IF i + 1 <= k THEN 0 ELSE (i + 1) - k
      BY <1>1, <2>6, <3>2, <3>3
    <3> QED
      BY <3>3, <3>4, <3>5
  <2> QED
    BY <1>1, <2>5, <2>6
<1>. HIDE DEF Good
<1>6. n \in Good
  BY <1>1, <1>4, <1>5, NatsIn
<1>7. Is(h[n], n)
  BY <1>1, <1>6 DEF Good
<1>8. /\ After(seq, k) \in Seq(E) /\ Len(After(seq, k)) = n - k
      /\ \A i \in 1 .. n - k : After(seq, k)[i] = seq[k + i]
  <2>1. k \in 0 .. Len(seq)
    BY <1>1 DEF n, seq
  <2> QED
    BY <1>1, <2>1, AfterIs DEF n, seq
<1>9. Len(h[n]) = n - k
  BY <1>1, <1>7
<1>10. h[n] = After(seq, k)
  BY <1>7, <1>8, <1>9
<1> QED
  BY <1>3, <1>10 DEF seq, k
=============================================================================
