---------------------------- MODULE ScannerProofs ----------------------------
(***************************************************************************)
(* Proofs about Scanner, for any requests, blocks, matches and heights: no *)
(* request is forgotten, no match is passed over, and the scanner, with    *)
(* its queue, its batch and its goroutine, implements Watches.             *)
(*                                                                         *)
(* What the slices hold is counted scan by scan: a request may be in them  *)
(* several times, and the promise is about how often.  The inductive       *)
(* invariant IInv speaks of the queue, the batch and the reports alike,    *)
(* since a request goes round through all three.                           *)
(***************************************************************************)
EXTENDS Scanner, TLAPS, SequenceTheorems, FiniteSetTheorems

(* What follows from the promise, of the scanner's watches                 *)
Follow == INSTANCE WatchesProofs WITH watches <- WatchesNow, due <- DueNow

-----------------------------------------------------------------------------
(* The slices                                                              *)

(* FlattenSeq concatenates one sequence after the other.                   *)
LEMMA Flattening ==
  ASSUME NEW S, NEW s \in Seq(Seq(S)), s # <<>>
  PROVE  \E f : /\ f = [i \in 1..Len(s) |-> IF i = 1 THEN s[i] ELSE f[i - 1] \o s[i]]
                /\ FlattenSeq(s) = f[Len(s)]
<1> DEFINE Def(f, k) == f = [i \in 1..k |-> IF i = 1 THEN s[i] ELSE f[i - 1] \o s[i]]
           K == {k \in Nat : \E f : Def(f, k)}
<1>1. 0 \in K
  <2>1. Def(<<>>, 0)
    OBVIOUS
  <2> QED BY <2>1
<1>2. ASSUME NEW k \in Nat, k \in K PROVE k + 1 \in K
  <2>1. PICK f : Def(f, k)
    BY <1>2
  <2> DEFINE g == [i \in 1..(k + 1) |->
                     IF i = k + 1 THEN IF i = 1 THEN s[i] ELSE f[k] \o s[i] ELSE f[i]]
  <2>2. \A i \in 1..k : f[i] = IF i = 1 THEN s[i] ELSE f[i - 1] \o s[i]
    BY <2>1
  <2>3. \A i \in 1..(k + 1) : g[i] = IF i = 1 THEN s[i] ELSE g[i - 1] \o s[i]
    <3> TAKE i \in 1..(k + 1)
    <3>1. CASE i = k + 1 /\ i # 1
      <4>1. g[i - 1] = f[k]
        BY <3>1
      <4> QED BY <3>1, <4>1
    <3>2. CASE i # k + 1 /\ i # 1
      <4>1. i \in 1..k /\ i - 1 \in 1..(k + 1) /\ i - 1 # k + 1
        BY <3>2
      <4>2. g[i - 1] = f[i - 1] /\ g[i] = f[i]
        BY <3>2, <4>1
      <4> QED BY <2>2, <3>2, <4>1, <4>2
    <3>3. CASE i = 1
      BY <2>2, <3>3
    <3> QED BY <3>1, <3>2, <3>3
  <2>4. g = [i \in 1..(k + 1) |-> g[i]]
    OBVIOUS
  <2> HIDE DEF g
  <2>5. Def(g, k + 1)
    BY <2>3, <2>4
  <2> HIDE DEF Def
  <2> QED BY <2>5
<1>3. Len(s) \in Nat /\ Len(s) # 0
  BY EmptySeq
<1>4. \E f : Def(f, Len(s))
  <2> HIDE DEF K
  <2>1. Len(s) \in K
    BY <1>1, <1>2, <1>3, Follow!Induction
  <2> QED BY <2>1 DEF K
<1> DEFINE f == CHOOSE f : Def(f, Len(s))
<1>5. Def(f, Len(s))
  BY <1>4
<1>6. FlattenSeq(s) = f[Len(s)]
  BY <1>3 DEF FlattenSeq
<1> QED BY <1>5, <1>6

-----------------------------------------------------------------------------
(* How often a scan is in a sequence                                       *)

(* A count is a number, and more than nothing where there is an occurrence. *)
LEMMA Counted ==
  ASSUME NEW q \in Seq(Scan), NEW x
  PROVE  /\ IsFiniteSet({i \in 1..Len(q) : q[i] = x})
         /\ Count(q, x) \in Nat
         /\ Count(q, x) > 0 <=> \E i \in 1..Len(q) : q[i] = x
         /\ Count(<<>>, x) = 0
<1> DEFINE S == {i \in 1..Len(q) : q[i] = x}
<1>1. IsFiniteSet(S)
  <2>1. IsFiniteSet(1..Len(q)) /\ S \in SUBSET (1..Len(q))
    BY FS_Interval
  <2> QED BY <2>1, FS_Subset
<1>2. Cardinality(S) \in Nat /\ (Cardinality(S) = 0 <=> S = {})
  BY <1>1, FS_CardinalityType, FS_EmptySet
<1>3. Count(<<>>, x) = 0
  BY FS_EmptySet DEF Count
<1> QED BY <1>1, <1>2, <1>3 DEF Count

(* Counts of two sequences add up in their concatenation.                  *)
LEMMA CountConcat ==
  ASSUME NEW q \in Seq(Scan), NEW s \in Seq(Scan), NEW x
  PROVE  Count(q \o s, x) = Count(q, x) + Count(s, x)
<1> DEFINE m == Len(q)
           n == Len(s)
           A == {i \in 1..m : q[i] = x}
           B == {i \in 1..n : s[i] = x}
           C == {i \in (m + 1)..(m + n) : (q \o s)[i] = x}
           f == [i \in B |-> i + m]
<1>1. m \in Nat /\ n \in Nat
  OBVIOUS
<1>2. /\ Len(q \o s) = m + n
      /\ \A i \in 1..(m + n) : (q \o s)[i] = IF i <= m THEN q[i] ELSE s[i - m]
  BY ConcatProperties
<1>3. {i \in 1..Len(q \o s) : (q \o s)[i] = x} = A \cup C /\ A \cap C = {}
  BY <1>1, <1>2
<1>4. f \in Bijection(B, C)
  <2>1. \A i \in B : i + m \in C
    BY <1>1, <1>2
  <2>2. \A j \in C : j - m \in B /\ j = (j - m) + m
    BY <1>1, <1>2
  <2>3. f \in [B -> C] /\ (\A i, j \in B : f[i] = f[j] => i = j)
    BY <1>1, <2>1
  <2>4. \A j \in C : \E i \in B : f[i] = j
    BY <2>2
  <2> HIDE DEF f, B, C
  <2> QED BY <2>3, <2>4 DEF Bijection, Injection, Surjection, IsInjective
<1>5. IsFiniteSet(A) /\ IsFiniteSet(B)
  BY Counted
<1> HIDE DEF f, A, B, C
<1>6. IsFiniteSet(C) /\ Cardinality(C) = Cardinality(B)
  BY <1>4, <1>5, FS_Bijection DEF ExistsBijection
<1>7. Cardinality(A \cup C) = Cardinality(A) + Cardinality(C)
  <2>1. /\ IsFiniteSet(A \cap C) /\ Cardinality(A \cap C) = 0
        /\ Cardinality(A) \in Nat /\ Cardinality(C) \in Nat
    BY <1>3, <1>5, <1>6, FS_EmptySet, FS_CardinalityType
  <2>2. Cardinality(A \cup C) = Cardinality(A) + Cardinality(C) - Cardinality(A \cap C)
    BY <1>5, <1>6, FS_Union
  <2> QED BY <2>1, <2>2
<1> QED BY <1>3, <1>6, <1>7 DEF Count, A, B

(* A sequence of nothing but one scan.                                     *)
LEMMA CountSame ==
  ASSUME NEW y \in Scan, NEW x, NEW s \in Seq(Scan), \A j \in 1..Len(s) : s[j] = y
  PROVE  Count(s, x) = IF x = y THEN Len(s) ELSE 0
<1>1. CASE x = y
  <2>1. {i \in 1..Len(s) : s[i] = x} = 1..Len(s)
    BY <1>1
  <2>2. Cardinality(1..Len(s)) = Len(s)
    <3>1. Len(s) \in Nat
      OBVIOUS
    <3> QED BY <3>1, FS_Interval
  <2> QED BY <1>1, <2>1, <2>2 DEF Count
<1>2. CASE x # y
  <2>1. {i \in 1..Len(s) : s[i] = x} = {}
    BY <1>2
  <2> QED BY <1>2, <2>1, FS_EmptySet DEF Count
<1> QED BY <1>1, <1>2

(* A sequence of one.                                                      *)
LEMMA CountOne ==
  ASSUME NEW y \in Scan, NEW x
  PROVE  <<y>> \in Seq(Scan) /\ Count(<<y>>, x) = IF x = y THEN 1 ELSE 0
<1> DEFINE s == <<y>>
<1>1. s \in Seq(Scan) /\ Len(s) = 1 /\ \A j \in 1..Len(s) : s[j] = y
  OBVIOUS
<1> HIDE DEF s
<1>2. s \in Seq(Scan) /\ Count(s, x) = IF x = y THEN 1 ELSE 0
  BY <1>1, CountSame
<1> QED BY <1>2 DEF s

(* What a queue is after another scan joins it.                            *)
LEMMA CountAppend ==
  ASSUME NEW q \in Seq(Scan), NEW y \in Scan, NEW x
  PROVE  /\ Append(q, y) \in Seq(Scan)
         /\ Count(Append(q, y), x) = Count(q, x) + IF x = y THEN 1 ELSE 0
<1> DEFINE s == <<y>>
           t == Append(q, y)
<1>1. t = q \o s /\ t \in Seq(Scan)
  BY AppendIsConcat, AppendProperties
<1>2. s \in Seq(Scan) /\ Count(s, x) = IF x = y THEN 1 ELSE 0
  BY CountOne
<1> HIDE DEF s, t
<1>3. Count(t, x) = Count(q, x) + Count(s, x)
  BY <1>1, <1>2, CountConcat
<1> QED BY <1>1, <1>2, <1>3 DEF t

(* What a queue is after its first scan left it.                           *)
LEMMA CountTail ==
  ASSUME NEW q \in Seq(Scan), q # <<>>, NEW x
  PROVE  /\ Head(q) \in Scan /\ Tail(q) \in Seq(Scan)
         /\ Count(q, x) = Count(Tail(q), x) + IF x = Head(q) THEN 1 ELSE 0
<1> DEFINE s == <<Head(q)>>
           t == Tail(q)
<1>1. Head(q) \in Scan /\ t \in Seq(Scan)
  BY HeadTailProperties
<1>2. q = s \o t
  OBVIOUS
<1>3. s \in Seq(Scan) /\ Count(s, x) = IF x = Head(q) THEN 1 ELSE 0
  BY <1>1, CountOne
<1> HIDE DEF s, t
<1>4. Count(s \o t, x) = Count(s, x) + Count(t, x)
  BY <1>1, <1>3, CountConcat
<1>5. Count(t, x) \in Nat
  BY <1>1, Counted
<1>6. Count(q, x) = Count(t, x) + IF x = Head(q) THEN 1 ELSE 0
  BY <1>2, <1>3, <1>4, <1>5
<1> QED BY <1>1, <1>6 DEF t


(* How often a scan is among the first k of a sequence                     *)
Among(q, k, x) == Cardinality({i \in 1..k : q[i] = x})

(* One more of the sequence counts one more, or nothing.                   *)
LEMMA AmongMore ==
  ASSUME NEW q, NEW k \in Nat, NEW x
  PROVE  /\ Among(q, 0, x) = 0 /\ Among(q, k, x) \in Nat
         /\ q[k + 1] = x => Among(q, k + 1, x) = Among(q, k, x) + 1
         /\ q[k + 1] # x => Among(q, k + 1, x) = Among(q, k, x)
<1> DEFINE c == {i \in 1..k : q[i] = x}
           d == {i \in 1..(k + 1) : q[i] = x}
<1>1. IsFiniteSet(1..k) /\ c \in SUBSET (1..k)
  BY FS_Interval
<1>2. k + 1 \notin c /\ (q[k + 1] = x => d = c \cup {k + 1}) /\ (q[k + 1] # x => d = c)
  OBVIOUS
<1>3. {i \in 1..0 : q[i] = x} = {}
  OBVIOUS
<1> HIDE DEF c, d
<1>4. IsFiniteSet(c)
  BY <1>1, FS_Subset
<1>5. Cardinality(c) \in Nat
  BY <1>4, FS_CardinalityType
<1>6. Cardinality(c \cup {k + 1}) = Cardinality(c) + 1
  BY <1>2, <1>4, FS_AddElement
<1>7. /\ q[k + 1] = x => Cardinality(d) = Cardinality(c) + 1
      /\ q[k + 1] # x => Cardinality(d) = Cardinality(c)
  BY <1>2, <1>6
<1>8. Among(q, k, x) = Cardinality(c) /\ Among(q, k + 1, x) = Cardinality(d)
  BY DEF Among, c, d
<1>9. Among(q, 0, x) = 0
  BY <1>3, FS_EmptySet DEF Among
<1> QED BY <1>5, <1>7, <1>8, <1>9

(* A scan is in q repeated as often as it is in q, times its number.       *)
LEMMA CountRepeat ==
  ASSUME NEW q \in Seq(Scan), NEW n \in [Scan -> Nat], NEW x \in Scan
  PROVE  Repeat(q, n) \in Seq(Scan) /\ Count(Repeat(q, n), x) = n[x] * Count(q, x)
<1> DEFINE m == Len(q)
           s == [i \in 1..m |-> [j \in 1..n[q[i]] |-> q[i]]]
           c(k) == Among(q, k, x)
<1>1. m \in Nat /\ n[x] \in Nat /\ \A i \in 1..m : q[i] \in Scan
  OBVIOUS
<1>2. \A i \in 1..m : /\ s[i] \in Seq(Scan)
                     /\ Count(s[i], x) = IF q[i] = x THEN n[x] ELSE 0
  <2> TAKE i \in 1..m
  <2> DEFINE t == s[i]
             y == q[i]
             l == n[y]
  <2>1. y \in Scan /\ l \in Nat /\ t = [j \in 1..l |-> y]
    BY <1>1
  <2> HIDE DEF t, y, l
  <2>2. t \in Seq(Scan) /\ Len(t) = l /\ \A j \in 1..Len(t) : t[j] = y
    <3>1. t \in [1..l -> Scan]
      BY <2>1
    <3> QED BY <2>1, <3>1, SeqDef
  <2>3. Count(t, x) = IF x = y THEN l ELSE 0
    BY <2>1, <2>2, CountSame
  <2> QED BY <2>2, <2>3 DEF t, y, l
<1>3. s \in Seq(Seq(Scan)) /\ Len(s) = m
  <2>1. s \in [1..m -> Seq(Scan)] /\ DOMAIN s = 1..m
    BY <1>2
  <2> HIDE DEF s
  <2>2. s \in Seq(Seq(Scan))
    BY <1>1, <2>1, SeqDef
  <2>3. DOMAIN s = 1..Len(s) /\ Len(s) \in Nat
    BY <2>2, LenProperties
  <2> QED BY <1>1, <2>1, <2>2, <2>3
<1>5. Repeat(q, n) = FlattenSeq(s) /\ Count(q, x) = c(m)
  BY DEF Repeat, Count, Among
<1>6. CASE m = 0
  <2>1. q = <<>> /\ s = <<>>
    BY <1>6
  <2>2. FlattenSeq(s) = <<>>
    BY <1>3, <1>6, <2>1 DEF FlattenSeq
  <2>3. c(m) = 0
    BY <1>6, AmongMore
  <2> DEFINE z == n[x] * c(m)
  <2>4. z = 0
    BY <1>1, <2>3
  <2>5. Count(<<>>, x) = 0
    BY Counted
  <2> QED BY <1>5, <2>2, <2>4, <2>5
<1>7. CASE m # 0
  <2> HIDE DEF s, m, c
  <2>1. s # <<>>
    BY <1>3, <1>7, EmptySeq
  <2>2. PICK f : /\ f = [i \in 1..m |-> IF i = 1 THEN s[i] ELSE f[i - 1] \o s[i]]
                 /\ FlattenSeq(s) = f[m]
    BY <1>3, <2>1, Flattening
  <2>3. \A i \in 1..m : f[i] = IF i = 1 THEN s[i] ELSE f[i - 1] \o s[i]
    BY <2>2
  <2> DEFINE Holds(k) == f[k] \in Seq(Scan) /\ Count(f[k], x) = n[x] * c(k)
             K == {k \in Nat : k \in 1..m => Holds(k)}
  <2>4. 0 \in K
    OBVIOUS
  <2>5. ASSUME NEW k \in Nat, k \in K PROVE k + 1 \in K
    <3> SUFFICES ASSUME k + 1 \in 1..m PROVE Holds(k + 1)
      OBVIOUS
    <3>1. /\ c(k) \in Nat
          /\ q[k + 1] = x => c(k + 1) = c(k) + 1
          /\ q[k + 1] # x => c(k + 1) = c(k)
      BY AmongMore DEF c
    <3>2. n[x] * c(k + 1) = n[x] * c(k) + IF q[k + 1] = x THEN n[x] ELSE 0
      BY <1>1, <3>1
    <3>3. s[k + 1] \in Seq(Scan) /\ Count(s[k + 1], x) = IF q[k + 1] = x THEN n[x] ELSE 0
      BY <1>2
    <3>4. CASE k = 0
      <4>1. c(k) = 0
        BY <3>4, AmongMore DEF c
      <4>2. f[k + 1] = s[k + 1]
        BY <2>3, <3>4
      <4>3. n[x] * c(k) = 0
        BY <1>1, <4>1
      <4> QED BY <1>1, <3>2, <3>3, <4>2, <4>3
    <3>5. CASE k # 0
      <4>1. k \in 1..m /\ k + 1 \in 1..m /\ k + 1 # 1 /\ (k + 1) - 1 = k
        BY <1>1, <3>5
      <4>2. f[k + 1] = f[k] \o s[k + 1]
        BY <2>3, <4>1
      <4>3. Holds(k)
        BY <2>5, <4>1
      <4>4. f[k] \o s[k + 1] \in Seq(Scan)
        BY <3>3, <4>3, ConcatProperties
      <4>5. Count(f[k] \o s[k + 1], x) = Count(f[k], x) + Count(s[k + 1], x)
        BY <3>3, <4>3, CountConcat
      <4> QED BY <3>2, <3>3, <4>2, <4>3, <4>4, <4>5
    <3> QED BY <3>4, <3>5
  <2>6. m \in K
    <3> HIDE DEF K
    <3> QED BY <1>1, <2>4, <2>5, Follow!Induction
  <2>7. Holds(m)
    BY <1>1, <1>7, <2>6
  <2> QED BY <1>5, <2>2, <2>7
<1> QED BY <1>6, <1>7

(* What Select and Matches leave of a sequence, scan by scan.              *)
LEMMA CountSelect ==
  ASSUME NEW q \in Seq(Scan), NEW S, NEW x \in Scan
  PROVE  Select(q, S) \in Seq(Scan) /\ Count(Select(q, S), x) = IF x \in S THEN Count(q, x) ELSE 0
<1> DEFINE n == [y \in Scan |-> IF y \in S THEN 1 ELSE 0]
           c == Count(q, x)
<1>1. n \in [Scan -> Nat] /\ n[x] = IF x \in S THEN 1 ELSE 0
  OBVIOUS
<1>2. c \in Nat
  BY Counted
<1>3. Select(q, S) = Repeat(q, n)
  BY DEF Select
<1> HIDE DEF n, c
<1>4. Repeat(q, n) \in Seq(Scan) /\ Count(Repeat(q, n), x) = n[x] * c
  BY <1>1, CountRepeat DEF c
<1>5. n[x] * c = IF x \in S THEN c ELSE 0
  BY <1>1, <1>2
<1> QED BY <1>3, <1>4, <1>5 DEF c

(* A report is due for each match of each request of a batch.              *)
LEMMA CountMatches ==
  ASSUME ScannerAssumption, at \in 0..MaxHeight, NEW q \in Seq(Scan), NEW x \in Scan
  PROVE  Matches(q) \in Seq(Scan) /\ Count(Matches(q), x) = hits[x.id][at] * Count(q, x)
<1> DEFINE n == [y \in Scan |-> hits[y.id][at]]
<1>1. n \in [Scan -> Nat] /\ n[x] = hits[x.id][at]
  BY DEF ScannerAssumption, Scan
<1>2. Matches(q) = Repeat(q, n)
  BY DEF Matches
<1> HIDE DEF n
<1> QED BY <1>1, <1>2, CountRepeat

(* The scans in a sequence are those that are counted.                     *)
LEMMA InRange ==
  ASSUME NEW q \in Seq(Scan)
  PROVE  /\ Range(q) \subseteq Scan
         /\ \A x : x \in Range(q) <=> \E i \in 1..Len(q) : q[i] = x
         /\ \A x : x \in Range(q) <=> Count(q, x) > 0
         /\ Range(<<>>) = {}
<1>1. /\ \A i \in 1..Len(q) : q[i] \in Scan
      /\ \A x : x \in Range(q) <=> \E i \in 1..Len(q) : q[i] = x
  BY DEF Range
<1>2. \A x : Count(q, x) > 0 <=> \E i \in 1..Len(q) : q[i] = x
  BY Counted
<1>3. Range(<<>>) = {}
  BY DEF Range
<1>4. \A x : x \in Range(q) <=> Count(q, x) > 0
  BY <1>1, <1>2
<1> QED BY <1>1, <1>3, <1>4

(* What is in a selection: the scans of the sequence that were selected.   *)
LEMMA RangeSelect ==
  ASSUME NEW q \in Seq(Scan), NEW S
  PROVE  Select(q, S) \in Seq(Scan) /\ Range(Select(q, S)) = Range(q) \cap S
<1>1. Select(q, S) \in Seq(Scan)
  <2>1. CASE Scan = {}
    <3>1. q = <<>>
      BY <2>1
    <3> QED BY <3>1 DEF Select, Repeat, FlattenSeq
  <2>2. CASE Scan # {}
    BY <2>2, CountSelect
  <2> QED BY <2>1, <2>2
<1>2. \A x \in Scan : Count(Select(q, S), x) = IF x \in S THEN Count(q, x) ELSE 0
  BY CountSelect
<1>3. \A x : /\ x \in Range(q) <=> x \in Scan /\ Count(q, x) > 0
             /\ x \in Range(Select(q, S)) <=> x \in Scan /\ Count(Select(q, S), x) > 0
  BY <1>1, InRange
<1> QED BY <1>1, <1>2, <1>3

(* A report is due for the requests of a batch that match, and no others.  *)
LEMMA RangeMatches ==
  ASSUME ScannerAssumption, at \in 0..MaxHeight, NEW q \in Seq(Scan)
  PROVE  Matches(q) \in Seq(Scan) /\ Range(Matches(q)) = {x \in Range(q) : hits[x.id][at] > 0}
<1>1. Matches(q) \in Seq(Scan)
  <2>1. CASE Scan = {}
    <3>1. q = <<>>
      BY <2>1
    <3> QED BY <3>1 DEF Matches, Repeat, FlattenSeq
  <2>2. CASE Scan # {}
    BY <2>2, CountMatches
  <2> QED BY <2>1, <2>2
<1>2. \A x \in Scan : /\ hits[x.id][at] \in Nat /\ Count(q, x) \in Nat
                      /\ Count(Matches(q), x) = hits[x.id][at] * Count(q, x)
  BY CountMatches, Counted DEF ScannerAssumption, Scan
<1>3. \A x : /\ x \in Range(q) <=> x \in Scan /\ Count(q, x) > 0
             /\ x \in Range(Matches(q)) <=> x \in Scan /\ Count(Matches(q), x) > 0
  BY <1>1, InRange
<1>4. \A m, n \in Nat : m * n > 0 <=> m > 0 /\ n > 0
  OBVIOUS
<1>5. ASSUME NEW x \in Scan
      PROVE  Count(Matches(q), x) > 0 <=> hits[x.id][at] > 0 /\ Count(q, x) > 0
  <2> DEFINE m == hits[x.id][at]
             n == Count(q, x)
  <2>1. m \in Nat /\ n \in Nat /\ Count(Matches(q), x) = m * n
    BY <1>2
  <2> HIDE DEF m, n
  <2>2. m * n > 0 <=> m > 0 /\ n > 0
    BY <1>4, <2>1
  <2> QED BY <2>1, <2>2 DEF m, n
<1>6. \A x : x \in Range(Matches(q)) <=> x \in Range(q) /\ hits[x.id][at] > 0
  BY <1>3, <1>5
<1> HIDE DEF Matches
<1> QED BY <1>1, <1>6

(* What is in a queue after another scan joins it.                         *)
LEMMA RangeAppend ==
  ASSUME NEW q \in Seq(Scan), NEW y \in Scan
  PROVE  Append(q, y) \in Seq(Scan) /\ Range(Append(q, y)) = Range(q) \cup {y}
<1>1. /\ Append(q, y) \in Seq(Scan) /\ Len(Append(q, y)) = Len(q) + 1
      /\ \A i \in 1..Len(q) : Append(q, y)[i] = q[i]
      /\ Append(q, y)[Len(q) + 1] = y
  BY AppendProperties
<1>2. \A x : x \in Range(Append(q, y)) <=> \E i \in 1..(Len(q) + 1) : Append(q, y)[i] = x
  <2> DEFINE s == Append(q, y)
  <2>1. s \in Seq(Scan) /\ Len(s) = Len(q) + 1
    BY <1>1
  <2> HIDE DEF s
  <2>2. \A x : x \in Range(s) <=> \E i \in 1..Len(s) : s[i] = x
    BY <2>1, InRange
  <2> QED BY <2>1, <2>2 DEF s
<1>3. \A i \in 1..(Len(q) + 1) : i \in 1..Len(q) \/ i = Len(q) + 1
  OBVIOUS
<1>4. Len(q) + 1 \in 1..(Len(q) + 1) /\ \A i \in 1..Len(q) : i \in 1..(Len(q) + 1)
  OBVIOUS
<1> QED BY <1>1, <1>2, <1>3, <1>4, InRange

(* What is in a queue before its first scan leaves it.                     *)
LEMMA RangeTail ==
  ASSUME NEW q \in Seq(Scan), q # <<>>
  PROVE  /\ Head(q) \in Scan /\ Tail(q) \in Seq(Scan)
         /\ Range(q) = {Head(q)} \cup Range(Tail(q))
         /\ Tail(q) # <<>> <=> Len(q) > 1
<1> DEFINE t == Tail(q)
<1>1. /\ Head(q) \in Scan /\ t \in Seq(Scan) /\ Len(t) = Len(q) - 1
      /\ Head(q) = q[1] /\ Len(q) \in Nat /\ Len(q) > 0
      /\ \A i \in 1..(Len(q) - 1) : t[i] = q[i + 1]
  BY HeadTailProperties, EmptySeq
<1> HIDE DEF t
<1>2. t # <<>> <=> Len(q) > 1
  BY <1>1
<1>3. /\ \A x : x \in Range(q) <=> \E i \in 1..Len(q) : q[i] = x
      /\ \A x : x \in Range(t) <=> \E i \in 1..(Len(q) - 1) : t[i] = x
  BY <1>1, InRange
<1>4. \A i \in 1..Len(q) : i = 1 \/ (i - 1 \in 1..(Len(q) - 1) /\ q[i] = t[i - 1])
  BY <1>1
<1>5. \A i \in 1..(Len(q) - 1) : i + 1 \in 1..Len(q)
  BY <1>1
<1>6. 1 \in 1..Len(q)
  BY <1>1
<1>7. Range(q) = {Head(q)} \cup Range(t)
  BY <1>1, <1>3, <1>4, <1>5, <1>6
<1> QED BY <1>1, <1>2, <1>7 DEF t

-----------------------------------------------------------------------------
(* The invariant                                                           *)

Ids(q) == {x.id : x \in Range(q)}

(* Requests come from Watch alone.                                         *)
OnlyMade == Ids(queue) \cup Ids(batch) \cup Ids(out) \subseteq made

(* A block is matched and reported below the tip; what was dequeued for it *)
(* starts there or below.                                                  *)
Below ==
  /\ manager \in {"match", "emit", "rewatch"} => at <= tip
  /\ \A x \in Range(batch) \cup Range(out) : x.start <= at

(* What is left of the batch while reports are sent has no match in their  *)
(* block; the first of those that are left is sent, and its request is a   *)
(* persistent one, when it is about to be queued again.                    *)
Scanned ==
  /\ manager \in {"emit", "rewatch"} => \A x \in Range(batch) : hits[x.id][at] = 0
  /\ manager = "rewatch" => Head(out).id \in Persistent /\ reported[Head(out).id][at] > 0

(* NeverForgotten, and NoMatchMissed for the reports too, of what the      *)
(* sequences hold.                                                         *)
Kept ==
  \A r \in made :
    \/ r \in Ids(queue) \cup Ids(batch) \cup Ids(out) \cup dropped
    \/ r \notin Persistent /\ \E h \in 0..MaxHeight : reported[r][h] > 0

Passed(x, h) == \A g \in firstBlock[x.id]..(h - 1) : Covered(x.id, g)
AllPassed ==
  /\ \A x \in Range(queue) : Passed(x, x.start)
  /\ \A x \in Range(batch) \cup Range(out) : Passed(x, at)

IInv == TypeOK /\ OnlyMade /\ Below /\ Scanned /\ Kept /\ AllPassed

(* At first there are no requests.                                         *)
LEMMA InitIInv == ScannerAssumption /\ Init => IInv
<1> SUFFICES ASSUME ScannerAssumption, Init PROVE IInv
  OBVIOUS
<1>1. TypeOK
  <2>1. 0 \in 0..MaxHeight /\ 0 \in 0..MaxErrors /\ <<>> \in Seq(Scan)
    BY DEF ScannerAssumption
  <2>2. reported \in [Request -> [0..MaxHeight -> Nat]]
    BY DEF Init
  <2>3. /\ chainTip = 0 /\ filters = {} /\ made = {} /\ queue = <<>> /\ stopping = FALSE
        /\ manager = "check" /\ batch = <<>> /\ at = 0 /\ tip = 0 /\ out = <<>>
        /\ skipped = {} /\ errors = 0 /\ dropped = {}
    BY DEF Init
  <2>4. at \in 0..(MaxHeight + 1) /\ tip \in 0..chainTip /\ filters \subseteq 1..chainTip
    BY <2>3 DEF ScannerAssumption
  <2> QED BY <2>1, <2>2, <2>3, <2>4 DEF TypeOK, ScannerAssumption, ManagerState
<1>2. Range(queue) = {} /\ Range(batch) = {} /\ Range(out) = {}
  <2>1. <<>> \in Seq(Scan)
    OBVIOUS
  <2> QED BY <2>1, InRange DEF Init
<1>3. OnlyMade /\ Below /\ Scanned /\ Kept /\ AllPassed
  BY <1>2 DEF Init, OnlyMade, Below, Scanned, Kept, AllPassed, Ids
<1> QED BY <1>1, <1>3 DEF IInv

(* A block that is matched, or whose reports are sent, has a height.       *)
LEMMA AtBlock ==
  ASSUME ScannerAssumption, IInv, manager \in {"match", "emit", "rewatch"}
  PROVE  /\ TypeOK /\ queue \in Seq(Scan) /\ batch \in Seq(Scan) /\ out \in Seq(Scan)
         /\ (out # <<>>) <=> manager \in {"emit", "rewatch"}
         /\ at \in 0..MaxHeight
<1>1. TypeOK /\ at <= tip
  BY DEF IInv, Below
<1>2. chainTip \in 0..MaxHeight /\ tip \in 0..chainTip /\ at \in 0..(MaxHeight + 1)
  BY <1>1 DEF TypeOK
<1>3. at \in 0..MaxHeight
  BY <1>1, <1>2 DEF ScannerAssumption
<1> QED BY <1>1, <1>3 DEF TypeOK

(* What was passed stays passed: reports and passed over blocks add up.    *)
LEMMA PassedStays ==
  ASSUME ScannerAssumption, TypeOK,
         \A r \in Request : \A h \in 0..MaxHeight : reported[r][h] > 0 => reported'[r][h] > 0,
         skipped \subseteq skipped'
  PROVE  \A x \in Scan : \A h \in 0..(MaxHeight + 1) : Passed(x, h) => Passed(x, h)'
<1> SUFFICES ASSUME NEW x \in Scan, NEW h \in 0..(MaxHeight + 1), Passed(x, h),
                    NEW g \in firstBlock[x.id]..(h - 1)
             PROVE  Covered(x.id, g)'
  BY DEF Passed
<1>1. x.id \in Request /\ g \in 0..MaxHeight
  BY DEF Scan, ScannerAssumption
<1>2. Covered(x.id, g)
  BY DEF Passed
<1> QED BY <1>1, <1>2 DEF Covered

(* One more block is passed when it is covered.                            *)
LEMMA PassedNext ==
  ASSUME ScannerAssumption, NEW x \in Scan, NEW h \in 0..MaxHeight, Passed(x, h)', Covered(x.id, h)'
  PROVE  Passed(x, h + 1)'
<1>1. firstBlock[x.id] \in Nat /\ h \in Nat
  BY DEF Scan, ScannerAssumption
<1>2. \A g \in firstBlock[x.id]..((h + 1) - 1) : g = h \/ g \in firstBlock[x.id]..(h - 1)
  BY <1>1
<1> QED BY <1>2 DEF Passed

(* A step that leaves the requests where they are                          *)
Quiet ==
  /\ UNCHANGED <<made, queue, batch, out, reported, skipped, dropped>>
  /\ at' = at \/ (batch = <<>> /\ out = <<>>)
  /\ manager' \in {"match", "emit", "rewatch"} => manager' = manager /\ at' = at /\ tip' = tip

(* Such a step keeps the invariant.                                        *)
LEMMA QuietStep == ASSUME IInv, TypeOK', Quiet PROVE IInv'
<1> USE DEF Quiet
<1>1. OnlyMade' /\ Kept'
  BY DEF IInv, OnlyMade, Kept
<1>2. at' = at \/ Range(batch) \cup Range(out) = {}
  BY InRange DEF IInv, TypeOK
<1>3. Below' /\ Scanned'
  BY <1>2 DEF IInv, Below, Scanned
<1>4. AllPassed'
  BY <1>2 DEF IInv, AllPassed, Passed, Covered
<1> QED BY <1>1, <1>3, <1>4 DEF IInv

(* The steps of the repositories, of Stop and of the manager that do so.   *)
LEMMA QuietSteps ==
  ASSUME ScannerAssumption, IInv,
         \/ ExtendChain
         \/ \E h \in 1..MaxHeight : PutFilter(h)
         \/ Stop
         \/ CheckQueue \/ Wait \/ WakeUp \/ StartWorker \/ ReadTip \/ WorkerReturns
         \/ UNCHANGED vars
  PROVE  TypeOK' /\ Quiet
<1> USE DEF scanVars, errorVars
<1>1. CASE ExtendChain
  <2>1. chainTip' \in 0..MaxHeight /\ filters' \subseteq 1..chainTip' /\ tip' \in 0..chainTip'
    BY <1>1 DEF ExtendChain, IInv, TypeOK, ScannerAssumption
  <2>2. TypeOK'
    BY <1>1, <2>1 DEF ExtendChain, IInv, TypeOK
  <2>3. Quiet
    BY <1>1 DEF ExtendChain, Quiet
  <2> QED BY <2>2, <2>3
<1>2. ASSUME NEW h \in 1..MaxHeight, PutFilter(h) PROVE TypeOK' /\ Quiet
  <2>1. TypeOK'
    BY <1>2 DEF PutFilter, IInv, TypeOK
  <2>2. Quiet
    BY <1>2 DEF PutFilter, Quiet
  <2> QED BY <2>1, <2>2
<1>3. CASE Stop
  <2>1. TypeOK'
    BY <1>3 DEF Stop, IInv, TypeOK
  <2>2. Quiet
    BY <1>3 DEF Stop, Quiet
  <2> QED BY <2>1, <2>2
<1>4. CASE CheckQueue
  <2>1. TypeOK'
    BY <1>4 DEF CheckQueue, IInv, TypeOK, ManagerState
  <2>2. Quiet
    BY <1>4 DEF CheckQueue, Quiet
  <2> QED BY <2>1, <2>2
<1>5. CASE Wait
  <2>1. TypeOK'
    BY <1>5 DEF Wait, IInv, TypeOK, ManagerState
  <2>2. Quiet
    BY <1>5 DEF Wait, Quiet
  <2> QED BY <2>1, <2>2
<1>6. CASE WakeUp
  <2>1. TypeOK'
    BY <1>6 DEF WakeUp, Quit, IInv, TypeOK, ManagerState
  <2>2. Quiet
    BY <1>6 DEF WakeUp, Quit, Quiet
  <2> QED BY <2>1, <2>2
<1>7. CASE StartWorker
  <2>0. Head(queue) \in Scan /\ batch = <<>> /\ out = <<>>
    BY <1>7, HeadTailProperties DEF StartWorker, IInv, TypeOK
  <2>1. TypeOK'
    BY <1>7, <2>0 DEF StartWorker, IInv, TypeOK, ManagerState, Scan
  <2>2. Quiet
    BY <1>7, <2>0 DEF StartWorker, Quiet
  <2> QED BY <2>1, <2>2
<1>8. CASE ReadTip
  <2>1. TypeOK'
    BY <1>8 DEF ReadTip, IInv, TypeOK, ManagerState
  <2>2. Quiet
    BY <1>8 DEF ReadTip, Quiet
  <2> QED BY <2>1, <2>2
<1>9. CASE WorkerReturns
  <2>1. TypeOK'
    BY <1>9 DEF WorkerReturns, Quit, IInv, TypeOK, ManagerState
  <2>2. Quiet
    BY <1>9 DEF WorkerReturns, Quit, Quiet
  <2> QED BY <2>1, <2>2
<1>10. CASE UNCHANGED vars
  <2>1. TypeOK'
    BY <1>10 DEF vars, IInv, TypeOK
  <2>2. Quiet
    BY <1>10 DEF vars, Quiet
  <2> QED BY <2>1, <2>2
<1> QED BY <1>1, <1>2, <1>3, <1>4, <1>5, <1>6, <1>7, <1>8, <1>9, <1>10

(* A client makes a request.                                               *)
LEMMA WatchStep ==
  ASSUME ScannerAssumption, IInv, NEW r \in Request, Watch(r) PROVE IInv'
<1> DEFINE x == [id |-> r, start |-> firstBlock[r]]
<1>1. x \in Scan /\ x.id = r /\ x.start = firstBlock[r]
  BY DEF Scan, ScannerAssumption
<1> HIDE DEF x
<1>2. /\ queue \in Seq(Scan) /\ queue' = Append(queue, x) /\ made' = made \cup {r}
      /\ UNCHANGED <<chainTip, filters, stopping, batch, at, tip, out, reported, skipped, errors, dropped>>
      /\ manager' = IF manager = "wait" THEN "woken" ELSE manager
  BY DEF IInv, TypeOK, Watch, Enqueue, Signalled, errorVars, x
<1>3. queue' \in Seq(Scan) /\ Range(queue') = Range(queue) \cup {x} /\ queue' # <<>>
  BY <1>1, <1>2, RangeAppend, AppendProperties
<1>4. TypeOK'
  BY <1>2, <1>3 DEF IInv, TypeOK, ManagerState
<1>5. OnlyMade'
  BY <1>1, <1>2, <1>3 DEF IInv, OnlyMade, Ids
<1>6. Below' /\ Scanned'
  BY <1>2 DEF IInv, Below, Scanned
<1>7. Kept'
  <2>1. Ids(queue') = Ids(queue) \cup {r}
    BY <1>1, <1>3 DEF Ids
  <2> QED BY <1>2, <2>1 DEF IInv, Kept
<1>8. AllPassed'
  <2>1. Passed(x, x.start)'
    BY <1>1 DEF Passed, ScannerAssumption
  <2> QED BY <1>2, <1>3, <2>1 DEF IInv, AllPassed, Passed, Covered
<1> QED BY <1>4, <1>5, <1>6, <1>7, <1>8 DEF IInv

(* An error takes the batch away.                                          *)
LEMMA WorkerFailsStep == ASSUME ScannerAssumption, IInv, WorkerFails PROVE IInv'
<1>1. /\ queue \in Seq(Scan) /\ batch \in Seq(Scan) /\ out = <<>>
      /\ dropped' = dropped \cup Ids(batch)
  <2>1. queue \in Seq(Scan) /\ batch \in Seq(Scan) /\ out = <<>>
    BY DEF IInv, TypeOK, WorkerFails
  <2>2. {batch[i].id : i \in 1..Len(batch)} = Ids(batch)
    BY DEF Ids, Range
  <2> QED BY <2>1, <2>2 DEF WorkerFails
<1>2. /\ batch' = <<>> /\ manager' \in {"off", "check"} /\ stopping' = FALSE
      /\ errors' \in 0..MaxErrors
      /\ UNCHANGED <<chainTip, filters, made, queue, at, tip, out, reported, skipped>>
  BY DEF IInv, TypeOK, WorkerFails, Quit, ScannerAssumption
<1>3. Range(batch') = {} /\ Range(out) = {}
  BY <1>1, <1>2, InRange
<1>4. TypeOK'
  BY <1>1, <1>2 DEF IInv, TypeOK, ManagerState, OnlyMade
<1>5. OnlyMade' /\ Kept'
  BY <1>1, <1>2, <1>3 DEF IInv, OnlyMade, Kept, Ids
<1>6. Below' /\ Scanned'
  BY <1>2, <1>3 DEF IInv, Below, Scanned
<1>7. AllPassed'
  BY <1>2, <1>3 DEF IInv, AllPassed, Passed, Covered
<1> QED BY <1>4, <1>5, <1>6, <1>7 DEF IInv

(* The requests for the next block join the batch.                         *)
LEMMA DequeueStep == ASSUME ScannerAssumption, IInv, DequeueAtHeight PROVE IInv'
<1> DEFINE S == {x \in Scan : StartsAt(x, at)}
<1>1. /\ queue \in Seq(Scan) /\ batch \in Seq(Scan) /\ out = <<>>
      /\ manager = "scan" /\ at <= tip /\ manager' = "match"
      /\ batch' = batch \o Select(queue, S) /\ queue' = Select(queue, Scan \ S)
      /\ UNCHANGED <<chainTip, filters, made, stopping, at, tip, out, reported, skipped, errors, dropped>>
  BY DEF IInv, TypeOK, DequeueAtHeight, errorVars
<1>2. \A x \in S : x.start = at
  BY DEF StartsAt
<1> HIDE DEF S
<1>3. /\ queue' \in Seq(Scan) /\ Range(queue') = Range(queue) \ S
      /\ Select(queue, S) \in Seq(Scan) /\ Range(Select(queue, S)) = Range(queue) \cap S
      /\ Range(queue) \subseteq Scan
  BY <1>1, RangeSelect, InRange
<1>4. batch' \in Seq(Scan) /\ Range(batch') = Range(batch) \cup (Range(queue) \cap S)
  BY <1>1, <1>3, ConcatProperties, RangeConcatenation
<1>5. TypeOK'
  BY <1>1, <1>3, <1>4 DEF IInv, TypeOK, ManagerState
<1>6. OnlyMade' /\ Kept'
  <2>1. Ids(queue') \cup Ids(batch') = Ids(queue) \cup Ids(batch)
    BY <1>3, <1>4 DEF Ids
  <2> QED BY <1>1, <2>1 DEF IInv, OnlyMade, Kept
<1>7. Below' /\ Scanned'
  <2>1. at \in Nat
    BY DEF IInv, TypeOK, ScannerAssumption
  <2> QED BY <1>1, <1>2, <1>4, <2>1 DEF IInv, Below, Scanned
<1>8. AllPassed'
  BY <1>1, <1>2, <1>3, <1>4 DEF IInv, AllPassed, Passed, Covered
<1> QED BY <1>5, <1>6, <1>7, <1>8 DEF IInv

(* Block at is passed over with the whole batch.                           *)
LEMMA SkipStep == ASSUME ScannerAssumption, IInv, SkipBlock PROVE IInv'
<1>1. /\ queue \in Seq(Scan) /\ batch \in Seq(Scan) /\ out = <<>>
      /\ at \in 0..MaxHeight /\ at' = at + 1 /\ manager' = "tip"
      /\ skipped' = skipped \cup {<<batch[i].id, at>> : i \in MatchingIn(batch)}
      /\ UNCHANGED <<chainTip, filters, made, queue, stopping, tip, batch, out, reported, errors, dropped>>
  BY DEF IInv, TypeOK, Below, SkipBlock, Advance, errorVars, ScannerAssumption
<1>2. \A i \in 1..Len(batch) : batch[i].id \in Request
  <2>1. \A i \in 1..Len(batch) : batch[i] \in Scan
    BY <1>1
  <2> QED BY <2>1 DEF Scan
<1>3. \A x \in Range(batch) : hits[x.id][at] > 0 => <<x.id, at>> \in skipped'
  <2>1. \A x \in Range(batch) : \E i \in 1..Len(batch) : batch[i] = x
    BY <1>1, InRange
  <2> QED BY <1>1, <2>1 DEF MatchingIn
<1>4. Range(queue) \subseteq Scan /\ Range(batch) \subseteq Scan /\ Range(out) = {}
  BY <1>1, InRange
<1>5. TypeOK'
  <2>1. skipped' \in SUBSET (Request \X (0..MaxHeight))
    BY <1>1, <1>2 DEF IInv, TypeOK, MatchingIn
  <2>2. at' \in 0..(MaxHeight + 1)
    BY <1>1 DEF ScannerAssumption
  <2> QED BY <1>1, <2>1, <2>2 DEF IInv, TypeOK, ManagerState
<1>6. OnlyMade' /\ Kept'
  BY <1>1 DEF IInv, OnlyMade, Kept
<1>7. Below' /\ Scanned'
  <2>1. \A x \in Scan : x.start \in Nat
    BY DEF Scan, ScannerAssumption
  <2> QED BY <1>1, <1>4, <2>1 DEF IInv, Below, Scanned
<1>8. AllPassed'
  <2>1. \A x \in Scan : \A h \in 0..(MaxHeight + 1) : Passed(x, h) => Passed(x, h)'
    BY <1>1, PassedStays DEF IInv
  <2>2. \A x \in Range(queue) : Passed(x, x.start)'
    BY <1>4, <2>1 DEF IInv, AllPassed, Scan
  <2>3. PICK h \in 0..MaxHeight : h = at
    BY <1>1
  <2>4. \A x \in Range(batch) : Passed(x, h + 1)'
    <3> TAKE x \in Range(batch)
    <3>1. Passed(x, h)'
      BY <1>1, <1>4, <2>1, <2>3 DEF IInv, AllPassed
    <3>2. Covered(x.id, h)'
      BY <1>1, <1>3, <2>3 DEF Covered
    <3> QED BY <1>4, <3>1, <3>2, PassedNext
  <2> QED BY <1>1, <1>4, <2>2, <2>3, <2>4 DEF AllPassed
<1> QED BY <1>5, <1>6, <1>7, <1>8 DEF IInv

(* Block at is matched against the batch.                                  *)
LEMMA ScanBlockStep == ASSUME ScannerAssumption, IInv, ScanBlock PROVE IInv'
<1> DEFINE S == {x \in Scan : hits[x.id][at] = 0}
<1>1. /\ queue \in Seq(Scan) /\ batch \in Seq(Scan) /\ out = <<>> /\ manager = "match"
      /\ at \in 0..MaxHeight /\ at \in Nat
      /\ batch' = Select(batch, S) /\ out' = Matches(batch)
      /\ UNCHANGED <<chainTip, filters, made, queue, stopping, tip, reported, skipped, errors, dropped>>
  BY DEF IInv, TypeOK, Below, ScanBlock, Unmatched, errorVars, ScannerAssumption
<1>2. /\ batch' \in Seq(Scan) /\ Range(batch') = {x \in Range(batch) : hits[x.id][at] = 0}
      /\ out' \in Seq(Scan) /\ Range(out') = {x \in Range(batch) : hits[x.id][at] > 0}
      /\ Range(batch) \subseteq Scan
  <2>1. Range(batch) \subseteq Scan /\ Range(batch) \cap S = {x \in Range(batch) : hits[x.id][at] = 0}
    BY <1>1, InRange
  <2> HIDE DEF S
  <2> QED BY <1>1, <2>1, RangeSelect, RangeMatches
<1>3. \A x \in Scan : x.id \in Request /\ x.start \in Nat /\ hits[x.id][at] \in Nat
  BY <1>1 DEF Scan, ScannerAssumption
<1>4. Range(batch) = Range(batch') \cup Range(out')
  BY <1>2, <1>3
<1>5. \/ Range(out') = {} /\ out' = <<>> /\ manager' = "tip" /\ at' = at + 1
      \/ out' # <<>> /\ manager' = "emit" /\ at' = at
  <2>1. MatchingIn(batch) = {} <=> Range(out') = {}
    <3>1. \A x : x \in Range(batch) <=> \E i \in 1..Len(batch) : batch[i] = x
      BY <1>1, InRange
    <3> QED BY <1>2, <3>1 DEF MatchingIn
  <2>2. Range(out') = {} <=> out' = <<>>
    <3>1. out' # <<>> => 1 \in 1..Len(out')
      BY <1>2
    <3>2. Range(<<>>) = {} /\ \A i \in 1..Len(out') : out'[i] \in Range(out')
      BY <1>2, InRange
    <3> QED BY <3>1, <3>2
  <2> QED BY <2>1, <2>2 DEF ScanBlock, Advance
<1> HIDE DEF S
<1>6. TypeOK'
  <2>1. at' \in 0..(MaxHeight + 1)
    BY <1>1, <1>5 DEF ScannerAssumption
  <2> QED BY <1>1, <1>2, <1>5, <2>1 DEF IInv, TypeOK, ManagerState
<1>7. OnlyMade' /\ Kept'
  <2>1. Ids(batch) = Ids(batch') \cup Ids(out') /\ Ids(out) = {}
    BY <1>1, <1>4, InRange DEF Ids
  <2> QED BY <1>1, <2>1 DEF IInv, OnlyMade, Kept
<1>8. Below' /\ Scanned'
  <2>1. Below'
    BY <1>1, <1>2, <1>3, <1>4, <1>5 DEF IInv, Below
  <2>2. Scanned'
    BY <1>2, <1>5 DEF Scanned
  <2> QED BY <2>1, <2>2
<1>9. AllPassed'
  <2>1. PICK h \in 0..MaxHeight : h = at
    BY <1>1
  <2>2. \A x \in Range(queue) : Passed(x, x.start)'
    BY <1>1 DEF IInv, AllPassed, Passed, Covered
  <2>3. \A x \in Range(batch) : Passed(x, h)'
    BY <1>1, <2>1 DEF IInv, AllPassed, Passed, Covered
  <2>4. CASE at' = at
    BY <1>1, <1>4, <2>1, <2>2, <2>3, <2>4 DEF AllPassed
  <2>5. CASE Range(out') = {} /\ at' = at + 1
    <3>1. ASSUME NEW x \in Range(batch') PROVE Passed(x, h + 1)'
      <4>1. Covered(x.id, h)'
        BY <1>2, <2>1 DEF Covered
      <4> QED BY <1>2, <2>3, <4>1, PassedNext
    <3> QED BY <1>1, <2>1, <2>2, <2>5, <3>1 DEF AllPassed
  <2> QED BY <1>5, <2>4, <2>5
<1> QED BY <1>6, <1>7, <1>8, <1>9 DEF IInv

(* After a report the next one is sent, or the scan goes on.               *)
LEMMA EmittedNext ==
  ASSUME IInv, Emitted, out # <<>>
  PROVE  /\ Head(out) \in Scan /\ out' \in Seq(Scan)
         /\ Range(out) = {Head(out)} \cup Range(out')
         /\ \/ out' = <<>> /\ Range(out') = {} /\ manager' = "tip" /\ at' = at + 1
            \/ out' # <<>> /\ manager' = "emit" /\ at' = at
<1>1. out \in Seq(Scan) /\ out' = Tail(out)
  BY DEF IInv, TypeOK, Emitted
<1>2. /\ Head(out) \in Scan /\ Tail(out) \in Seq(Scan)
      /\ Range(out) = {Head(out)} \cup Range(Tail(out))
      /\ Tail(out) # <<>> <=> Len(out) > 1
  BY <1>1, RangeTail
<1>3. out' = <<>> => Range(out') = {}
  BY <1>1, <1>2, InRange
<1> QED BY <1>1, <1>2, <1>3 DEF Emitted, Advance

(* Then AllPassed holds of the batch and of the reports that are left.     *)
LEMMA EmittedPassed ==
  ASSUME ScannerAssumption, IInv, Emitted, out # <<>>, at <= MaxHeight,
         manager \in {"emit", "rewatch"}, batch' = batch,
         \A r \in Request : \A h \in 0..MaxHeight : reported[r][h] > 0 => reported'[r][h] > 0,
         skipped \subseteq skipped'
  PROVE  \A x \in Range(batch') \cup Range(out') : Passed(x, at)'
<1>1. PICK h \in 0..MaxHeight : h = at
  BY DEF IInv, TypeOK, ScannerAssumption
<1>2. \A x \in Scan : Passed(x, h) => Passed(x, h)'
  BY PassedStays DEF IInv, ScannerAssumption
<1>3. Range(batch) \subseteq Scan /\ Range(out) \subseteq Scan
  BY InRange DEF IInv, TypeOK
<1>4. \A x \in Range(batch) \cup Range(out) : Passed(x, h)'
  BY <1>1, <1>2, <1>3 DEF IInv, AllPassed
<1>5. CASE at' = at
  BY <1>1, <1>4, <1>5, EmittedNext
<1>6. CASE Range(out') = {} /\ at' = at + 1
  <2>1. ASSUME NEW x \in Range(batch) PROVE Passed(x, h + 1)'
    <3>1. Covered(x.id, h)'
      BY <1>1 DEF IInv, Scanned, Covered
    <3> QED BY <1>3, <1>4, <3>1, PassedNext
  <2> QED BY <1>1, <1>6, <2>1
<1> QED BY <1>5, <1>6, EmittedNext

(* A report is sent.                                                       *)
LEMMA SendReportStep == ASSUME ScannerAssumption, IInv, SendReport PROVE IInv'
<1> DEFINE x == Head(out)
           r == x.id
<1>1. /\ queue \in Seq(Scan) /\ batch \in Seq(Scan) /\ out \in Seq(Scan) /\ out # <<>>
      /\ manager = "emit" /\ at \in 0..MaxHeight /\ at <= MaxHeight
      /\ reported \in [Request -> [0..MaxHeight -> Nat]]
      /\ reported' = [reported EXCEPT ![r][at] = @ + 1]
      /\ UNCHANGED <<chainTip, filters, made, queue, stopping, tip, batch, skipped, errors, dropped>>
      /\ \/ r \in Persistent /\ manager' = "rewatch" /\ UNCHANGED <<at, out>>
         \/ r \notin Persistent /\ Emitted
  BY DEF IInv, TypeOK, Below, SendReport, errorVars, ScannerAssumption
<1>2. x \in Scan /\ r \in Request /\ x \in Range(out)
  BY <1>1, RangeTail DEF Scan
<1> HIDE DEF x
<1>3. /\ reported' \in [Request -> [0..MaxHeight -> Nat]] /\ reported'[r][at] > 0
      /\ \A q \in Request : \A h \in 0..MaxHeight : reported[q][h] > 0 => reported'[q][h] > 0
  <2> HIDE DEF r
  <2>1. \A q \in Request : \A h \in 0..MaxHeight :
          reported'[q][h] = IF q = r /\ h = at THEN reported[q][h] + 1 ELSE reported[q][h]
    BY <1>1, <1>2
  <2>2. reported' \in [Request -> [0..MaxHeight -> Nat]]
    <3> DEFINE f == [reported[r] EXCEPT ![at] = reported[r][at] + 1]
    <3>1. f \in [0..MaxHeight -> Nat]
      BY <1>1, <1>2
    <3>2. reported' = [reported EXCEPT ![r] = f]
      BY <1>1
    <3> HIDE DEF f
    <3> QED BY <1>1, <3>1, <3>2
  <2>3. reported[r][at] \in Nat /\ reported'[r][at] = reported[r][at] + 1
    BY <1>1, <1>2, <2>1
  <2>4. reported'[r][at] > 0
    BY <2>3
  <2>5. ASSUME NEW q \in Request, NEW h \in 0..MaxHeight, reported[q][h] > 0
        PROVE  reported'[q][h] > 0
    BY <2>1, <2>4, <2>5
  <2> QED BY <2>2, <2>4, <2>5
<1>4. Range(queue) \subseteq Scan /\ Range(batch) \subseteq Scan /\ Range(out) \subseteq Scan
  BY <1>1, InRange
<1>5. /\ out' \in Seq(Scan) /\ Range(out') \subseteq Range(out)
      /\ (out' # <<>>) <=> manager' \in {"emit", "rewatch"}
      /\ manager' \in {"tip", "emit", "rewatch"}
      /\ at' = at \/ (at' = at + 1 /\ manager' = "tip")
  BY <1>1, EmittedNext
<1>6. TypeOK'
  <2>1. at' \in 0..(MaxHeight + 1)
    BY <1>1, <1>5 DEF ScannerAssumption
  <2> QED BY <1>1, <1>3, <1>5, <2>1 DEF IInv, TypeOK, ManagerState
<1>7. OnlyMade'
  BY <1>1, <1>5 DEF IInv, OnlyMade, Ids
<1>8. Below' /\ Scanned'
  <2>1. \A y \in Scan : y.start \in Nat
    BY DEF Scan, ScannerAssumption
  <2>2. Below'
    BY <1>1, <1>4, <1>5, <2>1 DEF IInv, Below
  <2>3. manager' = "rewatch" => r \in Persistent /\ UNCHANGED <<at, out>>
    BY <1>1, EmittedNext
  <2>4. Scanned'
    BY <1>1, <1>3, <1>5, <2>3 DEF IInv, Scanned, x
  <2> QED BY <2>2, <2>4
<1>9. Kept'
  <2>1. \/ r \in Persistent /\ out' = out
        \/ r \notin Persistent /\ Ids(out) = {r} \cup Ids(out')
    BY <1>1, EmittedNext DEF Ids, x
  <2>2. ASSUME NEW q \in made,
               q \notin Persistent /\ \E h \in 0..MaxHeight : reported[q][h] > 0
        PROVE  \E h \in 0..MaxHeight : reported'[q][h] > 0
    BY <1>3, <2>2 DEF IInv, TypeOK
  <2>3. r \notin Persistent => \E h \in 0..MaxHeight : reported'[r][h] > 0
    BY <1>1, <1>3
  <2> QED BY <1>1, <2>1, <2>2, <2>3 DEF IInv, Kept
<1>10. AllPassed'
  <2>1. \A y \in Scan : \A h \in 0..(MaxHeight + 1) : Passed(y, h) => Passed(y, h)'
    BY <1>1, <1>3, PassedStays DEF IInv
  <2>2. \A y \in Range(queue) : Passed(y, y.start)'
    BY <1>4, <2>1 DEF IInv, AllPassed, Scan
  <2>3. CASE UNCHANGED <<at, out>>
    <3>1. PICK h \in 0..MaxHeight : h = at
      BY <1>1
    <3>2. \A y \in Range(batch) \cup Range(out) : Passed(y, h)'
      BY <1>4, <2>1, <3>1 DEF IInv, AllPassed, ScannerAssumption
    <3> QED BY <1>1, <2>2, <2>3, <3>1, <3>2 DEF AllPassed
  <2>4. CASE Emitted
    BY <1>1, <1>3, <2>2, <2>4, EmittedPassed DEF AllPassed
  <2> QED BY <1>1, <2>3, <2>4
<1> QED BY <1>6, <1>7, <1>8, <1>9, <1>10 DEF IInv

(* The persistent request of a report is queued again.                     *)
LEMMA RewatchStep == ASSUME ScannerAssumption, IInv, Rewatch PROVE IInv'
<1> DEFINE r == Head(out).id
<1>0. PICK x : x = [id |-> r, start |-> at + 1]
  OBVIOUS
<1>1. /\ queue \in Seq(Scan) /\ batch \in Seq(Scan) /\ out \in Seq(Scan) /\ out # <<>>
      /\ manager = "rewatch" /\ at \in 0..MaxHeight /\ at <= MaxHeight
      /\ queue' = Append(queue, x) /\ Emitted
      /\ UNCHANGED <<chainTip, filters, made, stopping, tip, batch, reported, skipped, errors, dropped>>
  BY <1>0 DEF IInv, TypeOK, Below, Rewatch, Enqueue, NextStart, errorVars, ScannerAssumption
<1>2. Head(out) \in Scan /\ r \in Request /\ Head(out) \in Range(out)
  BY <1>1, RangeTail DEF Scan
<1>3. x \in Scan /\ x.id = r /\ x.start = at + 1
  BY <1>0, <1>1, <1>2 DEF Scan, ScannerAssumption
<1>4. queue' \in Seq(Scan) /\ Range(queue') = Range(queue) \cup {x}
  BY <1>1, <1>3, RangeAppend
<1>5. /\ out' \in Seq(Scan) /\ Range(out) = {Head(out)} \cup Range(out')
      /\ (out' # <<>>) <=> manager' \in {"emit", "rewatch"}
      /\ manager' \in {"tip", "emit"}
      /\ at' = at \/ (at' = at + 1 /\ manager' = "tip")
  BY <1>1, EmittedNext
<1>6. TypeOK'
  <2>1. at' \in 0..(MaxHeight + 1)
    BY <1>1, <1>5 DEF ScannerAssumption
  <2> QED BY <1>1, <1>4, <1>5, <2>1 DEF IInv, TypeOK, ManagerState
<1>7. OnlyMade' /\ Kept'
  <2>1. Ids(queue') \cup Ids(out') = Ids(queue) \cup Ids(out)
    <3>1. Ids(out) = {r} \cup Ids(out')
      BY <1>5 DEF Ids
    <3>2. Ids(queue') = Ids(queue) \cup {r}
      BY <1>3, <1>4 DEF Ids
    <3> QED BY <3>1, <3>2
  <2> QED BY <1>1, <2>1 DEF IInv, OnlyMade, Kept
<1>8. Below' /\ Scanned'
  <2>1. Range(batch) \subseteq Scan /\ Range(out) \subseteq Scan
    BY <1>1, InRange
  <2>2. \A y \in Scan : y.start \in Nat
    BY DEF Scan, ScannerAssumption
  <2>3. Below'
    BY <1>1, <1>5, <2>1, <2>2 DEF IInv, Below
  <2>4. Scanned'
    BY <1>1, <1>5 DEF IInv, Scanned
  <2> QED BY <2>3, <2>4
<1>9. AllPassed'
  <2>1. Passed(x, x.start)'
    <3>1. PICK h \in 0..MaxHeight : h = at
      BY <1>1
    <3>2. Passed(Head(out), h) /\ firstBlock[Head(out).id] = firstBlock[x.id]
      BY <1>2, <1>3, <3>1 DEF IInv, AllPassed
    <3>3. Passed(x, h)'
      BY <1>1, <1>3, <3>2 DEF Passed, Covered
    <3>4. Covered(x.id, h)'
      BY <1>1, <1>3, <3>1 DEF IInv, Scanned, Covered
    <3>5. Passed(x, h + 1)'
      BY <1>3, <3>3, <3>4, PassedNext
    <3> QED BY <1>3, <3>1, <3>5
  <2>2. \A y \in Range(queue) : Passed(y, y.start)'
    BY <1>1 DEF IInv, AllPassed, Passed, Covered
  <2>3. \A y \in Range(batch') \cup Range(out') : Passed(y, at)'
    BY <1>1, EmittedPassed
  <2> QED BY <1>4, <2>1, <2>2, <2>3 DEF AllPassed
<1> QED BY <1>6, <1>7, <1>8, <1>9 DEF IInv

(* Beyond the tip the batch goes back to the queue.                        *)
LEMMA RequeueStep == ASSUME ScannerAssumption, IInv, Requeue PROVE IInv'
<1>0. PICK x : x = Head(batch)
  OBVIOUS
<1>1. /\ queue \in Seq(Scan) /\ batch \in Seq(Scan) /\ batch # <<>> /\ manager = "scan"
      /\ queue' = Append(queue, x) /\ batch' = Tail(batch)
      /\ UNCHANGED <<chainTip, filters, made, stopping, manager, at, tip, out, reported, skipped, errors, dropped>>
  BY <1>0 DEF IInv, TypeOK, Requeue, Enqueue, errorVars
<1>2. x \in Scan /\ batch' \in Seq(Scan) /\ Range(batch) = {x} \cup Range(batch')
  BY <1>0, <1>1, RangeTail
<1>3. queue' \in Seq(Scan) /\ Range(queue') = Range(queue) \cup {x}
  BY <1>1, <1>2, RangeAppend
<1>4. TypeOK'
  BY <1>1, <1>2, <1>3 DEF IInv, TypeOK
<1>5. OnlyMade' /\ Kept'
  <2>1. Ids(queue') \cup Ids(batch') = Ids(queue) \cup Ids(batch)
    <3>1. Ids(batch) = {x.id} \cup Ids(batch')
      BY <1>2 DEF Ids
    <3>2. Ids(queue') = Ids(queue) \cup {x.id}
      BY <1>3 DEF Ids
    <3> QED BY <3>1, <3>2
  <2> QED BY <1>1, <2>1 DEF IInv, OnlyMade, Kept
<1>6. Below' /\ Scanned'
  BY <1>1, <1>2 DEF IInv, Below, Scanned
<1>7. AllPassed'
  <2>1. Passed(x, x.start)
    <3>1. x.start <= at /\ x.start \in Nat /\ at \in Nat /\ firstBlock[x.id] \in Nat
      BY <1>2 DEF IInv, Below, TypeOK, Scan, ScannerAssumption
    <3>2. \A g \in firstBlock[x.id]..(x.start - 1) : g \in firstBlock[x.id]..(at - 1)
      BY <3>1
    <3> QED BY <1>2, <3>2 DEF IInv, AllPassed, Passed
  <2> QED BY <1>1, <1>2, <1>3, <2>1 DEF IInv, AllPassed, Passed, Covered
<1> QED BY <1>4, <1>5, <1>6, <1>7 DEF IInv

-----------------------------------------------------------------------------
(* The theorems                                                            *)

(* No step breaks the invariant.                                           *)
LEMMA NextIInv == ScannerAssumption /\ IInv /\ [Next]_vars => IInv'
BY QuietSteps, QuietStep, WatchStep, WorkerFailsStep, DequeueStep, SkipStep, ScanBlockStep, SendReportStep,
   RewatchStep, RequeueStep DEF Next, Manager

(* So the invariant always holds.                                          *)
THEOREM Invariance == Spec => []IInv
BY ScannerAssumption, InitIInv, NextIInv, PTL DEF Spec

(* Every variable of the scanner keeps its type, and requestsManager holds *)
(* requests or reports only where its code does.                           *)
THEOREM Typing == Spec => []TypeOK
<1>1. IInv => TypeOK
  BY DEF IInv
<1> QED BY <1>1, Invariance, PTL

(* No request is lost between the queue, nextBatch, the reports and the    *)
(* queue again, whatever clients, chain, filters and errors do; only an    *)
(* error of requestWorker takes one away, with its batch.                  *)
THEOREM NeverForgottenHolds == Spec => []NeverForgotten
<1>1. IInv => NeverForgotten
  <2>1. ASSUME IInv, NEW r
        PROVE  /\ r \in Ids(queue) => InQueue(r)
               /\ r \in Ids(batch) => InBatch(r)
               /\ r \in Ids(out) => InOut(r)
    <3>1. queue \in Seq(Scan) /\ batch \in Seq(Scan) /\ out \in Seq(Scan)
      BY <2>1 DEF IInv, TypeOK
    <3> QED BY <3>1, InRange DEF Ids, InQueue, InBatch, InOut
  <2> QED BY <2>1 DEF IInv, Kept, NeverForgotten
<1> QED BY <1>1, Invariance, PTL

(* No matching block lies behind a request that waits in the queue or in   *)
(* nextBatch, unless it was reported or its filter or the block could not  *)
(* be had, however often requests were queued again (requestWorker).       *)
THEOREM NoMatchMissedHolds == Spec => []NoMatchMissed
<1>1. IInv => NoMatchMissed
  <2> SUFFICES ASSUME IInv PROVE NoMatchMissed
    OBVIOUS
  <2>1. /\ \A i \in 1..Len(queue) : queue[i] \in Range(queue)
        /\ \A i \in 1..Len(batch) : batch[i] \in Range(batch)
    <3>1. queue \in Seq(Scan) /\ batch \in Seq(Scan)
      BY DEF IInv, TypeOK
    <3> QED BY <3>1, InRange
  <2> QED BY <2>1 DEF IInv, AllPassed, Passed, NoMatchMissed
<1> QED BY <1>1, Invariance, PTL

-----------------------------------------------------------------------------
(* The promise of Watches                                                  *)

(* How many watches there are like x, and how many of its reports are due. *)
Watching(x) ==
  Count(queue, x) + Count(batch, x) +
    IF manager = "rewatch" /\ x = [id |-> Head(out).id, start |-> at + 1] THEN 1 ELSE 0
StillDue(x, h) == IF h = at THEN Count(IF manager = "rewatch" THEN Tail(out) ELSE out, x) ELSE 0

(* What Watches sees of a state                                            *)
ViewIs ==
  /\ WatchesNow \in [Scan -> Nat] /\ DueNow \in [Scan -> [0..MaxHeight -> Nat]]
  /\ \A x \in Scan : WatchesNow[x] = Watching(x)
  /\ \A x \in Scan : \A h \in 0..MaxHeight : DueNow[x][h] = StillDue(x, h)

(* ... when every variable has its type.                                   *)
LEMMA View == TypeOK => ViewIs
<1> SUFFICES ASSUME TypeOK PROVE ViewIs
  OBVIOUS
<1>1. /\ queue \in Seq(Scan) /\ batch \in Seq(Scan) /\ out \in Seq(Scan)
      /\ manager = "rewatch" => Tail(out) \in Seq(Scan)
  BY HeadTailProperties DEF TypeOK
<1>2. /\ \A x \in Scan : WatchesNow[x] = Watching(x)
      /\ \A x \in Scan : \A h \in 0..MaxHeight : DueNow[x][h] = StillDue(x, h)
      /\ WatchesNow = [x \in Scan |-> Watching(x)]
      /\ DueNow = [x \in Scan |-> [h \in 0..MaxHeight |-> StillDue(x, h)]]
  BY DEF WatchesNow, DueNow, Watching, StillDue
<1>3. \A x \in Scan : Watching(x) \in Nat
  <2>1. \A x \in Scan : Count(queue, x) \in Nat /\ Count(batch, x) \in Nat
    BY <1>1, Counted
  <2> QED BY <2>1 DEF Watching
<1>4. \A x \in Scan : \A h \in 0..MaxHeight : StillDue(x, h) \in Nat
  BY <1>1, Counted DEF StillDue
<1> QED BY <1>2, <1>3, <1>4 DEF ViewIs

(* The same of the next state.                                             *)
LEMMA ViewNext == TypeOK' => ViewIs'
BY View, PTL

(* The same reports are due when they count the same.                      *)
LEMMA SameDue ==
  ASSUME ScannerAssumption, TypeOK, TypeOK',
         \A x \in Scan : \A h \in 0..MaxHeight : StillDue(x, h)' = StillDue(x, h)
  PROVE  DueNow' = DueNow
<1>1. ASSUME NEW x \in Scan PROVE DueNow'[x] = DueNow[x]
  <2> DEFINE f == DueNow[x]
             g == DueNow'[x]
  <2>1. f \in [0..MaxHeight -> Nat] /\ g \in [0..MaxHeight -> Nat]
    BY View, ViewNext DEF ViewIs
  <2>2. \A h \in 0..MaxHeight : g[h] = f[h]
    BY View, ViewNext DEF ViewIs
  <2> HIDE DEF f, g
  <2>3. g = f
    BY <2>1, <2>2 DEF ScannerAssumption
  <2> QED BY <2>3 DEF f, g
<1> QED BY <1>1, View, ViewNext DEF ViewIs

(* One report less is due.                                                 *)
LEMMA LessOne ==
  ASSUME ScannerAssumption, NEW x \in Scan, NEW b \in 0..MaxHeight,
         NEW f \in [Scan -> [0..MaxHeight -> Nat]], NEW g \in [Scan -> [0..MaxHeight -> Nat]],
         \A y \in Scan : \A h \in 0..MaxHeight :
           g[y][h] = IF y = x /\ h = b THEN f[y][h] - 1 ELSE f[y][h]
  PROVE  g = [f EXCEPT ![x][b] = @ - 1]
<1> DEFINE e == [f[x] EXCEPT ![b] = f[x][b] - 1]
<1>1. g[x] = e
  BY DEF ScannerAssumption
<1>2. \A y \in Scan : y # x => g[y] = f[y]
  BY DEF ScannerAssumption
<1>3. [f EXCEPT ![x][b] = @ - 1] = [f EXCEPT ![x] = e]
  OBVIOUS
<1> HIDE DEF e
<1> QED BY <1>1, <1>2, <1>3

(* Two views are the same when they count the same.                        *)
LEMMA SameView ==
  ASSUME ScannerAssumption, TypeOK, TypeOK', made' = made, reported' = reported,
         \A x \in Scan : Watching(x)' = Watching(x),
         \A x \in Scan : \A h \in 0..MaxHeight : StillDue(x, h)' = StillDue(x, h)
  PROVE  UNCHANGED Promise!vars
<1>1. WatchesNow' = WatchesNow
  BY View, ViewNext DEF ViewIs
<1> QED BY <1>1, SameDue DEF Promise!vars

(* Nothing is due, and the watches are the requests of queue and batch     *)
Undue ==
  /\ \A x \in Scan : \A h \in 0..MaxHeight : StillDue(x, h) = 0
  /\ \A x \in Scan : Watching(x) = Count(queue, x) + Count(batch, x)
  /\ Promise!NothingDue

Idle == TypeOK /\ out = <<>>

(* Nothing is due from a manager without reports to send.                  *)
LEMMA NoneDue == Idle => Undue
<1> SUFFICES ASSUME TypeOK, out = <<>> PROVE Undue
  BY DEF Idle
<1>1. manager # "rewatch" /\ \A x \in Scan : Count(out, x) = 0
  BY Counted DEF TypeOK
<1>2. \A x \in Scan : Count(queue, x) \in Nat /\ Count(batch, x) \in Nat
  BY Counted DEF TypeOK
<1>3. \A x \in Scan : \A h \in 0..MaxHeight : StillDue(x, h) = 0
  BY <1>1 DEF StillDue
<1>4. \A x \in Scan : Watching(x) = Count(queue, x) + Count(batch, x)
  BY <1>1, <1>2 DEF Watching
<1>5. Promise!NothingDue
  BY <1>3, View DEF ViewIs, Promise!NothingDue, Promise!WatchOf, Promise!Block, Promise!Height, Scan
<1> QED BY <1>3, <1>4, <1>5 DEF Undue

(* The same of the next state.                                             *)
LEMMA NoneDueNext == Idle' => Undue'
BY NoneDue, PTL

(* Nobody watches anything at first.                                       *)
LEMMA PromiseInit == ScannerAssumption /\ Init => Promise!Init
<1> SUFFICES ASSUME ScannerAssumption, Init PROVE Promise!Init
  OBVIOUS
<1>1. TypeOK /\ out = <<>> /\ queue = <<>> /\ batch = <<>> /\ made = {}
      /\ reported = [r \in Request |-> [h \in 0..MaxHeight |-> 0]]
  BY InitIInv DEF IInv, Init
<1>2. \A x \in Scan : Count(<<>>, x) = 0
  <2>1. <<>> \in Seq(Scan)
    OBVIOUS
  <2> QED BY <2>1, Counted
<1>3. \A x \in Scan : WatchesNow[x] = 0
  BY <1>1, <1>2, NoneDue, View DEF Idle, Undue, ViewIs
<1>4. \A x \in Scan : \A h \in 0..MaxHeight : DueNow[x][h] = 0
  BY <1>1, NoneDue, View DEF Idle, Undue, ViewIs
<1>5. WatchesNow = [x \in Scan |-> 0] /\ DueNow = [x \in Scan |-> [h \in 0..MaxHeight |-> 0]]
  BY <1>1, <1>3, <1>4, View DEF ViewIs
<1> QED BY <1>1, <1>5 DEF Promise!Init, Promise!WatchOf, Promise!Block, Promise!Height, Scan

(* The steps that Watches does not see: they move requests between the     *)
(* queue and the batch, or none at all.                                    *)
LEMMA UnseenQuiet ==
  ASSUME ScannerAssumption, TypeOK, TypeOK', Quiet PROVE UNCHANGED Promise!vars
<1>1. UNCHANGED <<made, queue, batch, out, reported>>
  BY DEF Quiet
<1>2. CASE out = <<>>
  BY <1>1, <1>2, NoneDue, NoneDueNext, SameView DEF Idle, Undue
<1>3. CASE out # <<>>
  <2>1. manager' = manager /\ at' = at
    BY <1>1, <1>3 DEF Quiet, TypeOK
  <2>2. \A x \in Scan : Watching(x)' = Watching(x)
    BY <1>1, <2>1 DEF Watching
  <2>3. \A x \in Scan : \A h \in 0..MaxHeight : StillDue(x, h)' = StillDue(x, h)
    BY <1>1, <2>1 DEF StillDue
  <2> QED BY <1>1, <2>2, <2>3, SameView
<1> QED BY <1>2, <1>3

(* A request goes from the queue to the batch or back again: nobody who    *)
(* called Watch can tell.                                                  *)
LEMMA UnseenMoves ==
  ASSUME ScannerAssumption, TypeOK, TypeOK', DequeueAtHeight \/ SkipBlock \/ Requeue
  PROVE  UNCHANGED Promise!vars
<1>1. /\ queue \in Seq(Scan) /\ batch \in Seq(Scan) /\ out = <<>>
      /\ out' = out /\ made' = made /\ reported' = reported
  BY DEF TypeOK, DequeueAtHeight, SkipBlock, Requeue
<1>2. ASSUME NEW x \in Scan
      PROVE  Count(queue', x) + Count(batch', x) = Count(queue, x) + Count(batch, x)
  <2>1. Count(queue, x) \in Nat /\ Count(batch, x) \in Nat
    BY <1>1, Counted
  <2>2. CASE DequeueAtHeight
    <3> DEFINE S == {y \in Scan : StartsAt(y, at)}
    <3>1. batch' = batch \o Select(queue, S) /\ queue' = Select(queue, Scan \ S)
      BY <2>2 DEF DequeueAtHeight
    <3> HIDE DEF S
    <3>2. /\ Select(queue, S) \in Seq(Scan)
          /\ Count(Select(queue, S), x) = IF x \in S THEN Count(queue, x) ELSE 0
      BY <1>1, CountSelect
    <3>3. Count(queue', x) = IF x \in S THEN 0 ELSE Count(queue, x)
      <4>1. x \in Scan \ S <=> x \notin S
        OBVIOUS
      <4> DEFINE T == Scan \ S
      <4>2. queue' = Select(queue, T) /\ (x \in T <=> x \notin S)
        BY <3>1, <4>1
      <4> HIDE DEF T
      <4>3. Count(Select(queue, T), x) = IF x \in T THEN Count(queue, x) ELSE 0
        BY <1>1, CountSelect
      <4> QED BY <4>2, <4>3
    <3>4. Count(batch', x) = Count(batch, x) + Count(Select(queue, S), x)
      BY <1>1, <3>1, <3>2, CountConcat
    <3> QED BY <2>1, <3>2, <3>3, <3>4
  <2>3. CASE SkipBlock
    BY <2>3 DEF SkipBlock
  <2>4. CASE Requeue
    <3>1. batch # <<>> /\ queue' = Append(queue, Head(batch)) /\ batch' = Tail(batch)
      BY <2>4 DEF Requeue, Enqueue
    <3>2. /\ Head(batch) \in Scan /\ batch' \in Seq(Scan)
          /\ Count(batch, x) = Count(batch', x) + IF x = Head(batch) THEN 1 ELSE 0
      BY <1>1, <3>1, CountTail
    <3>3. Count(queue', x) = Count(queue, x) + IF x = Head(batch) THEN 1 ELSE 0
      BY <1>1, <3>1, <3>2, CountAppend
    <3>4. Count(batch', x) \in Nat
      BY <3>2, Counted
    <3> QED BY <2>1, <3>2, <3>3, <3>4
  <2> QED BY <2>2, <2>3, <2>4
<1>3. Undue /\ Undue'
  BY <1>1, NoneDue, NoneDueNext DEF Idle
<1> QED BY <1>1, <1>2, <1>3, SameView DEF Undue

(* A request is a watch from its first block on.                           *)
LEMMA PromiseWatch ==
  ASSUME ScannerAssumption, TypeOK, TypeOK', NEW r \in Request, Watch(r) PROVE Promise!Watch(r)
<1> DEFINE x == [id |-> r, start |-> firstBlock[r]]
<1>1. x \in Scan
  BY DEF Scan, ScannerAssumption
<1>2. /\ r \notin made /\ made' = made \cup {r} /\ queue' = Append(queue, x)
      /\ UNCHANGED <<batch, at, out, reported>>
      /\ manager' = "rewatch" <=> manager = "rewatch"
  BY DEF Watch, Enqueue, Signalled
<1> HIDE DEF x
<1>3. \A y \in Scan : Watching(y)' = IF y = x THEN Watching(y) + 1 ELSE Watching(y)
  <2> TAKE y \in Scan
  <2>1. queue \in Seq(Scan) /\ batch \in Seq(Scan)
    BY DEF TypeOK
  <2>2. Count(queue', y) = Count(queue, y) + IF y = x THEN 1 ELSE 0
    BY <1>1, <1>2, <2>1, CountAppend
  <2>3. Count(queue, y) \in Nat /\ Count(batch, y) \in Nat
    BY <2>1, Counted
  <2> QED BY <1>2, <2>2, <2>3 DEF Watching
<1>4. \A y \in Scan : \A h \in 0..MaxHeight : StillDue(y, h)' = StillDue(y, h)
  BY <1>2 DEF StillDue
<1>5. WatchesNow' = [WatchesNow EXCEPT ![x] = @ + 1]
  BY <1>1, <1>3, View, ViewNext DEF ViewIs
<1>6. DueNow' = DueNow
  BY <1>4, SameDue
<1> QED BY <1>2, <1>5, <1>6 DEF Promise!Watch, x

(* An error takes watches away.                                            *)
LEMMA PromiseLose ==
  ASSUME ScannerAssumption, TypeOK, TypeOK', WorkerFails PROVE Promise!Lose
<1>1. /\ queue \in Seq(Scan) /\ batch \in Seq(Scan) /\ out = <<>>
      /\ out' = out /\ made' = made /\ reported' = reported /\ queue' = queue /\ batch' = <<>>
  BY DEF TypeOK, WorkerFails
<1>2. Undue /\ Undue'
  BY <1>1, NoneDue, NoneDueNext DEF Idle
<1>3. \A x \in Scan : Count(queue, x) \in Nat /\ Count(batch, x) \in Nat /\ Count(<<>>, x) = 0
  BY <1>1, Counted
<1>4. \A x \in Scan : WatchesNow'[x] <= WatchesNow[x]
  BY <1>1, <1>2, <1>3, View, ViewNext DEF Undue, ViewIs
<1>5. DueNow' = DueNow
  BY <1>2, SameDue DEF Undue
<1> QED BY <1>1, <1>2, <1>4, <1>5, ViewNext
        DEF Undue, ViewIs, Promise!Lose, Promise!WatchOf, Promise!Height, Scan

(* A block is matched against the batch: the requests of it that match are *)
(* taken out, and as many reports are due as they match.                   *)
LEMMA PromiseMatch ==
  ASSUME ScannerAssumption, IInv, TypeOK', ScanBlock PROVE Promise!Match(at)
<1>1. /\ TypeOK /\ queue \in Seq(Scan) /\ batch \in Seq(Scan) /\ out = <<>> /\ manager = "match"
      /\ at \in 0..MaxHeight /\ made' = made /\ reported' = reported /\ queue' = queue
      /\ batch' = Select(batch, {y \in Scan : hits[y.id][at] = 0}) /\ out' = Matches(batch)
      /\ manager' # "rewatch"
      /\ \/ at' = at
         \/ at' = at + 1 /\ manager' = "tip"
  <2>1. /\ manager = "match" /\ made' = made /\ reported' = reported /\ queue' = queue
        /\ batch' = Unmatched(batch) /\ out' = Matches(batch)
        /\ \/ at' = at /\ manager' = "emit"
           \/ at' = at + 1 /\ manager' = "tip"
    BY DEF ScanBlock, Advance
  <2> QED BY <2>1, AtBlock DEF Unmatched
<1>2. Undue
  BY <1>1, NoneDue DEF Idle
<1>3. ASSUME NEW x \in Scan
      PROVE  /\ Count(queue, x) \in Nat /\ Count(batch, x) \in Nat /\ hits[x.id][at] \in Nat
             /\ Count(batch', x) = IF hits[x.id][at] = 0 THEN Count(batch, x) ELSE 0
             /\ Count(out', x) = hits[x.id][at] * Count(batch, x)
  <2>1. Count(queue, x) \in Nat /\ Count(batch, x) \in Nat
    BY <1>1, Counted
  <2>2. hits[x.id][at] \in Nat
    BY <1>1 DEF Scan, ScannerAssumption
  <2>3. Count(out', x) = hits[x.id][at] * Count(batch, x)
    BY <1>1, CountMatches
  <2> DEFINE S == {y \in Scan : hits[y.id][at] = 0}
  <2>4. x \in S <=> hits[x.id][at] = 0
    OBVIOUS
  <2> HIDE DEF S
  <2>5. Count(batch', x) = IF x \in S THEN Count(batch, x) ELSE 0
    BY <1>1, CountSelect DEF S
  <2> QED BY <2>1, <2>2, <2>3, <2>4, <2>5
<1>4. ASSUME NEW x \in Scan
      PROVE  /\ WatchesNow[x] = Count(queue, x) + Count(batch, x)
             /\ WatchesNow'[x] = Count(queue, x) + Count(batch', x)
  <2>1. Watching(x)' = Count(queue', x) + Count(batch', x) + 0
    BY <1>1 DEF Watching
  <2>2. Count(batch', x) \in Nat
    BY <1>3
  <2>3. Watching(x)' = Count(queue, x) + Count(batch', x)
    BY <1>1, <1>3, <2>1, <2>2
  <2>4. WatchesNow'[x] = Watching(x)' /\ WatchesNow[x] = Watching(x)
    BY <1>1, View, ViewNext DEF ViewIs
  <2> QED BY <1>2, <2>3, <2>4 DEF Undue
<1>5. ASSUME NEW x \in Scan
      PROVE  /\ WatchesNow'[x] <= WatchesNow[x]
             /\ WatchesNow'[x] < WatchesNow[x] => x.start <= at /\ hits[x.id][at] > 0
             /\ Count(out', x) = hits[x.id][at] * (WatchesNow[x] - WatchesNow'[x])
  <2>1. CASE hits[x.id][at] = 0
    <3>1. WatchesNow'[x] = WatchesNow[x] /\ WatchesNow[x] \in Nat
      BY <1>3, <1>4, <2>1
    <3> DEFINE c == Count(batch, x)
    <3>2. c \in Nat /\ hits[x.id][at] * c = 0
      BY <1>3, <2>1
    <3>3. Count(out', x) = 0
      BY <1>3, <3>2
    <3>4. WatchesNow[x] - WatchesNow'[x] = 0
      BY <3>1
    <3>5. hits[x.id][at] * (WatchesNow[x] - WatchesNow'[x]) = 0
      BY <2>1, <3>4
    <3> QED BY <3>1, <3>3, <3>5
  <2>2. CASE hits[x.id][at] # 0
    <3>1. WatchesNow[x] - WatchesNow'[x] = Count(batch, x) /\ WatchesNow'[x] <= WatchesNow[x]
      BY <1>3, <1>4, <2>2
    <3>2. Count(batch, x) > 0 => x.start <= at
      BY <1>1, InRange DEF IInv, Below
    <3>3. WatchesNow'[x] < WatchesNow[x] => Count(batch, x) > 0
      BY <1>3, <1>4, <2>2
    <3>4. hits[x.id][at] > 0
      BY <1>3, <2>2
    <3> QED BY <1>3, <3>1, <3>2, <3>3, <3>4
  <2> QED BY <2>1, <2>2
<1>6. ASSUME NEW x \in Scan, NEW h \in 0..MaxHeight
      PROVE  /\ DueNow[x][h] = 0
             /\ DueNow'[x][h] = IF h = at THEN Count(out', x) ELSE 0
  <2>1. DueNow[x][h] = 0
    BY <1>1, <1>2, View DEF Undue, ViewIs
  <2>2. DueNow'[x][h] = IF h = at' THEN Count(out', x) ELSE 0
    <3>1. StillDue(x, h)' = IF h = at' THEN Count(out', x) ELSE 0
      BY <1>1 DEF StillDue
    <3> QED BY <3>1, ViewNext DEF ViewIs
  <2>3. at' # at => Count(out', x) = 0
    BY <1>1, Counted DEF TypeOK
  <2> QED BY <2>1, <2>2, <2>3
<1>7. ASSUME NEW x \in Scan
      PROVE  DueNow'[x] = [DueNow[x] EXCEPT ![at] = hits[x.id][at] * (WatchesNow[x] - WatchesNow'[x])]
  <2> DEFINE f == DueNow[x]
             g == DueNow'[x]
             n == hits[x.id][at] * (WatchesNow[x] - WatchesNow'[x])
  <2>1. f \in [0..MaxHeight -> Nat] /\ g \in [0..MaxHeight -> Nat]
    BY <1>1, View, ViewNext DEF ViewIs
  <2>2. \A h \in 0..MaxHeight : g[h] = IF h = at THEN n ELSE f[h]
    BY <1>5, <1>6
  <2> HIDE DEF f, g, n
  <2>3. g = [f EXCEPT ![at] = n]
    BY <1>1, <2>1, <2>2 DEF ScannerAssumption
  <2> QED BY <2>3 DEF f, g, n
<1>8. DueNow' = [x \in Scan |->
                   [DueNow[x] EXCEPT ![at] = hits[x.id][at] * (WatchesNow[x] - WatchesNow'[x])]]
  BY <1>7, ViewNext DEF ViewIs
<1> QED BY <1>1, <1>2, <1>5, <1>8, ViewNext
        DEF Undue, ViewIs, Promise!Match, Promise!WatchOf, Promise!Height, Scan

(* A report is sent, and its request goes on if it is a persistent one.    *)
LEMMA PromiseReport ==
  ASSUME ScannerAssumption, IInv, TypeOK', SendReport PROVE Promise!Report(Head(out), at)
<1>0. PICK x : x = Head(out)
  OBVIOUS
<1>1. /\ TypeOK /\ queue \in Seq(Scan) /\ batch \in Seq(Scan) /\ out \in Seq(Scan) /\ out # <<>>
      /\ manager = "emit" /\ at \in 0..MaxHeight
      /\ made' = made /\ queue' = queue /\ batch' = batch
      /\ reported' = [reported EXCEPT ![x.id][at] = @ + 1]
      /\ \/ x.id \in Persistent /\ manager' = "rewatch" /\ at' = at /\ out' = out
         \/ x.id \notin Persistent /\ Emitted
  <2>1. /\ manager = "emit" /\ made' = made /\ queue' = queue /\ batch' = batch
        /\ reported' = [reported EXCEPT ![x.id][at] = @ + 1]
        /\ \/ x.id \in Persistent /\ manager' = "rewatch" /\ at' = at /\ out' = out
           \/ x.id \notin Persistent /\ Emitted
    BY <1>0 DEF SendReport
  <2> QED BY <2>1, AtBlock
<1>2. x \in Scan
  BY <1>0, <1>1, HeadTailProperties
<1>3. /\ Tail(out) \in Seq(Scan)
      /\ \A y \in Scan : /\ Count(Tail(out), y) \in Nat
                         /\ Count(out, y) = Count(Tail(out), y) + IF y = x THEN 1 ELSE 0
  <2>1. Tail(out) \in Seq(Scan)
    BY <1>1, HeadTailProperties
  <2> QED BY <1>0, <1>1, <2>1, CountTail, Counted
<1>4. \A y \in Scan : \A h \in 0..MaxHeight :
        /\ StillDue(y, h) = IF h = at THEN Count(out, y) ELSE 0
        /\ StillDue(y, h)' = IF h = at THEN Count(Tail(out), y) ELSE 0
  <2> TAKE y \in Scan
  <2> TAKE h \in 0..MaxHeight
  <2>1. StillDue(y, h) = IF h = at THEN Count(out, y) ELSE 0
    BY <1>1 DEF StillDue
  <2>2. CASE manager' = "rewatch" /\ at' = at /\ out' = out
    BY <2>1, <2>2 DEF StillDue
  <2>3. CASE Emitted
    <3>1. out' = Tail(out)
      BY <2>3 DEF Emitted
    <3>2. CASE out' # <<>> /\ manager' = "emit" /\ at' = at
      BY <2>1, <3>1, <3>2 DEF StillDue
    <3>3. CASE out' = <<>>
      <4>1. StillDue(y, h)' = 0
        BY <3>3, NoneDueNext DEF Idle, Undue
      <4>2. Count(Tail(out), y) = 0
        BY <1>3, <3>1, <3>3, Counted
      <4> QED BY <2>1, <4>1, <4>2
    <3> QED BY <1>1, <2>3, <3>2, <3>3, EmittedNext
  <2> QED BY <1>1, <2>2, <2>3
<1>5. DueNow[x][at] > 0
  <2>1. Count(out, x) > 0
    BY <1>2, <1>3
  <2> QED BY <1>1, <1>2, <1>4, <2>1, View DEF ViewIs
<1>6. DueNow' = [DueNow EXCEPT ![x][at] = @ - 1]
  <2>1. \A y \in Scan : \A h \in 0..MaxHeight :
          DueNow'[y][h] = IF y = x /\ h = at THEN DueNow[y][h] - 1 ELSE DueNow[y][h]
    <3> TAKE y \in Scan
    <3> TAKE h \in 0..MaxHeight
    <3>1. StillDue(y, h)' = IF y = x /\ h = at THEN StillDue(y, h) - 1 ELSE StillDue(y, h)
      BY <1>3, <1>4
    <3> QED BY <1>1, <3>1, View, ViewNext DEF ViewIs
  <2>2. /\ DueNow \in [Scan -> [0..MaxHeight -> Nat]]
        /\ DueNow' \in [Scan -> [0..MaxHeight -> Nat]]
    BY <1>1, View, ViewNext DEF ViewIs
  <2> DEFINE f == DueNow
             g == DueNow'
  <2> HIDE DEF f, g
  <2>3. PICK b \in 0..MaxHeight : b = at
    BY <1>1
  <2>4. g = [f EXCEPT ![x][b] = @ - 1]
    BY <1>2, <2>1, <2>2, <2>3, LessOne DEF f, g
  <2> QED BY <2>3, <2>4 DEF f, g
<1>7. WatchesNow' = IF x.id \in Persistent
                    THEN [WatchesNow EXCEPT ![[id |-> x.id, start |-> at + 1]] = @ + 1]
                    ELSE WatchesNow
  <2>1. PICK z : z = [id |-> x.id, start |-> at + 1]
    OBVIOUS
  <2>2. z \in Scan
    BY <1>1, <1>2, <2>1 DEF Scan, ScannerAssumption
  <2>3. \A y \in Scan : Count(queue, y) \in Nat /\ Count(batch, y) \in Nat
    BY <1>1, Counted
  <2>4. \A y \in Scan : Watching(y) = Count(queue, y) + Count(batch, y)
    BY <1>1, <2>3 DEF Watching
  <2>5. CASE x.id \in Persistent
    <3>1. manager' = "rewatch" /\ at' = at /\ out' = out
      BY <1>1, <2>5
    <3>2. ASSUME NEW y \in Scan
          PROVE  Watching(y)' = Watching(y) + IF y = z THEN 1 ELSE 0
      <4>1. [id |-> Head(out').id, start |-> at' + 1] = z
        BY <1>0, <2>1, <3>1
      <4>2. Watching(y)' = Count(queue', y) + Count(batch', y) + IF y = z THEN 1 ELSE 0
        BY <3>1, <4>1 DEF Watching
      <4>3. Count(queue', y) = Count(queue, y) /\ Count(batch', y) = Count(batch, y)
        BY <1>1
      <4> QED BY <2>4, <4>2, <4>3
    <3>3. ViewIs /\ ViewIs'
      BY <1>1, View, ViewNext
    <3>4. \A y \in Scan : WatchesNow'[y] = Watching(y)' /\ WatchesNow[y] = Watching(y)
      BY <3>3 DEF ViewIs
    <3>5. WatchesNow \in [Scan -> Nat] /\ WatchesNow' \in [Scan -> Nat]
      BY <3>3 DEF ViewIs
    <3>6. \A y \in Scan : WatchesNow'[y] = IF y = z THEN WatchesNow[y] + 1 ELSE WatchesNow[y]
      BY <3>2, <3>4, <3>5
    <3>7. WatchesNow' = [WatchesNow EXCEPT ![z] = @ + 1]
      BY <2>2, <3>5, <3>6
    <3> QED BY <2>1, <2>5, <3>7
  <2>6. CASE x.id \notin Persistent
    <3>1. manager' # "rewatch"
      BY <1>1, <2>6, EmittedNext
    <3>2. \A y \in Scan : Watching(y)' = Watching(y)
      BY <1>1, <2>3, <2>4, <3>1 DEF Watching
    <3>3. WatchesNow' = WatchesNow
      BY <1>1, <3>2, View, ViewNext DEF ViewIs
    <3> QED BY <2>6, <3>3
  <2> QED BY <2>5, <2>6
<1> QED BY <1>0, <1>1, <1>5, <1>6, <1>7 DEF Promise!Report

(* The watch that goes on is queued.                                       *)
LEMMA UnseenRewatch ==
  ASSUME ScannerAssumption, IInv, TypeOK', Rewatch PROVE UNCHANGED Promise!vars
<1>0. PICK x : x = [id |-> Head(out).id, start |-> at + 1]
  OBVIOUS
<1>1. /\ TypeOK /\ queue \in Seq(Scan) /\ batch \in Seq(Scan) /\ out \in Seq(Scan) /\ out # <<>>
      /\ manager = "rewatch" /\ at \in 0..MaxHeight
      /\ made' = made /\ batch' = batch /\ reported' = reported
      /\ queue' = Append(queue, x) /\ Emitted /\ out' = Tail(out)
  <2>1. /\ manager = "rewatch" /\ made' = made /\ batch' = batch /\ reported' = reported
        /\ queue' = Append(queue, x) /\ Emitted
    BY <1>0 DEF Rewatch, Enqueue, NextStart
  <2>2. out' = Tail(out)
    BY <2>1 DEF Emitted
  <2>3. /\ TypeOK /\ queue \in Seq(Scan) /\ batch \in Seq(Scan) /\ out \in Seq(Scan)
        /\ out # <<>> /\ at \in 0..MaxHeight
    BY <2>1, AtBlock
  <2> QED BY <2>1, <2>2, <2>3
<1>2. Head(out) \in Scan
  BY <1>1, HeadTailProperties
<1>3. x \in Scan
  <2>1. at + 1 \in 0..(MaxHeight + 1)
    BY <1>1 DEF ScannerAssumption
  <2>2. Head(out).id \in Request
    BY <1>2 DEF Scan
  <2> QED BY <1>0, <2>1, <2>2 DEF Scan
<1>4. /\ manager' # "rewatch"
      /\ out' = <<>> \/ (manager' = "emit" /\ at' = at)
  BY <1>1, EmittedNext
<1>5. \A y \in Scan : Watching(y)' = Watching(y)
  <2> TAKE y \in Scan
  <2>1. Count(queue, y) \in Nat /\ Count(batch, y) \in Nat
    BY <1>1, Counted
  <2>2. Count(queue', y) = Count(queue, y) + IF y = x THEN 1 ELSE 0
    BY <1>1, <1>3, CountAppend
  <2>3. Watching(y) = Count(queue, y) + Count(batch, y) + IF y = x THEN 1 ELSE 0
    BY <1>0, <1>1 DEF Watching
  <2>4. Watching(y)' = Count(queue', y) + Count(batch, y) + 0
    BY <1>1, <1>4 DEF Watching
  <2> QED BY <2>1, <2>2, <2>3, <2>4
<1>6. \A y \in Scan : \A h \in 0..MaxHeight : StillDue(y, h)' = StillDue(y, h)
  <2> TAKE y \in Scan
  <2> TAKE h \in 0..MaxHeight
  <2>1. StillDue(y, h) = IF h = at THEN Count(out', y) ELSE 0
    BY <1>1 DEF StillDue
  <2>2. CASE out' = <<>>
    <3>1. StillDue(y, h)' = 0
      BY <2>2, NoneDueNext DEF Idle, Undue
    <3>2. Count(out', y) = 0
      BY <1>1, <2>2, Counted
    <3> QED BY <2>1, <3>1, <3>2
  <2>3. CASE manager' = "emit" /\ at' = at
    BY <2>1, <2>3 DEF StillDue
  <2> QED BY <1>4, <2>2, <2>3
<1> QED BY <1>1, <1>5, <1>6, SameView

(* Every step is one that Watches allows.                                  *)
LEMMA PromiseNext ==
  ScannerAssumption /\ IInv /\ IInv' /\ [Next]_vars => [Promise!Next]_(Promise!vars)
<1> SUFFICES ASSUME ScannerAssumption, IInv, IInv', [Next]_vars
             PROVE  Promise!Next \/ UNCHANGED Promise!vars
  OBVIOUS
<1>1. TypeOK /\ TypeOK'
  BY DEF IInv
<1>2. ASSUME NEW r \in Request, Watch(r) PROVE Promise!Next
  BY <1>1, <1>2, PromiseWatch DEF Promise!Next
<1>3. CASE WorkerFails
  BY <1>1, <1>3, PromiseLose DEF Promise!Next
<1>4. CASE ScanBlock
  <2>1. at \in Promise!Block
    BY <1>4 DEF IInv, TypeOK, Below, ScanBlock, ScannerAssumption, Promise!Block
  <2> QED BY <1>1, <1>4, <2>1, PromiseMatch DEF Promise!Next
<1>5. CASE SendReport
  <2>1. Head(out) \in Promise!WatchOf
    <3>1. Head(out) \in Scan
      BY <1>1, <1>5, HeadTailProperties DEF TypeOK, SendReport
    <3> QED BY <3>1 DEF Promise!WatchOf, Promise!Height, Scan
  <2>2. at \in Promise!Block
    BY <1>5 DEF IInv, TypeOK, Below, SendReport, ScannerAssumption, Promise!Block
  <2> QED BY <1>1, <1>5, <2>1, <2>2, PromiseReport DEF Promise!Next
<1>6. CASE Rewatch
  BY <1>1, <1>6, UnseenRewatch
<1>7. CASE DequeueAtHeight \/ SkipBlock \/ Requeue
  BY <1>1, <1>7, UnseenMoves
<1>8. CASE \/ ExtendChain
           \/ \E h \in 1..MaxHeight : PutFilter(h)
           \/ Stop
           \/ CheckQueue \/ Wait \/ WakeUp \/ StartWorker \/ ReadTip \/ WorkerReturns
           \/ UNCHANGED vars
  BY <1>1, <1>8, QuietSteps, UnseenQuiet
<1> QED BY <1>2, <1>3, <1>4, <1>5, <1>6, <1>7, <1>8 DEF Next, Manager

(* The scanner, with its queue, its batch and its goroutine, keeps the     *)
(* promise of Watches: no request is made, ended or moved to another       *)
(* height but as Watches says (pkg/scanner).                               *)
THEOREM PromiseKeptHolds == Spec => PromiseKept
<1>1. Init => Promise!Init
  BY ScannerAssumption, PromiseInit
<1>2. IInv /\ IInv' /\ [Next]_vars => [Promise!Next]_(Promise!vars)
  BY ScannerAssumption, PromiseNext
<1>3. Spec => [][Promise!Next]_(Promise!vars)
  BY <1>2, Invariance, PTL DEF Spec
<1> QED BY <1>1, <1>3, PTL DEF Spec, PromiseKept, Promise!Spec

(* A block is reported no more often than the matches so far account for,  *)
(* and a request that is not persistent is reported for one block only:    *)
(* requestWorker scans blocks again and again, and queues requests again.  *)
THEOREM NoExtraReportsHolds == Spec => []NoExtraReports
<1>1. Follow!Parameters
  BY ScannerAssumption DEF ScannerAssumption, Follow!Parameters, Follow!Height, Follow!Block
<1>2. Follow!Spec => []Follow!Accounted
  BY <1>1, Follow!AllAccounted
<1>3. Follow!Spec => []Follow!OneBlock
  BY <1>1, Follow!OneBlockOnly
<1> USE DEF Promise!Block, Promise!Height, Promise!WatchOf, Promise!NothingDue,
            Follow!Block, Follow!Height, Follow!WatchOf, Follow!NothingDue
<1>4. Promise!Init => Follow!Init
  BY DEF Promise!Init, Follow!Init
<1>5. [Promise!Next]_(Promise!vars) => [Follow!Next]_(Follow!vars)
  BY DEF Promise!Next, Promise!vars, Promise!Watch, Promise!Match, Promise!Report, Promise!Lose,
         Follow!Next, Follow!vars, Follow!Watch, Follow!Match, Follow!Report, Follow!Lose
<1>6. Follow!Accounted => Promise!Accounted
  BY DEF Promise!Accounted, Follow!Accounted, Promise!Growth, Follow!Growth
<1>7. Follow!OneBlock => Promise!OneBlock
  BY DEF Promise!OneBlock, Follow!OneBlock
<1>8. Spec => Promise!Spec
  BY PromiseKeptHolds DEF PromiseKept
<1> QED BY <1>2, <1>3, <1>4, <1>5, <1>6, <1>7, <1>8, PTL DEF NoExtraReports, Promise!Spec, Follow!Spec

=============================================================================
