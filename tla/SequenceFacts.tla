---------------------------- MODULE SequenceFacts ----------------------------
(***************************************************************************)
(* What the proofs about queues, lists and caches keep needing: finite     *)
(* sets of numbers in order, their extremes, and sequences whose members   *)
(* are inserted, removed, dropped or sifted.                               *)
(***************************************************************************)
EXTENDS Places, SequencesExt, SequenceTheorems, FiniteSetTheorems, WellFoundedInduction, TLAPS

LEMMA LeastNumber ==
  ASSUME NEW T, T \subseteq Nat, T # {}
  PROVE  \E n \in T : \A m \in T : n <= m
<1>1. PICK n \in T : \A m \in T : ~(<<m, n>> \in OpToRel(<, Nat))
  <2>1. IsWellFoundedOn(OpToRel(<, Nat), Nat)
    BY NatLessThanWellFounded
  <2>2. QED
    BY <2>1, WFMin
<1>2. \A m \in T : ~(m < n)
  BY <1>1 DEF OpToRel
<1>3. QED
  BY <1>2

Increases(s, n) == \A j, k \in 1..n : j < k => s[j] < s[k]

(* A finite set of naturals can be put in order, and then has each of its  *)
(* members once.                                                           *)
LEMMA SortedExists ==
  ASSUME NEW S, \A i \in S : i \in Nat, IsFiniteSet(S)
  PROVE  \E s \in [1..Cardinality(S) -> S] : Increases(s, Cardinality(S))
<1> DEFINE Below(i) == {j \in S : j <= i}
<1>1. PICK n \in Nat : n = Cardinality(S)  BY FS_CardinalityType
<1>2. ASSUME NEW i \in S PROVE IsFiniteSet(Below(i)) /\ Cardinality(Below(i)) \in 1..n
  <2>1. PICK B \in SUBSET S : B = Below(i)  OBVIOUS
  <2>2. IsFiniteSet(B) /\ Cardinality(B) <= n  BY <1>1, FS_Subset
  <2>3. Cardinality(B) \in Nat  BY <2>2, FS_CardinalityType
  <2>4. i \in B  BY <2>1
  <2>5. Cardinality(B) # 0  BY <2>2, <2>4, FS_EmptySet
  <2> QED  BY <1>1, <2>1, <2>2, <2>3, <2>5
<1>3. ASSUME NEW i \in S, NEW k \in S, i < k PROVE Cardinality(Below(i)) < Cardinality(Below(k))
  <2>1. PICK B, D : B = Below(i) /\ D = Below(k)  OBVIOUS
  <2>2. IsFiniteSet(D) /\ Cardinality(D) \in Nat /\ Cardinality(B) \in Nat  BY <1>2, <2>1
  <2>0. i \in Nat /\ k \in Nat /\ \A j \in S : j \in Nat  OBVIOUS
  <2>3. B \in SUBSET D
    <3> SUFFICES ASSUME NEW j \in B PROVE j \in D  OBVIOUS
    <3>1. j \in S /\ j \in Nat /\ j <= i  BY <2>0, <2>1
    <3> QED  BY <1>3, <2>0, <2>1, <3>1
  <2>4. k \in D /\ k \notin B  BY <1>3, <2>0, <2>1
  <2>5. Cardinality(B) <= Cardinality(D) /\ (Cardinality(D) = Cardinality(B) => D = B)  BY <2>2, <2>3, FS_Subset
  <2> QED  BY <2>1, <2>2, <2>4, <2>5
<1>4. PICK r : r = [i \in S |-> Cardinality(Below(i))]  OBVIOUS
<1>5. r \in [S -> 1..n]  BY <1>2, <1>4
<1>6. \A i, k \in S : i < k => r[i] < r[k]  BY <1>3, <1>4
<1>7. \A i, k \in S : r[i] = r[k] => i = k  BY <1>5, <1>6
<1>8. r \in Injection(S, 1..n)  BY <1>5, <1>7 DEF Injection, IsInjective
<1>9. IsFiniteSet(1..n) /\ Cardinality(1..n) = n  BY <1>1, FS_Interval
<1>10. r \in Surjection(S, 1..n)  BY <1>1, <1>8, <1>9, FS_Injection
<1>11. \A k \in 1..n : \E i \in S : r[i] = k  BY <1>10 DEF Surjection
<1>12. PICK s : s = [k \in 1..n |-> CHOOSE i \in S : r[i] = k]  OBVIOUS
<1>13. \A k \in 1..n : s[k] \in S /\ r[s[k]] = k  BY <1>11, <1>12
<1>14. s \in [1..n -> S]  BY <1>12, <1>13
<1>15. ASSUME NEW j \in 1..n, NEW k \in 1..n, j < k PROVE s[j] < s[k]
  <2>1. s[j] \in S /\ s[k] \in S /\ r[s[j]] = j /\ r[s[k]] = k  BY <1>13
  <2>0. j \in Nat /\ k \in Nat  OBVIOUS
  <2>2. j \in Nat /\ k \in Nat /\ s[j] \in Nat /\ s[k] \in Nat  BY <2>0, <2>1
  <2>3. s[k] # s[j]  BY <1>15, <2>1, <2>2
  <2>4. ~(s[k] < s[j])  BY <1>6, <1>15, <2>1, <2>2
  <2> QED  BY <2>2, <2>3, <2>4
<1> QED  BY <1>1, <1>14, <1>15 DEF Increases

Enumerates(s, n, S) ==
  /\ \A i \in S : i \in Nat
  /\ IsFiniteSet(S) /\ n = Cardinality(S) /\ n \in Nat
  /\ s \in [1..n -> S] /\ Increases(s, n)

HasEach(s, n, S) ==
  /\ \A j, k \in 1..n : j # k => s[j] # s[k]
  /\ \A i \in S : \E k \in 1..n : s[k] = i

LEMMA SortedHasAll ==
  ASSUME NEW S, NEW n, NEW s, Enumerates(s, n, S)
  PROVE  HasEach(s, n, S)
<1>1. /\ \A i \in S : i \in Nat
      /\ IsFiniteSet(S) /\ n = Cardinality(S) /\ n \in Nat
      /\ s \in [1..n -> S] /\ Increases(s, n)
  BY DEF Enumerates
<1>2. \A j, k \in 1..n : s[j] \in Nat /\ s[k] \in Nat  BY <1>1
<1>3. \A j, k \in 1..n : s[j] = s[k] => j = k  BY <1>1, <1>2 DEF Increases
<1>4. s \in Injection(1..n, S)  BY <1>1, <1>3 DEF Injection, IsInjective
<1>5. IsFiniteSet(1..n) /\ Cardinality(1..n) = n  BY <1>1, FS_Interval
<1>6. s \in Surjection(1..n, S)  BY <1>1, <1>4, <1>5, FS_Injection
<1> QED  BY <1>3, <1>6 DEF HasEach, Surjection

LEMMA AppendIs ==
  ASSUME NEW T, NEW s \in Seq(T), NEW e \in T, NEW a, a = Append(s, e)
  PROVE  /\ a \in Seq(T) /\ a # <<>> /\ Len(s) \in Nat /\ Len(a) = Len(s) + 1
         /\ a[Len(s) + 1] = e /\ \A i \in 1..Len(s) : a[i] = s[i]
  BY AppendProperties, LenProperties

(***************************************************************************)
(* Least and greatest members, and sequences that grow and shrink.         *)
(***************************************************************************)
LEMMA FiniteExtremes ==
  ASSUME NEW S, \A i \in S : i \in Nat, IsFiniteSet(S), S # {}
  PROVE  (\E m \in S : \A i \in S : m <= i) /\ (\E m \in S : \A i \in S : m >= i)
<1>1. PICK n \in Nat : n = Cardinality(S)  BY FS_CardinalityType
<1>2. PICK s \in [1..n -> S] : Increases(s, n)  BY <1>1, SortedExists
<1>3. \A i \in S : \E k \in 1..n : s[k] = i
  <2>1. Enumerates(s, n, S)  BY <1>1, <1>2 DEF Enumerates
  <2>2. HasEach(s, n, S)  BY <2>1, SortedHasAll
  <2> QED  BY <2>2 DEF HasEach
<1>4. n # 0  BY <1>1, FS_EmptySet
<1>5. s[1] \in S /\ s[n] \in S /\ 1 \in 1..n /\ n \in 1..n  BY <1>4
<1>6. \A k \in 1..n : s[k] \in Nat  OBVIOUS
<1>7. \A k \in 1..n : s[1] <= s[k] /\ s[n] >= s[k]
  <2> SUFFICES ASSUME NEW k \in 1..n PROVE s[1] <= s[k] /\ s[n] >= s[k]  OBVIOUS
  <2>1. s[k] \in Nat /\ s[1] \in Nat /\ s[n] \in Nat  BY <1>5, <1>6
  <2>2. k = 1 \/ s[1] < s[k]  BY <1>2, <1>5 DEF Increases
  <2>3. k = n \/ s[k] < s[n]  BY <1>2, <1>5 DEF Increases
  <2> QED  BY <2>1, <2>2, <2>3
<1>8. \A i \in S : s[1] <= i /\ s[n] >= i  BY <1>3, <1>7
<1> QED  BY <1>5, <1>8

LEMMA ExtremesAre ==
  ASSUME NEW S, NEW a \in Nat, NEW b \in Nat, S \subseteq a..b, S # {}
  PROVE  /\ Min(S) \in S /\ \A i \in S : Min(S) <= i
         /\ Max(S) \in S /\ \A i \in S : Max(S) >= i
<1>1. IsFiniteSet(S)
  <2>1. PICK I : I = a..b  OBVIOUS
  <2>2. IsFiniteSet(I)  BY <2>1, FS_Interval
  <2> QED  BY <2>1, <2>2, FS_Subset
<1>2. \A i \in S : i \in Nat  OBVIOUS
<1>3. (\E m \in S : \A i \in S : m <= i) /\ (\E m \in S : \A i \in S : m >= i)
  BY <1>1, <1>2, FiniteExtremes
<1> QED  BY <1>3 DEF Min, Max

Distinct(s) == \A a, b \in 1..Len(s) : s[a] = s[b] => a = b
In(x, s)    == \E k \in 1..Len(s) : s[k] = x

LEMMA InIsToSet ==
  ASSUME NEW T, NEW s \in Seq(T)
  PROVE  \A x : x \in ToSet(s) <=> In(x, s)
  BY LenProperties DEF ToSet, In


(* t is s with e put in place i.                                           *)
HasInserted(s, i, e, t) ==
  \A k \in 1..Len(s) + 1 : t[k] = IF k < i THEN s[k] ELSE IF k = i THEN e ELSE s[k - 1]

LEMMA InsertedIs ==
  ASSUME NEW T, NEW s \in Seq(T), NEW e \in T, NEW i \in 1..Len(s) + 1, NEW t, t = InsertAt(s, i, e)
  PROVE  t \in Seq(T) /\ Len(t) = Len(s) + 1 /\ HasInserted(s, i, e, t)
<1>1. Len(s) \in Nat /\ i \in Nat /\ \A k \in 1..Len(s) : s[k] \in T  BY LenProperties
<1>2. PICK a : a = SubSeq(s, 1, i - 1)  OBVIOUS
<1>3. PICK b : b = SubSeq(s, i, Len(s))  OBVIOUS
<1>4. \A k \in 1..i - 1 : s[k] \in T  BY <1>1
<1>5. \A k \in i..Len(s) : s[k] \in T  BY <1>1
<1>6. a \in Seq(T) /\ Len(a) = i - 1 /\ \A k \in 1..i - 1 : a[k] = s[k]
  <2>1. i - 1 \in Int /\ 1 \in Int /\ (1 <= i - 1 \/ i - 1 = 0)  BY <1>1
  <2>2. /\ a \in Seq(T)
        /\ Len(a) = IF 1 <= i - 1 THEN (i - 1) - 1 + 1 ELSE 0
        /\ \A k \in 1..(i - 1) - 1 + 1 : a[k] = s[1 + k - 1]
    BY <1>2, <1>4, <2>1, SubSeqProperties
  <2>3. (i - 1) - 1 + 1 = i - 1 /\ \A k \in 1..(i - 1) : 1 + k - 1 = k  BY <1>1
  <2> QED  BY <2>1, <2>2, <2>3
<1>7. b \in Seq(T) /\ Len(b) = Len(s) - i + 1 /\ \A k \in 1..Len(s) - i + 1 : b[k] = s[i + k - 1]
  <2>1. i \in Int /\ Len(s) \in Int /\ (i <= Len(s) \/ (i = Len(s) + 1 /\ Len(s) - i + 1 = 0))  BY <1>1
  <2>2. /\ b \in Seq(T)
        /\ Len(b) = IF i <= Len(s) THEN Len(s) - i + 1 ELSE 0
        /\ \A k \in 1..Len(s) - i + 1 : b[k] = s[i + k - 1]
    BY <1>3, <1>5, <2>1, SubSeqProperties
  <2> QED  BY <1>1, <2>1, <2>2
<1>8. PICK c : c = Append(a, e)  OBVIOUS
<1>9. /\ c = a \o <<e>> /\ c \in Seq(T) /\ Len(c) = i /\ c[i] = e
      /\ \A k \in 1..i - 1 : c[k] = s[k]
  <2>1. Append(a, e) = a \o <<e>>  BY <1>6, AppendIsConcat
  <2>2. /\ c \in Seq(T) /\ Len(c) = Len(a) + 1 /\ c[Len(a) + 1] = e
        /\ \A k \in 1..Len(a) : c[k] = a[k]
    BY <1>6, <1>8, AppendProperties
  <2>3. Len(a) + 1 = i  BY <1>1, <1>6
  <2> QED  BY <1>6, <1>8, <2>1, <2>2, <2>3
<1>10. t = c \o b  BY <1>2, <1>3, <1>9 DEF InsertAt
<1>11. /\ t \in Seq(T) /\ Len(t) = Len(c) + Len(b)
       /\ \A k \in 1..Len(c) + Len(b) : t[k] = IF k <= Len(c) THEN c[k] ELSE b[k - Len(c)]
  <2>1. c \in Seq(T) /\ b \in Seq(T)  BY <1>7, <1>9
  <2> QED  BY <1>10, <2>1, ConcatProperties
<1>12. Len(c) + Len(b) = Len(s) + 1
  <2>1. Len(c) = i /\ Len(b) = Len(s) - i + 1  BY <1>7, <1>9
  <2> QED  BY <1>1, <2>1
<1>13. ASSUME NEW k \in 1..Len(s) + 1
       PROVE  t[k] = IF k < i THEN s[k] ELSE IF k = i THEN e ELSE s[k - 1]
  <2>1. k \in Nat /\ t[k] = IF k <= i THEN c[k] ELSE b[k - i]  BY <1>9, <1>11, <1>12
  <2>2. CASE k < i  BY <1>1, <1>9, <2>1, <2>2
  <2>3. CASE k = i  BY <1>1, <1>9, <2>1, <2>3
  <2>4. CASE k > i
    <3>1. k \in Nat /\ k <= Len(s) + 1 /\ Len(s) \in Nat /\ i \in Nat  BY <1>1, <2>1
    <3>2. k - i \in 1..Len(s) - i + 1 /\ i + (k - i) - 1 = k - 1  BY <2>4, <3>1
    <3> QED  BY <1>1, <1>7, <2>1, <2>4, <3>2
  <2> QED  BY <1>1, <2>1, <2>2, <2>3, <2>4
<1> QED  BY <1>11, <1>12, <1>13 DEF HasInserted

LEMMA InsertedHas ==
  ASSUME NEW T, NEW s \in Seq(T), Distinct(s), NEW e \in T, ~In(e, s), NEW p \in 1..Len(s) + 1,
         NEW t, t = InsertAt(s, p, e)
  PROVE  /\ t \in Seq(T) /\ Len(t) = Len(s) + 1 /\ HasInserted(s, p, e, t) /\ Distinct(t)
         /\ \A x : In(x, t) <=> x = e \/ In(x, s)
<1>1. PICK m \in Nat : m = Len(s)  BY LenProperties
<1>2. t \in Seq(T) /\ Len(t) = m + 1 /\ HasInserted(s, p, e, t)
  <2>1. t \in Seq(T) /\ Len(t) = Len(s) + 1 /\ HasInserted(s, p, e, t)  BY InsertedIs
  <2> QED  BY <1>1, <2>1
<1>9. p \in Nat /\ p \in 1..m + 1  BY <1>1
<1>3. \A k \in 1..m + 1 : t[k] = IF k < p THEN s[k] ELSE IF k = p THEN e ELSE s[k - 1]
  BY <1>1, <1>2 DEF HasInserted
<1>4. Distinct(s) /\ \A k \in 1..m : s[k] # e  BY <1>1 DEF In
<1> DEFINE Was(k) == IF k < p THEN k ELSE k - 1
<1>5. ASSUME NEW k \in 1..m + 1, k # p PROVE Was(k) \in 1..m /\ t[k] = s[Was(k)]
  <2>1. CASE k < p  BY <1>9, <1>3, <2>1
  <2>2. CASE k > p  BY <1>9, <1>3, <2>2
  <2> QED  BY <1>9, <1>5, <2>1, <2>2
<1>6. t[p] = e  BY <1>9, <1>3
<1>7. Distinct(t)
  <2> SUFFICES ASSUME NEW a \in 1..m + 1, NEW c \in 1..m + 1, t[a] = t[c] PROVE a = c  BY <1>2 DEF Distinct
  <2>1. CASE a # p /\ c # p
    <3>1. Was(a) \in 1..m /\ Was(c) \in 1..m /\ s[Was(a)] = s[Was(c)]  BY <1>5, <2>1
    <3>2. Was(a) = Was(c)  BY <1>1, <1>4, <3>1 DEF Distinct
    <3> QED  BY <1>9, <2>1, <3>2
  <2>2. CASE a = p \/ c = p  BY <1>4, <1>5, <1>6, <2>2
  <2> QED  BY <2>1, <2>2
<1>8. ASSUME NEW x PROVE In(x, t) <=> x = e \/ In(x, s)
  <2>1. ASSUME In(x, t) PROVE x = e \/ In(x, s)  BY <1>1, <1>2, <1>5, <1>6, <2>1 DEF In
  <2>2. ASSUME x = e PROVE In(x, t)  BY <1>9, <1>2, <1>6, <2>2 DEF In
  <2>3. ASSUME In(x, s) PROVE In(x, t)
    <3>1. PICK k \in 1..m : s[k] = x  BY <1>1, <2>3 DEF In
    <3>2. CASE k < p
      <4>1. k \in 1..m + 1 /\ t[k] = s[k]  BY <1>9, <1>3, <3>2
      <4> QED  BY <1>2, <3>1, <4>1 DEF In
    <3>3. CASE k >= p
      <4>1. k + 1 \in 1..m + 1 /\ k + 1 # p /\ Was(k + 1) = k  BY <1>9, <3>3
      <4>2. t[k + 1] = s[k]  BY <1>5, <4>1
      <4> QED  BY <1>2, <3>1, <4>1, <4>2 DEF In
    <3> QED  BY <1>9, <3>2, <3>3
  <2> QED  BY <2>1, <2>2, <2>3
<1> QED  BY <1>1, <1>2, <1>7, <1>8

LEMMA RemovedIs ==
  ASSUME NEW T, NEW s \in Seq(T), NEW i \in 1..Len(s), NEW t, t = RemoveAt(s, i)
  PROVE  /\ t \in Seq(T) /\ Len(t) = Len(s) - 1
         /\ \A k \in 1..Len(s) - 1 : t[k] = IF k < i THEN s[k] ELSE s[k + 1]
<1>1. Len(s) \in Nat /\ i \in Nat /\ \A k \in 1..Len(s) : s[k] \in T  BY LenProperties
<1>2. PICK a : a = SubSeq(s, 1, i - 1)  OBVIOUS
<1>3. PICK b : b = SubSeq(s, i + 1, Len(s))  OBVIOUS
<1>4. \A k \in 1..i - 1 : s[k] \in T  BY <1>1
<1>5. \A k \in i + 1..Len(s) : s[k] \in T  BY <1>1
<1>6. a \in Seq(T) /\ Len(a) = i - 1 /\ \A k \in 1..i - 1 : a[k] = s[k]
  <2>1. i - 1 \in Int /\ 1 \in Int /\ (1 <= i - 1 \/ i - 1 = 0)  BY <1>1
  <2>2. /\ a \in Seq(T)
        /\ Len(a) = IF 1 <= i - 1 THEN (i - 1) - 1 + 1 ELSE 0
        /\ \A k \in 1..(i - 1) - 1 + 1 : a[k] = s[1 + k - 1]
    BY <1>2, <1>4, <2>1, SubSeqProperties
  <2>3. (i - 1) - 1 + 1 = i - 1 /\ \A k \in 1..(i - 1) : 1 + k - 1 = k  BY <1>1
  <2> QED  BY <2>1, <2>2, <2>3
<1>7. b \in Seq(T) /\ Len(b) = Len(s) - i /\ \A k \in 1..Len(s) - i : b[k] = s[i + k]
  <2>1. i + 1 \in Int /\ Len(s) \in Int /\ (i + 1 <= Len(s) \/ (i = Len(s) /\ Len(s) - i = 0))  BY <1>1
  <2>2. /\ b \in Seq(T)
        /\ Len(b) = IF i + 1 <= Len(s) THEN Len(s) - (i + 1) + 1 ELSE 0
        /\ \A k \in 1..Len(s) - (i + 1) + 1 : b[k] = s[(i + 1) + k - 1]
    BY <1>3, <1>5, <2>1, SubSeqProperties
  <2>3. Len(s) - (i + 1) + 1 = Len(s) - i /\ \A k \in 1..Len(s) - i : (i + 1) + k - 1 = i + k  BY <1>1
  <2> QED  BY <1>1, <2>1, <2>2, <2>3
<1>8. t = a \o b  BY <1>2, <1>3 DEF RemoveAt
<1>9. /\ t \in Seq(T) /\ Len(t) = Len(a) + Len(b)
      /\ \A k \in 1..Len(a) + Len(b) : t[k] = IF k <= Len(a) THEN a[k] ELSE b[k - Len(a)]
  <2>1. a \in Seq(T) /\ b \in Seq(T)  BY <1>6, <1>7
  <2> QED  BY <1>8, <2>1, ConcatProperties
<1>10. Len(a) + Len(b) = Len(s) - 1  BY <1>1, <1>6, <1>7
<1>11. ASSUME NEW k \in 1..Len(s) - 1 PROVE t[k] = IF k < i THEN s[k] ELSE s[k + 1]
  <2>1. k \in Nat /\ t[k] = IF k <= i - 1 THEN a[k] ELSE b[k - (i - 1)]  BY <1>6, <1>9, <1>10
  <2>2. CASE k < i  BY <1>1, <1>6, <2>1, <2>2
  <2>3. CASE k >= i
    <3>1. k - (i - 1) \in 1..Len(s) - i /\ i + (k - (i - 1)) = k + 1  BY <1>1, <2>1, <2>3
    <3> QED  BY <1>1, <1>7, <2>1, <2>3, <3>1
  <2> QED  BY <1>1, <2>1, <2>2, <2>3
<1> QED  BY <1>9, <1>10, <1>11

LEMMA RemovedHas ==
  ASSUME NEW T, NEW s \in Seq(T), Distinct(s), NEW p \in 1..Len(s), NEW t, t = RemoveAt(s, p)
  PROVE  /\ t \in Seq(T) /\ Distinct(t)
         /\ \A x : In(x, t) <=> x # s[p] /\ In(x, s)
<1>1. PICK m \in Nat : m = Len(s)  BY LenProperties
<1>2. /\ t \in Seq(T) /\ Len(t) = m - 1
      /\ \A k \in 1..m - 1 : t[k] = IF k < p THEN s[k] ELSE s[k + 1]
  BY <1>1, RemovedIs
<1>3. p \in Nat /\ p \in 1..m  BY <1>1
<1> DEFINE Was(k) == IF k < p THEN k ELSE k + 1
<1>4. ASSUME NEW k \in 1..m - 1 PROVE Was(k) \in 1..m /\ Was(k) # p /\ t[k] = s[Was(k)]  BY <1>2, <1>3
<1>5. \A a, b \in 1..m - 1 : (Was(a) = Was(b) => a = b) /\ (a < b => Was(a) < Was(b))  BY <1>3
<1> HIDE DEF Was
<1>6. Distinct(t)  BY <1>1, <1>2, <1>4, <1>5 DEF Distinct
<1>8. ASSUME NEW x PROVE In(x, t) <=> x # s[p] /\ In(x, s)
  <2>1. ASSUME In(x, t) PROVE x # s[p] /\ In(x, s)
    <3>1. PICK k \in 1..m - 1 : t[k] = x  BY <1>2, <2>1 DEF In
    <3> QED  BY <1>1, <1>3, <1>4, <3>1 DEF In, Distinct
  <2>2. ASSUME x # s[p], In(x, s) PROVE In(x, t)
    <3>1. PICK k \in 1..m : s[k] = x /\ k # p  BY <1>1, <2>2 DEF In
    <3>2. PICK l \in 1..m - 1 : Was(l) = k
      <4>1. CASE k < p
        <5>1. k \in 1..m - 1 /\ Was(k) = k  BY <1>3, <4>1 DEF Was
        <5> QED  BY <5>1
      <4>2. CASE k > p
        <5>1. k - 1 \in 1..m - 1 /\ Was(k - 1) = k  BY <1>3, <4>2 DEF Was
        <5> QED  BY <5>1
      <4> QED  BY <1>3, <3>1, <4>1, <4>2
    <3> QED  BY <1>2, <1>4, <3>1, <3>2 DEF In
  <2> QED  BY <2>1, <2>2
<1> QED  BY <1>2, <1>6, <1>8

LEMMA DroppedIs ==
  ASSUME NEW T, NEW s \in Seq(T), NEW n \in 0..Len(s), NEW t, t = SubSeq(s, n + 1, Len(s))
  PROVE  t \in Seq(T) /\ Len(t) = Len(s) - n /\ \A k \in 1..Len(s) - n : t[k] = s[n + k]
<1>1. Len(s) \in Nat /\ n \in Nat /\ \A k \in 1..Len(s) : s[k] \in T  BY LenProperties
<1>2. n + 1 \in Int /\ Len(s) \in Int /\ (n + 1 <= Len(s) \/ (n = Len(s) /\ Len(s) - n = 0))  BY <1>1
<1>3. \A k \in n + 1..Len(s) : s[k] \in T  BY <1>1
<1>4. /\ t \in Seq(T)
      /\ Len(t) = IF n + 1 <= Len(s) THEN Len(s) - (n + 1) + 1 ELSE 0
      /\ \A k \in 1..Len(s) - (n + 1) + 1 : t[k] = s[(n + 1) + k - 1]
  BY <1>2, <1>3, SubSeqProperties
<1>5. Len(s) - (n + 1) + 1 = Len(s) - n /\ \A k \in 1..Len(s) - n : (n + 1) + k - 1 = n + k  BY <1>1
<1> QED  BY <1>1, <1>2, <1>4, <1>5

First(s, n) == {s[k] : k \in 1..n}

(* The first n of a line of different requests are n.                      *)
LEMMA FirstCount ==
  ASSUME NEW T, NEW s \in Seq(T), Distinct(s), NEW n \in 0..Len(s)
  PROVE  First(s, n) \subseteq T /\ IsFiniteSet(First(s, n)) /\ Cardinality(First(s, n)) = n
<1>1. PICK m \in Nat : m = Len(s) /\ \A k \in 1..m : s[k] \in T  BY LenProperties
<1>2. n \in Nat /\ \A k \in 1..n : k \in 1..m  BY <1>1
<1>3. PICK F : F = First(s, n)  OBVIOUS
<1>4. PICK f : f = [k \in 1..n |-> s[k]]  OBVIOUS
<1>5. f \in Surjection(1..n, F)  BY <1>3, <1>4 DEF Surjection, First
<1>6. IsFiniteSet(1..n) /\ Cardinality(1..n) = n  BY <1>2, FS_Interval
<1>7. \A a, b \in 1..n : f[a] = f[b] => a = b  BY <1>1, <1>2, <1>4 DEF Distinct
<1>8. f \in Injection(1..n, F)  BY <1>5, <1>7 DEF Injection, Surjection, IsInjective
<1>9. IsFiniteSet(F) /\ Cardinality(F) = n
  <2>1. PICK I : I = 1..n  OBVIOUS
  <2>2. IsFiniteSet(I) /\ Cardinality(I) = n /\ f \in Surjection(I, F) /\ f \in Injection(I, F)  BY <1>5, <1>6, <1>8, <2>1
  <2> QED  BY <2>2, FS_Surjection
<1>10. F \subseteq T  BY <1>1, <1>2, <1>3 DEF First
<1> QED  BY <1>3, <1>9, <1>10

(* A sequence without its first n.                                         *)
LEMMA DroppedHas ==
  ASSUME NEW T, NEW s \in Seq(T), Distinct(s), NEW n \in 0..Len(s), NEW t, t = SubSeq(s, n + 1, Len(s))
  PROVE  t \in Seq(T) /\ Distinct(t) /\ \A x : In(x, t) <=> In(x, s) /\ x \notin First(s, n)
<1>1. PICK m \in Nat : m = Len(s)  BY LenProperties
<1>2. t \in Seq(T) /\ Len(t) = m - n /\ \A k \in 1..m - n : t[k] = s[n + k]  BY <1>1, DroppedIs
<1>3. n \in Nat /\ n \in 0..m /\ \A k \in 1..m - n : n + k \in 1..m /\ n + k > n  BY <1>1
<1>4. Distinct(t)
  <2> SUFFICES ASSUME NEW a \in 1..m - n, NEW b \in 1..m - n, t[a] = t[b] PROVE a = b  BY <1>2 DEF Distinct
  <2>1. n + a = n + b  BY <1>1, <1>2, <1>3 DEF Distinct
  <2> QED  BY <1>3, <2>1
<1>6. ASSUME NEW x PROVE In(x, t) <=> In(x, s) /\ x \notin First(s, n)
  <2>1. ASSUME In(x, t) PROVE In(x, s) /\ x \notin First(s, n)
    <3>1. PICK k \in 1..m - n : t[k] = x  BY <1>2, <2>1 DEF In
    <3>2. n + k \in 1..m /\ s[n + k] = x /\ n + k > n  BY <1>2, <1>3, <3>1
    <3>3. \A i \in 1..n : i \in 1..m /\ i # n + k  BY <1>3, <3>2
    <3> QED  BY <1>1, <3>2, <3>3 DEF In, Distinct, First
  <2>2. ASSUME In(x, s), x \notin First(s, n) PROVE In(x, t)
    <3>1. PICK k \in 1..m : s[k] = x  BY <1>1, <2>2 DEF In
    <3>2. k \notin 1..n  BY <2>2, <3>1 DEF First
    <3>3. k - n \in 1..m - n /\ n + (k - n) = k  BY <1>3, <3>2
    <3> QED  BY <1>2, <3>1, <3>3 DEF In
  <2> QED  BY <2>1, <2>2
<1> QED  BY <1>2, <1>4, <1>6

(***************************************************************************)
(* What a sequence has at a set of its places.                             *)
(***************************************************************************)
SiftedTo(s, places, t) ==
  /\ Len(t) = Cardinality(places) /\ Len(t) <= Len(s)
  /\ \A x : In(x, t) <=> \E k \in places : s[k] = x
  /\ Distinct(s) => Distinct(t)

ArePlaces(places, s) == \A k \in places : k \in 1..Len(s)

LEMMA AtPlacesIs ==
  ASSUME NEW T, NEW s \in Seq(T), NEW places, ArePlaces(places, s), NEW t, t = AtPlaces(s, places)
  PROVE  t \in Seq(T) /\ SiftedTo(s, places, t)
<1>1. PICK m \in Nat : m = Len(s) /\ \A k \in 1..m : s[k] \in T  BY LenProperties
<1>2. (\A k \in places : k \in Nat) /\ \A k \in places : k \in 1..m  BY <1>1 DEF ArePlaces
<1>3. IsFiniteSet(places) /\ Cardinality(places) <= m
  <2>1. PICK I : I = 1..m  OBVIOUS
  <2>2. IsFiniteSet(I) /\ Cardinality(I) = m  BY <2>1, FS_Interval
  <2>3. places \in SUBSET I  BY <1>2, <2>1
  <2> QED  BY <2>2, <2>3, FS_Subset
<1>4. PICK n \in Nat : n = Cardinality(places)  BY <1>3, FS_CardinalityType
<1>5. PICK p : p = CHOOSE q \in [1..n -> places] : \A j, k \in 1..n : j < k => q[j] < q[k]  OBVIOUS
<1>6. \E q \in [1..n -> places] : \A j, k \in 1..n : j < k => q[j] < q[k]
  BY <1>2, <1>3, <1>4, SortedExists DEF Increases
<1>7. p \in [1..n -> places] /\ Increases(p, n)  BY <1>5, <1>6 DEF Increases
<1>8. /\ \A j, k \in 1..n : j # k => p[j] # p[k]
      /\ \A i \in places : \E k \in 1..n : p[k] = i
  <2>1. Enumerates(p, n, places)  BY <1>2, <1>3, <1>4, <1>7 DEF Enumerates
  <2>2. HasEach(p, n, places)  BY <2>1, SortedHasAll
  <2> QED  BY <2>2 DEF HasEach
<1>9. t = [k \in 1..n |-> s[p[k]]]  BY <1>4, <1>5 DEF AtPlaces
<1>10. \A k \in 1..n : p[k] \in places /\ p[k] \in 1..m /\ t[k] = s[p[k]]  BY <1>2, <1>7, <1>9
<1>11. t \in [1..n -> T]  BY <1>1, <1>9, <1>10
<1>12. t \in Seq(T) /\ Len(t) = n  BY <1>4, <1>11
<1>13. ASSUME NEW x PROVE In(x, t) <=> \E k \in places : s[k] = x  BY <1>8, <1>10, <1>12 DEF In
<1>14. Distinct(s) => Distinct(t)
  <2> SUFFICES ASSUME Distinct(s), NEW a \in 1..n, NEW b \in 1..n, t[a] = t[b] PROVE a = b  BY <1>12 DEF Distinct
  <2>1. p[a] = p[b]  BY <1>1, <1>10 DEF Distinct
  <2> QED  BY <1>8, <2>1
<1> QED  BY <1>1, <1>3, <1>4, <1>12, <1>13, <1>14 DEF SiftedTo

LEMMA AppendHas ==
  ASSUME NEW T, NEW s \in Seq(T), Distinct(s), NEW e \in T, ~In(e, s), NEW t, t = Append(s, e)
  PROVE  t \in Seq(T) /\ Distinct(t) /\ \A x : In(x, t) <=> x = e \/ In(x, s)
<1>1. PICK n \in Nat : n = Len(s)  BY LenProperties
<1>2. t \in Seq(T) /\ Len(t) = n + 1 /\ t[n + 1] = e /\ \A i \in 1..n : t[i] = s[i]  BY <1>1, AppendIs
<1>3. \A k \in 1..n + 1 : k \in 1..n \/ k = n + 1  OBVIOUS
<1>4. \A k \in 1..n : k \in 1..n + 1  OBVIOUS
<1>5. n + 1 \in 1..n + 1  OBVIOUS
<1>6. Distinct(t)  BY <1>1, <1>2, <1>3 DEF Distinct, In
<1>7. \A x : In(x, t) <=> x = e \/ In(x, s)  BY <1>1, <1>2, <1>3, <1>4, <1>5 DEF In
<1> QED  BY <1>2, <1>6, <1>7

(* A sequence of different members has as many as it is long.              *)
LEMMA DistinctCount ==
  ASSUME NEW T, NEW s \in Seq(T), Distinct(s)
  PROVE  IsFiniteSet(ToSet(s)) /\ Cardinality(ToSet(s)) = Len(s)
<1>1. PICK n \in Nat : n = Len(s)  BY LenProperties
<1>2. n \in 0..Len(s)  BY <1>1
<1>3. IsFiniteSet(First(s, n)) /\ Cardinality(First(s, n)) = n  BY <1>2, FirstCount
<1>4. DOMAIN s = 1..n  BY <1>1, LenProperties
<1>5. First(s, n) = ToSet(s)  BY <1>4 DEF First, ToSet
<1> QED  BY <1>1, <1>3, <1>5

PlaceOf(e, s) == SelectInSeq(s, LAMBDA v : v = e)

LEMMA FirstPlace ==
  ASSUME NEW T, NEW s \in Seq(T), NEW e, In(e, s)
  PROVE  /\ PlaceOf(e, s) \in 1..Len(s) /\ s[PlaceOf(e, s)] = e
         /\ \A j \in 1..Len(s) : j < PlaceOf(e, s) => s[j] # e
<1>1. PICK n \in Nat : n = Len(s)  BY LenProperties
<1>2. PICK I : I = {i \in 1..n : s[i] = e}  OBVIOUS
<1>3. I \subseteq 1..n /\ I # {}  BY <1>1, <1>2 DEF In
<1>4. PICK m : m = Min(I)  OBVIOUS
<1>5. Min(I) \in I /\ \A i \in I : Min(I) <= i  BY <1>3, ExtremesAre
<1>6. PlaceOf(e, s) = m  BY <1>1, <1>2, <1>3, <1>4 DEF SelectInSeq, PlaceOf
<1>7. m \in 1..n /\ s[m] = e /\ \A j \in 1..n : j < m => s[j] # e
  <2>1. m \in I /\ \A i \in I : m <= i  BY <1>4, <1>5
  <2>2. m \in 1..n /\ s[m] = e  BY <1>2, <2>1
  <2>3. ASSUME NEW j \in 1..n, j < m, s[j] = e PROVE FALSE
    <3>1. j \in I  BY <1>2, <2>3
    <3>2. m <= j /\ m \in Nat /\ j \in Nat  BY <2>1, <2>2, <3>1
    <3> QED  BY <2>3, <3>2
  <2> QED  BY <2>2, <2>3
<1> QED  BY <1>1, <1>6, <1>7

LEMMA RemovedFirstHas ==
  ASSUME NEW T, NEW s \in Seq(T), Distinct(s), NEW e, NEW t, t = RemoveFirst(s, e)
  PROVE  t \in Seq(T) /\ Distinct(t) /\ \A x : In(x, t) <=> x # e /\ In(x, s)
<1>1. CASE In(e, s)
  <2>1. PICK p : p = PlaceOf(e, s)  OBVIOUS
  <2>2. p \in 1..Len(s) /\ s[p] = e  BY <1>1, <2>1, FirstPlace
  <2>3. t = RemoveAt(s, p)  BY <1>1, <2>1 DEF RemoveFirst, In, PlaceOf
  <2> QED  BY <2>2, <2>3, RemovedHas
<1>2. CASE ~In(e, s)
  <2>1. t = s  BY <1>2 DEF RemoveFirst, In
  <2> QED  BY <1>2, <2>1
<1> QED  BY <1>1, <1>2
LEMMA AtPlacesBy ==
  ASSUME NEW T, NEW s \in Seq(T), NEW places, ArePlaces(places, s), NEW t, t = AtPlaces(s, places)
  PROVE  \E p : /\ Enumerates(p, Cardinality(places), places)
                /\ t = [k \in 1..Cardinality(places) |-> s[p[k]]]
<1>1. PICK m \in Nat : m = Len(s)  BY LenProperties
<1>2. (\A k \in places : k \in Nat) /\ \A k \in places : k \in 1..m  BY <1>1 DEF ArePlaces
<1>3. IsFiniteSet(places)
  <2>1. PICK I : I = 1..m  OBVIOUS
  <2>2. IsFiniteSet(I)  BY <2>1, FS_Interval
  <2>3. places \in SUBSET I  BY <1>2, <2>1
  <2> QED  BY <2>2, <2>3, FS_Subset
<1>4. PICK n \in Nat : n = Cardinality(places)  BY <1>3, FS_CardinalityType
<1>5. PICK p : p = CHOOSE q \in [1..n -> places] : \A j, k \in 1..n : j < k => q[j] < q[k]  OBVIOUS
<1>6. \E q \in [1..n -> places] : \A j, k \in 1..n : j < k => q[j] < q[k]
  BY <1>2, <1>3, <1>4, SortedExists DEF Increases
<1>7. p \in [1..n -> places] /\ Increases(p, n)  BY <1>5, <1>6 DEF Increases
<1>8. Enumerates(p, n, places)  BY <1>2, <1>3, <1>4, <1>7 DEF Enumerates
<1>9. t = [k \in 1..n |-> s[p[k]]]  BY <1>4, <1>5 DEF AtPlaces
<1> QED  BY <1>4, <1>8, <1>9

(* One member is before another.                                           *)
Before(s, x, y) == \E j, k \in 1..Len(s) : j < k /\ s[j] = x /\ s[k] = y

LEMMA SiftedInOrder ==
  ASSUME NEW T, NEW s \in Seq(T), NEW places, ArePlaces(places, s), NEW t, t = AtPlaces(s, places),
         NEW j \in places, NEW k \in places, j < k
  PROVE  Before(t, s[j], s[k])
<1>1. PICK n : n = Cardinality(places)  OBVIOUS
<1>2. PICK p : Enumerates(p, n, places) /\ t = [i \in 1..n |-> s[p[i]]]  BY <1>1, AtPlacesBy
<1>3. HasEach(p, n, places)  BY <1>2, SortedHasAll
<1>4. n \in Nat /\ (\A i \in places : i \in Nat) /\ p \in [1..n -> places] /\ Increases(p, n)
  BY <1>2 DEF Enumerates
<1>5. PICK a, b \in 1..n : p[a] = j /\ p[b] = k  BY <1>3 DEF HasEach
<1>6. a < b
  <2>1. CASE a = b  BY <1>4, <1>5, <2>1
  <2>2. CASE b < a
    <3>1. p[b] < p[a]  BY <1>4, <2>2 DEF Increases
    <3> QED  BY <1>4, <1>5, <3>1
  <2> QED  BY <1>4, <2>1, <2>2
<1>7. t[a] = s[j] /\ t[b] = s[k]  BY <1>2, <1>5
<1>8. Len(t) = n
  <2>1. PICK m \in Nat : m = Len(s) /\ \A i \in 1..m : s[i] \in T  BY LenProperties
  <2>2. \A i \in 1..n : s[p[i]] \in T  BY <1>4, <2>1 DEF ArePlaces
  <2>3. t \in [1..n -> T]  BY <1>2, <2>2
  <2> QED  BY <1>4, <2>3
<1> QED  BY <1>6, <1>7, <1>8 DEF Before
=============================================================================
