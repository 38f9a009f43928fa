---------------------------- MODULE QtcWindow_proofs ----------------------------
(***************************************************************************)
(* Theorems about QTC traffic, for every setup, any number of stations,    *)
(* and blocks of any length.                                               *)
(***************************************************************************)
EXTENDS QtcWindow, FiniteSetTheorems, WellFoundedInduction, TLAPS

-----------------------------------------------------------------------------
(* Numbers.                                                                *)

(* A set of numbers that is not empty has a least member. *)
LEMMA MinIs ==
    ASSUME NEW S \in SUBSET Nat, S # {}
    PROVE  Min(S) \in S /\ \A x \in S : Min(S) <= x
<1> DEFINE R == OpToRel(<, Nat)
<1>1. IsWellFoundedOn(R, Nat)
  BY NatLessThanWellFounded
<1>2. \A m, n \in Nat : m < n => <<m, n>> \in R
  BY DEF OpToRel
<1> HIDE DEF R
<1>3. PICK n \in S : \A m \in S : <<m, n>> \notin R
  BY <1>1, WFMin
<1>4. ASSUME NEW m \in S PROVE n <= m
  <2>1. m \in Nat /\ n \in Nat /\ ~(m < n)
    BY <1>2, <1>3
  <2> QED  BY <2>1
<1> QED  BY <1>3, <1>4 DEF Min

(* A set that has 0, and with each number the next one, has all numbers. *)
LEMMA NumbersInduction ==
    ASSUME NEW S, 0 \in S, \A n \in Nat : n \in S => n + 1 \in S
    PROVE  Nat \subseteq S
<1> DEFINE T == Nat \ S
<1> SUFFICES ASSUME T # {} PROVE FALSE
  OBVIOUS
<1>1. Min(T) \in T /\ \A x \in T : Min(T) <= x
  BY MinIs
<1> DEFINE m == Min(T)
<1>2. m \in Nat /\ m \notin S /\ \A x \in T : m <= x
  BY <1>1
<1> HIDE DEF m
<1>3. m # 0 /\ m - 1 \in Nat /\ (m - 1) + 1 = m /\ ~(m <= m - 1)
  BY <1>2
<1>4. m - 1 \in S
  BY <1>2, <1>3
<1> QED  BY <1>2, <1>3, <1>4

(* A finite set of numbers is bounded. *)
LEMMA FiniteIsBounded ==
    ASSUME NEW S \in SUBSET Nat, IsFiniteSet(S)
    PROVE  \E b \in Nat : \A x \in S : x <= b
<1> DEFINE A == {n \in Nat : \A T \in SUBSET S : Cardinality(T) = n =>
                                 \E b \in Nat : \A x \in T : x <= b}
<1>1. \A T \in SUBSET S : IsFiniteSet(T) /\ Cardinality(T) \in Nat
  BY FS_Subset, FS_CardinalityType
<1>2. 0 \in A
  BY <1>1, FS_EmptySet
<1>3. ASSUME NEW n \in Nat, n \in A
      PROVE  n + 1 \in A
  <2> SUFFICES ASSUME NEW T \in SUBSET S, Cardinality(T) = n + 1
               PROVE  \E b \in Nat : \A x \in T : x <= b
    OBVIOUS
  <2>1. T # {}
    BY <1>1, FS_EmptySet
  <2>2. PICK y \in T : TRUE
    BY <2>1
  <2>3. Cardinality(T \ {y}) = n /\ T \ {y} \in SUBSET S /\ y \in Nat
    BY <1>1, <2>2, FS_RemoveElement
  <2>4. PICK b \in Nat : \A x \in T \ {y} : x <= b
    BY <1>3, <2>3
  <2>5. \A x \in T : x <= (IF b < y THEN y ELSE b)
    BY <2>3, <2>4
  <2> QED  BY <2>3, <2>5
<1> HIDE DEF A
<1>4. Cardinality(S) \in A
  BY <1>1, <1>2, <1>3, NumbersInduction
<1> QED  BY <1>4 DEF A

(* A finite set of numbers that is not empty has a greatest member. *)
LEMMA MaxIs ==
    ASSUME NEW S \in SUBSET Nat, IsFiniteSet(S), S # {}
    PROVE  Max(S) \in S /\ \A x \in S : x <= Max(S)
<1>1. PICK b \in Nat : \A x \in S : x <= b
  BY FiniteIsBounded
<1> DEFINE D == {b - x : x \in S}
<1>2. D \in SUBSET Nat /\ D # {}
  <2>1. \A x \in S : x \in Nat /\ b - x \in Nat
    BY <1>1
  <2> QED  BY <2>1
<1>3. PICK x \in S : Min(D) = b - x
  BY <1>2, MinIs
<1>4. \A y \in S : b - x <= b - y
  BY <1>2, <1>3, MinIs
<1>5. \A y \in S : x >= y
  BY <1>1, <1>4
<1>6. \A y \in S : Max(S) >= y /\ Max(S) \in S
  BY <1>3, <1>5 DEF Max
<1> QED  BY <1>6

LEMMA MinOfTwo ==
    ASSUME NEW a \in Nat, NEW b \in Nat
    PROVE  Min({a, b}) = IF a <= b THEN a ELSE b
<1>1. Min({a, b}) \in {a, b} /\ Min({a, b}) <= a /\ Min({a, b}) <= b
  BY MinIs
<1> QED  BY <1>1

LEMMA MaxOfTwo ==
    ASSUME NEW a \in Nat, NEW b \in Nat
    PROVE  Max({a, b}) = IF a <= b THEN b ELSE a
<1>1. IsFiniteSet({a, b})
  <2>1. IsFiniteSet({a}) /\ {a, b} = {a} \cup {b}
    BY FS_Singleton
  <2> QED  BY <2>1, FS_AddElement
<1>2. Max({a, b}) \in {a, b} /\ a <= Max({a, b}) /\ b <= Max({a, b})
  BY <1>1, MaxIs
<1> QED  BY <1>2

-----------------------------------------------------------------------------
(* Loops over numbered lines.                                              *)

Increasing(s, n) == \A i, j \in 1..n : i < j => s[i] < s[j]

(* A loop meets each member of a finite set of numbers once, in order. *)
LEMMA InOrderIs ==
    ASSUME NEW S \in SUBSET Nat, IsFiniteSet(S)
    PROVE  /\ Cardinality(S) \in Nat
           /\ InOrder(S) \in [1..Cardinality(S) -> S]
           /\ Increasing(InOrder(S), Cardinality(S))
           /\ \A x \in S : \E i \in 1..Cardinality(S) : InOrder(S)[i] = x
<1> DEFINE A == {n \in Nat : \A T \in SUBSET S : Cardinality(T) = n =>
                                 \E s \in [1..n -> T] : Increasing(s, n)}
<1>1. \A T \in SUBSET S : IsFiniteSet(T) /\ Cardinality(T) \in Nat
  BY FS_Subset, FS_CardinalityType
<1>2. 0 \in A
  <2>1. ASSUME NEW T PROVE \E s \in [1..0 -> T] : Increasing(s, 0)
    <3>1. [i \in 1..0 |-> i] \in [1..0 -> T] /\ Increasing([i \in 1..0 |-> i], 0)
      BY DEF Increasing
    <3> QED  BY <3>1
  <2> QED  BY <2>1
<1>3. ASSUME NEW n \in Nat, n \in A
      PROVE  n + 1 \in A
  <2> SUFFICES ASSUME NEW T \in SUBSET S, Cardinality(T) = n + 1
               PROVE  \E s \in [1..(n + 1) -> T] : Increasing(s, n + 1)
    OBVIOUS
  <2>1. T # {} /\ T \in SUBSET Nat /\ IsFiniteSet(T)
    BY <1>1, FS_EmptySet
  <2> DEFINE m == Max(T)
  <2>2. m \in T /\ \A x \in T : x <= m
    BY <2>1, MaxIs
  <2> HIDE DEF m
  <2>3. Cardinality(T \ {m}) = n /\ T \ {m} \in SUBSET S
    <3>1. Cardinality(T \ {m}) = Cardinality(T) - 1
      BY <2>1, <2>2, FS_RemoveElement
    <3>2. Cardinality(T \ {m}) = n
      BY <3>1
    <3> QED  BY <3>2
  <2>4. PICK s \in [1..n -> T \ {m}] : Increasing(s, n)
    BY <1>3, <2>3
  <2> DEFINE t == [i \in 1..(n + 1) |-> IF i <= n THEN s[i] ELSE m]
  <2>5. t \in [1..(n + 1) -> T]
    BY <2>2, <2>4
  <2>6. ASSUME NEW i \in 1..(n + 1), NEW j \in 1..(n + 1), i < j
        PROVE  t[i] < t[j]
    <3>1. i \in 1..n /\ t[i] = s[i] /\ s[i] \in T \ {m} /\ s[i] \in Nat /\ m \in Nat
      <4>1. i \in 1..n /\ t[i] = s[i] /\ s[i] \in T \ {m}
        BY <2>4, <2>6
      <4> QED  BY <2>1, <2>2, <4>1
    <3>2. CASE j <= n
      <4>1. j \in 1..n /\ t[j] = s[j]
        BY <3>2
      <4> QED  BY <2>4, <2>6, <3>1, <4>1 DEF Increasing
    <3>3. CASE ~(j <= n)
      <4>1. t[j] = m /\ s[i] <= m /\ s[i] # m
        BY <2>2, <3>1, <3>3
      <4> QED  BY <3>1, <4>1
    <3> QED  BY <3>2, <3>3
  <2> HIDE DEF t
  <2> QED  BY <2>5, <2>6 DEF Increasing
<1>4. Nat \subseteq A
  <2> HIDE DEF A
  <2> QED  BY <1>2, <1>3, NumbersInduction
<1> DEFINE n == Cardinality(S)
<1>5. n \in Nat /\ \E s \in [1..n -> S] : Increasing(s, n)
  BY <1>1, <1>4
<1>6. InOrder(S) \in [1..n -> S] /\ Increasing(InOrder(S), n)
  BY <1>5 DEF InOrder, Increasing
<1> DEFINE s == InOrder(S)
<1> HIDE DEF s, n
<1>7. s \in [1..n -> S] /\ Increasing(s, n)
  BY <1>6 DEF s
<1>8. s \in Injection(1..n, S)
  <2>1. ASSUME NEW i \in 1..n, NEW j \in 1..n, s[i] = s[j] PROVE i = j
    <3>1. i \in Nat /\ j \in Nat /\ s[i] \in Nat /\ s[j] \in Nat
      <4>1. s[i] \in S /\ s[j] \in S
        BY <1>7
      <4>2. \A x \in S : x \in Nat
        OBVIOUS
      <4>3. i \in Nat /\ j \in Nat
        BY <1>5
      <4> QED  BY <4>1, <4>2, <4>3
    <3>2. ~(i < j) /\ ~(j < i)
      BY <1>7, <2>1, <3>1 DEF Increasing
    <3> QED  BY <3>1, <3>2
  <2> QED  BY <1>7, <2>1 DEF Injection, IsInjective
<1>9. IsFiniteSet(1..n) /\ Cardinality(1..n) = n
  BY <1>5, FS_Interval
<1>10. s \in Surjection(1..n, S)
  BY <1>8, <1>9, FS_Injection DEF n
<1>11. \A x \in S : \E i \in 1..n : s[i] = x
  BY <1>10 DEF Surjection
<1> QED  BY <1>5, <1>7, <1>11 DEF s, n

(* One more line in a count. *)
LEMMA OneMore ==
    ASSUME NEW n \in Nat, NEW S \in SUBSET (1..n), NEW T \in SUBSET (1..(n + 1)),
           \A i \in 1..n : i \in T <=> i \in S
    PROVE  /\ IsFiniteSet(S) /\ IsFiniteSet(T) /\ Cardinality(S) \in Nat
           /\ Cardinality(T) = IF n + 1 \in T THEN Cardinality(S) + 1 ELSE Cardinality(S)
<1>1. IsFiniteSet(1..n)
  BY FS_Interval
<1>2. IsFiniteSet(S) /\ Cardinality(S) \in Nat
  BY <1>1, FS_Subset, FS_CardinalityType
<1>3. n + 1 \notin S
  OBVIOUS
<1>4. T = IF n + 1 \in T THEN S \cup {n + 1} ELSE S
  <2>1. ASSUME NEW x \in T, x # n + 1 PROVE x \in S
    <3>1. x \in 1..n
      BY <2>1
    <3> QED  BY <3>1
  <2>2. \A x \in S : x \in T /\ x # n + 1
    OBVIOUS
  <2>3. \A x : x \in T <=> x \in S \/ (x = n + 1 /\ n + 1 \in T)
    BY <2>1, <2>2
  <2> QED  BY <2>3
<1> QED  BY <1>2, <1>3, <1>4, FS_AddElement

-----------------------------------------------------------------------------
(* Storing lines (Qtc).                                                    *)

Stations == CallField

MemoryType == [nrSent : Nat, used : SUBSET (Nat \ {0}), next : Nat \ {0},
               store : [Stations -> Counters]]

\* The lines of the log below this one are used.
Passed(next, marks) == \A p \in 1..(next - 1) : p \in marks

(* store_qtc() looks for a line that is not used, and finds one. *)
LEMMA SkipIs ==
    ASSUME NEW next \in Nat \ {0}, NEW marks \in SUBSET (Nat \ {0}), IsFiniteSet(marks)
    PROVE  /\ SkipUsed(next, marks) \in Nat \ {0}
           /\ \A p \in next..(SkipUsed(next, marks) - 1) : p \in marks
<1> DEFINE c == Cardinality(marks)
           D == {p \in next..(next + c) : p \notin marks}
<1>1. c \in Nat
  BY FS_CardinalityType
<1>2. D # {}
  <2> SUFFICES ASSUME D = {} PROVE FALSE
    OBVIOUS
  <2>1. next..(next + c) \in SUBSET marks
    OBVIOUS
  <2>2. Cardinality(next..(next + c)) <= c
    BY <2>1, FS_Subset
  <2> HIDE DEF c
  <2>3. Cardinality(next..(next + c)) = c + 1
    BY <1>1, FS_Interval
  <2> QED  BY <1>1, <2>2, <2>3
<1>3. SkipUsed(next, marks) = Min(D)
  BY DEF SkipUsed
<1> HIDE DEF c
<1>4. D \in SUBSET Nat
  BY <1>1
<1>5. Min(D) \in D /\ \A p \in D : Min(D) <= p
  <2> HIDE DEF D
  <2> QED  BY <1>2, <1>4, MinIs
<1> DEFINE m == Min(D)
<1>6. m \in next..(next + c) /\ \A p \in D : m <= p
  BY <1>5
<1> HIDE DEF m
<1>7. ASSUME NEW p \in next..(m - 1), p \notin marks PROVE FALSE
  <2>1. p \in next..(next + c)
    BY <1>1, <1>6
  <2>2. m <= p
    BY <1>6, <1>7, <2>1
  <2> QED  BY <1>1, <1>6, <2>2
<1>8. m \in Nat \ {0}
  BY <1>1, <1>6
<1> QED  BY <1>3, <1>7, <1>8 DEF m

(* What store_qtc() does to memory for one line. *)
LEMMA StoreOne ==
    ASSUME NEW m \in MemoryType, IsFiniteSet(m.used), NEW l \in SentLine
    PROVE  /\ StoreSent(m, l) \in MemoryType
           /\ StoreSent(m, l).nrSent = IF m.nrSent <= l.serial THEN l.serial ELSE m.nrSent
           /\ StoreSent(m, l).used = m.used \cup {l.pos}
           /\ IsFiniteSet(StoreSent(m, l).used)
           /\ Passed(m.next, m.used) => Passed(StoreSent(m, l).next, StoreSent(m, l).used)
           /\ \A c \in Stations :
                  StoreSent(m, l).store[c] = IF c = l.to THEN [m.store[c] EXCEPT !.send = @ + 1]
                                             ELSE m.store[c]
<1> DEFINE marks == m.used \cup {l.pos}
           next  == IF l.pos = m.next THEN SkipUsed(m.next, marks) ELSE m.next
<1>1. /\ m.nrSent \in Nat /\ m.used \in SUBSET (Nat \ {0}) /\ m.next \in Nat \ {0}
      /\ m.store \in [Stations -> Counters] /\ l.serial \in Nat /\ l.pos \in Nat \ {0}
      /\ l.to \in CallField
  BY DEF MemoryType, SentLine
<1>2. marks \in SUBSET (Nat \ {0}) /\ IsFiniteSet(marks)
  BY <1>1, FS_AddElement
<1>3. /\ SkipUsed(m.next, marks) \in Nat \ {0}
      /\ \A p \in m.next..(SkipUsed(m.next, marks) - 1) : p \in marks
  BY <1>1, <1>2, SkipIs
<1>4. QtcInc(m.store, l.to) \in [Stations -> Counters]
  BY <1>1, QtcAssumption DEF QtcInc, Stations, Counters, CallField
<1>5. \A c \in Stations :
          QtcInc(m.store, l.to)[c] = IF c = l.to THEN [m.store[c] EXCEPT !.send = @ + 1] ELSE m.store[c]
  BY <1>1, QtcAssumption DEF QtcInc, Stations, Counters, CallField
<1>6. Max({m.nrSent, l.serial}) = IF m.nrSent <= l.serial THEN l.serial ELSE m.nrSent
  BY <1>1, MaxOfTwo
<1>7. StoreSent(m, l) = [nrSent |-> Max({m.nrSent, l.serial}), used |-> marks, next |-> next,
                         store |-> QtcInc(m.store, l.to)]
  BY DEF StoreSent
<1>8. Passed(m.next, m.used) => Passed(next, marks)
  <2> SUFFICES ASSUME Passed(m.next, m.used), NEW p \in 1..(next - 1)
               PROVE  p \in marks
    BY DEF Passed
  <2>1. CASE p \in 1..(m.next - 1)
    BY <2>1 DEF Passed
  <2>2. CASE p \notin 1..(m.next - 1)
    <3>1. l.pos = m.next /\ p \in m.next..(SkipUsed(m.next, marks) - 1)
      BY <1>1, <1>3, <2>2
    <3> QED  BY <1>3, <3>1
  <2> QED  BY <2>1, <2>2
<1>9. next \in Nat \ {0}
  BY <1>1, <1>3
<1> HIDE DEF marks, next
<1>10. StoreSent(m, l) \in MemoryType
  BY <1>1, <1>2, <1>4, <1>6, <1>7, <1>9 DEF MemoryType
<1> QED  BY <1>2, <1>5, <1>6, <1>7, <1>8, <1>10 DEF marks

\* What a node has in memory after the first n lines of what was sent.
MemoryOf(m, sent, n) ==
    /\ m \in MemoryType
    /\ m.used = {sent[i].pos : i \in 1..n}
    /\ \A c \in Stations :
           /\ m.store[c].send = Cardinality({i \in 1..n : sent[i].to = c})
           /\ m.store[c].recv = store[c].recv /\ m.store[c].flag = store[c].flag
    /\ \A i \in 1..n : sent[i].serial \in 0..m.nrSent
    /\ nrSent <= m.nrSent /\ m.nrSent \in {nrSent} \cup {sent[i].serial : i \in 1..n}
    /\ Passed(m.next, m.used)

(* Lines use a finite number of QSOs. *)
LEMMA PositionsFinite ==
    ASSUME NEW sent, NEW n \in Nat
    PROVE  IsFiniteSet({sent[i].pos : i \in 1..n})
<1> DEFINE P == {sent[i].pos : i \in 1..n}
           f == [i \in 1..n |-> sent[i].pos]
<1>1. f \in Surjection(1..n, P)
  BY DEF Surjection
<1>2. IsFiniteSet(1..n)
  BY FS_Interval
<1> HIDE DEF P, f
<1>3. IsFiniteSet(P)
  BY <1>1, <1>2, FS_Surjection
<1> QED  BY <1>3 DEF P

(* One line more. *)
LEMMA MemoryStep ==
    ASSUME NEW m, NEW sent, NEW n \in Nat, MemoryOf(m, sent, n), sent[n + 1] \in SentLine,
           nrSent \in Nat
    PROVE  MemoryOf(StoreSent(m, sent[n + 1]), sent, n + 1)
<1> DEFINE l == sent[n + 1]
           r == StoreSent(m, l)
<1>1. m \in MemoryType /\ l \in SentLine /\ IsFiniteSet(m.used)
  <2>1. m \in MemoryType /\ m.used = {sent[i].pos : i \in 1..n}
    BY DEF MemoryOf
  <2>2. IsFiniteSet({sent[i].pos : i \in 1..n})
    BY PositionsFinite
  <2> QED  BY <2>1, <2>2
<1>2. /\ r \in MemoryType
      /\ r.nrSent = IF m.nrSent <= l.serial THEN l.serial ELSE m.nrSent
      /\ r.used = m.used \cup {l.pos}
      /\ Passed(m.next, m.used) => Passed(r.next, r.used)
      /\ \A c \in Stations :
             r.store[c] = IF c = l.to THEN [m.store[c] EXCEPT !.send = @ + 1] ELSE m.store[c]
  BY <1>1, StoreOne
<1>3. /\ m.nrSent \in Nat /\ l.serial \in Nat /\ m.store \in [Stations -> Counters]
      /\ \A i \in 1..(n + 1) : i \in 1..n \/ i = n + 1
      /\ n + 1 \in 1..(n + 1) /\ \A i \in 1..n : i \in 1..(n + 1)
  BY <1>1 DEF MemoryType, SentLine
<1> HIDE DEF r, l
<1>4. r.used = {sent[i].pos : i \in 1..(n + 1)}
  BY <1>2, <1>3 DEF MemoryOf, l
<1>5. ASSUME NEW c \in Stations
      PROVE  /\ r.store[c].send = Cardinality({i \in 1..(n + 1) : sent[i].to = c})
             /\ r.store[c].recv = store[c].recv /\ r.store[c].flag = store[c].flag
  <2> DEFINE S == {i \in 1..n : sent[i].to = c}
             T == {i \in 1..(n + 1) : sent[i].to = c}
  <2>1. Cardinality(T) = IF n + 1 \in T THEN Cardinality(S) + 1 ELSE Cardinality(S)
    BY <1>3, OneMore
  <2>2. n + 1 \in T <=> c = l.to
    BY <1>3 DEF l
  <2>3. m.store[c] \in Counters
    BY <1>3
  <2>4. m.store[c].send = Cardinality(S) /\ m.store[c].recv = store[c].recv
        /\ m.store[c].flag = store[c].flag
    BY DEF MemoryOf
  <2> HIDE DEF S, T
  <2>5. r.store[c].send = Cardinality(T)
    <3>1. CASE c = l.to
      <4>1. r.store[c].send = m.store[c].send + 1
        BY <1>2, <2>3, <3>1 DEF Counters
      <4> QED  BY <2>1, <2>2, <2>4, <3>1, <4>1
    <3>2. CASE c # l.to
      BY <1>2, <2>1, <2>2, <2>4, <3>2
    <3> QED  BY <3>1, <3>2
  <2>6. r.store[c].recv = m.store[c].recv /\ r.store[c].flag = m.store[c].flag
    BY <1>2, <2>3 DEF Counters
  <2> QED  BY <2>4, <2>5, <2>6 DEF T
<1>6. \A i \in 1..n : sent[i].serial \in 0..m.nrSent
  BY DEF MemoryOf
<1>7. ASSUME NEW i \in 1..(n + 1) PROVE sent[i].serial \in 0..r.nrSent
  <2>1. CASE i = n + 1
    BY <1>2, <1>3, <2>1 DEF l
  <2>2. CASE i \in 1..n /\ m.nrSent <= l.serial
    <3>1. sent[i].serial \in 0..m.nrSent /\ r.nrSent = l.serial
      BY <1>2, <1>6, <2>2
    <3> QED  BY <1>3, <2>2, <3>1
  <2> QED  BY <1>2, <1>3, <1>6, <2>1, <2>2
<1>8. /\ nrSent <= r.nrSent
      /\ r.nrSent \in {nrSent} \cup {sent[i].serial : i \in 1..(n + 1)}
  <2>1. nrSent <= m.nrSent /\ m.nrSent \in {nrSent} \cup {sent[i].serial : i \in 1..n}
    BY DEF MemoryOf
  <2>2. m.nrSent \in {nrSent} \cup {sent[i].serial : i \in 1..(n + 1)}
    BY <1>3, <2>1
  <2>3. l.serial \in {sent[i].serial : i \in 1..(n + 1)}
    BY <1>3 DEF l
  <2>4. nrSent <= r.nrSent
    BY <1>2, <1>3, <2>1
  <2> QED  BY <1>2, <2>2, <2>3, <2>4
<1>9. Passed(r.next, r.used)
  BY <1>2 DEF MemoryOf
<1>10. r = StoreSent(m, sent[n + 1])
  BY DEF r, l
<1> QED  BY <1>2, <1>4, <1>5, <1>7, <1>8, <1>9, <1>10 DEF MemoryOf

\* Memory while lines are stored one by one, as a function on their number.
StoredUpTo(f, lines, n) ==
    f = [i \in 0..n |-> IF i = 0 THEN Memory ELSE StoreSent(f[i - 1], lines[i])]

(* There is such a function for any number of lines. *)
LEMMA StoredExists ==
    ASSUME NEW lines, NEW n \in Nat
    PROVE  \E f : StoredUpTo(f, lines, n)
<1> DEFINE S == {k \in Nat : \E f : StoredUpTo(f, lines, k)}
<1>1. 0 \in S
  <2>1. StoredUpTo([i \in 0..0 |-> Memory], lines, 0)
    BY DEF StoredUpTo
  <2> QED  BY <2>1
<1>2. ASSUME NEW k \in Nat, k \in S
      PROVE  k + 1 \in S
  <2>1. PICK f : StoredUpTo(f, lines, k)
    BY <1>2
  <2>2. StoredUpTo([i \in 0..(k + 1) |-> IF i = k + 1 THEN StoreSent(f[k], lines[k + 1]) ELSE f[i]],
                   lines, k + 1)
    BY <2>1 DEF StoredUpTo
  <2> QED  BY <2>2
<1> HIDE DEF S
<1>3. Nat \subseteq S
  BY <1>1, <1>2, NumbersInduction
<1> QED  BY <1>3 DEF S

(* StoreAll() is its last value. *)
LEMMA StoreAllIs ==
    ASSUME NEW lines, Len(lines) \in Nat
    PROVE  \E f : StoredUpTo(f, lines, Len(lines)) /\ StoreAll(lines) = f[Len(lines)]
<1> DEFINE after[i \in 0..Len(lines)] ==
               IF i = 0 THEN Memory ELSE StoreSent(after[i - 1], lines[i])
<1>1. StoreAll(lines) = after[Len(lines)]
  BY DEF StoreAll
<1>2. \E f : f = [i \in 0..Len(lines) |->
                     IF i = 0 THEN Memory ELSE StoreSent(f[i - 1], lines[i])]
  BY StoredExists DEF StoredUpTo
<1>3. after = [i \in 0..Len(lines) |-> IF i = 0 THEN Memory ELSE StoreSent(after[i - 1], lines[i])]
  BY <1>2
<1> HIDE DEF after
<1>4. StoredUpTo(after, lines, Len(lines))
  BY <1>3 DEF StoredUpTo
<1> QED  BY <1>1, <1>4

(* What is in memory agrees with what was sent, lines that are stored included. *)
LEMMA MemoryAfter ==
    ASSUME sentLog \in Seq(SentLine), nrSent \in Nat, MemoryOf(Memory, sentLog, Len(sentLog)),
           NEW lines \in Seq(SentLine)
    PROVE  MemoryOf(StoreAll(lines), sentLog \o lines, Len(sentLog \o lines))
<1> DEFINE a == Len(sentLog)
           b == Len(lines)
           sent == sentLog \o lines
<1>1. /\ a \in Nat /\ b \in Nat /\ Len(sent) = a + b
      /\ \A i \in 1..a : sent[i] = sentLog[i]
      /\ \A i \in 1..b : sent[a + i] = lines[i] /\ lines[i] \in SentLine
  OBVIOUS
<1>2. PICK f : StoredUpTo(f, lines, b) /\ StoreAll(lines) = f[b]
  BY <1>1, StoreAllIs
<1> HIDE DEF sent, a, b
<1>3. MemoryOf(Memory, sent, a)
  <2>1. MemoryOf(Memory, sentLog, a)
    BY DEF a
  <2>2. {sent[i].pos : i \in 1..a} = {sentLog[i].pos : i \in 1..a}
    BY <1>1
  <2>3. {sent[i].serial : i \in 1..a} = {sentLog[i].serial : i \in 1..a}
    BY <1>1
  <2>4. \A c : {i \in 1..a : sent[i].to = c} = {i \in 1..a : sentLog[i].to = c}
    BY <1>1
  <2>5. \A i \in 1..a : sent[i].serial = sentLog[i].serial
    BY <1>1
  <2> QED  BY <2>1, <2>2, <2>3, <2>4, <2>5 DEF MemoryOf
<1> DEFINE S == {i \in Nat : i <= b => MemoryOf(f[i], sent, a + i)}
<1>4. 0 \in S
  <2>1. f[0] = Memory /\ a + 0 = a
    BY <1>1, <1>2 DEF StoredUpTo
  <2> QED  BY <1>3, <2>1
<1>5. ASSUME NEW i \in Nat, i \in S
      PROVE  i + 1 \in S
  <2> SUFFICES ASSUME i + 1 <= b PROVE MemoryOf(f[i + 1], sent, a + (i + 1))
    OBVIOUS
  <2>1. i + 1 \in 1..b /\ i + 1 \in 0..b /\ (i + 1) - 1 = i /\ i <= b /\ i + 1 # 0
    BY <1>1
  <2>2. f[i + 1] = StoreSent(f[i], lines[i + 1])
    BY <1>2, <2>1 DEF StoredUpTo
  <2>3. sent[a + (i + 1)] = lines[i + 1] /\ lines[i + 1] \in SentLine
    BY <1>1, <2>1
  <2>4. a + (i + 1) = (a + i) + 1 /\ a + i \in Nat
    BY <1>1
  <2>5. MemoryOf(f[i], sent, a + i)
    BY <1>5, <2>1
  <2>6. MemoryOf(StoreSent(f[i], sent[(a + i) + 1]), sent, (a + i) + 1)
    BY <2>3, <2>4, <2>5, MemoryStep
  <2> QED  BY <2>2, <2>3, <2>4, <2>6
<1> HIDE DEF S
<1>6. b \in S
  BY <1>1, <1>4, <1>5, NumbersInduction
<1>7. MemoryOf(f[b], sent, a + b)
  BY <1>1, <1>6 DEF S
<1> QED  BY <1>1, <1>2, <1>7 DEF sent

-----------------------------------------------------------------------------
(* What is in memory and what is in the files.                             *)

\* The flags are those of the file, the counters those of both logs, the lines
\* below the next one are used, and no serial is above the highest.
Agreed ==
    /\ used = Positions(sentLog)
    /\ \A c \in Stations :
           /\ store[c].send = Cardinality({i \in 1..Len(sentLog) : sentLog[i].to = c})
           /\ store[c].recv = Cardinality({i \in 1..Len(recvLog) : recvLog[i].call = c})
    /\ metaLog = MetaWrite(store)
    /\ points = Len(sentLog) + Len(recvLog)
    /\ \A i \in 1..Len(sentLog) : sentLog[i].serial <= nrSent
    /\ setup.maxDeletes = 0 => nrSent \in {0} \cup {sentLog[i].serial : i \in 1..Len(sentLog)}
    /\ Passed(nextQso, used)

DataInv == DataOK /\ Agreed

(* What the data are, in the words of the storing of lines. *)
LEMMA MemoryNow ==
    ASSUME DataInv
    PROVE  MemoryOf(Memory, sentLog, Len(sentLog))
<1>1. /\ Len(sentLog) \in Nat /\ \A i \in 1..Len(sentLog) : sentLog[i] \in SentLine
      /\ nrSent \in Nat /\ nextQso \in Nat \ {0} /\ used \subseteq Nat \ {0}
      /\ store \in [Stations -> Counters]
  BY DEF DataInv, DataOK, Stations
<1>2. Memory \in MemoryType
  BY <1>1 DEF Memory, MemoryType
<1>3. \A i \in 1..Len(sentLog) : sentLog[i].serial \in 0..nrSent
  <2> TAKE i \in 1..Len(sentLog)
  <2>1. sentLog[i].serial \in Nat /\ sentLog[i].serial <= nrSent
    BY <1>1 DEF DataInv, Agreed, SentLine
  <2> QED  BY <1>1, <2>1
<1>4. /\ Memory.nrSent = nrSent /\ Memory.used = used /\ Memory.next = nextQso
      /\ Memory.store = store
  BY DEF Memory
<1>5. /\ used = {sentLog[i].pos : i \in 1..Len(sentLog)}
      /\ \A c \in Stations :
             store[c].send = Cardinality({i \in 1..Len(sentLog) : sentLog[i].to = c})
      /\ Passed(nextQso, used)
  BY DEF DataInv, Agreed, Positions
<1>6. nrSent <= nrSent /\ nrSent \in {nrSent} \cup {sentLog[i].serial : i \in 1..Len(sentLog)}
  BY <1>1
<1> QED  BY <1>2, <1>3, <1>4, <1>5, <1>6 DEF MemoryOf

\* T is S in the first a numbers, and U in the b that follow.
InParts(T, S, U, a, b) ==
    /\ S \subseteq 1..a /\ U \subseteq 1..b /\ T \subseteq 1..(a + b)
    /\ \A i \in 1..a : i \in T <=> i \in S
    /\ \A i \in 1..b : a + i \in T <=> i \in U

(* Counting in two parts. *)
LEMMA CountInParts ==
    ASSUME NEW a \in Nat, NEW b \in Nat, NEW S, NEW U, NEW T, InParts(T, S, U, a, b)
    PROVE  /\ Cardinality(S) \in Nat /\ Cardinality(U) \in Nat
           /\ Cardinality(T) = Cardinality(S) + Cardinality(U)
<1> USE DEF InParts
<1>1. IsFiniteSet(S) /\ IsFiniteSet(U) /\ Cardinality(S) \in Nat /\ Cardinality(U) \in Nat
  <2>1. IsFiniteSet(1..a) /\ IsFiniteSet(1..b)
    BY FS_Interval
  <2> QED  BY <2>1, FS_Subset, FS_CardinalityType
<1> DEFINE V == {a + i : i \in U}
           f == [i \in U |-> a + i]
<1>2. f \in Bijection(U, V)
  <2>1. \A i, j \in U : a + i = a + j => i = j
    OBVIOUS
  <2>2. f \in Surjection(U, V)
    BY DEF Surjection
  <2> QED  BY <2>1, <2>2 DEF Bijection, Injection, IsInjective, Surjection
<1>3. IsFiniteSet(V) /\ Cardinality(V) = Cardinality(U)
  <2> HIDE DEF f, V
  <2>1. ExistsBijection(U, V)
    BY <1>2 DEF ExistsBijection
  <2> QED  BY <1>1, <2>1, FS_Bijection
<1>4. T = S \cup V
  <2>1. ASSUME NEW x \in T PROVE x \in S \/ x \in V
    <3>1. CASE x \in 1..a
      BY <3>1
    <3>2. CASE x \notin 1..a
      <4>1. x - a \in 1..b /\ a + (x - a) = x
        BY <3>2
      <4> QED  BY <4>1
    <3> QED  BY <3>1, <3>2
  <2>2. \A x \in S : x \in T
    OBVIOUS
  <2>3. \A x \in V : x \in T
    OBVIOUS
  <2> QED  BY <2>1, <2>2, <2>3
<1>5. S \cap V = {}
  <2>1. \A x \in S : x <= a
    OBVIOUS
  <2>2. \A x \in V : ~(x <= a)
    OBVIOUS
  <2> QED  BY <2>1, <2>2
<1> HIDE DEF V
<1>6. Cardinality(T) = Cardinality(S) + Cardinality(V) - Cardinality({})
  BY <1>1, <1>3, <1>4, <1>5, FS_Union
<1> QED  BY <1>1, <1>3, <1>6, FS_EmptySet

(* Marks in the file are those in memory. *)
LEMMA MarksRead ==
    ASSUME store \in [Stations -> Counters], NEW c \in Stations, NEW kept \in SUBSET MetaWrite(store)
    PROVE  (IF \E f \in {"later", "no"} : <<c, f>> \in kept
            THEN CHOOSE f \in {"later", "no"} : <<c, f>> \in kept ELSE "none")
               = IF <<c, store[c].flag>> \in kept THEN store[c].flag ELSE "none"
<1>1. store[c].flag \in {"none", "later", "no"} /\ DOMAIN store = Stations
  BY DEF Counters
<1>2. \A f : <<c, f>> \in kept => f = store[c].flag /\ f # "none"
  BY <1>1 DEF MetaWrite
<1> QED  BY <1>1, <1>2

(* What is read of the file is what is in it then. *)
LEMMA KeptMarks ==
    ASSUME NEW st \in [Stations -> Counters], NEW ts \in [Stations -> Counters],
           NEW kept \in SUBSET MetaWrite(st),
           \A c \in Stations : ts[c].flag = IF <<c, st[c].flag>> \in kept THEN st[c].flag ELSE "none"
    PROVE  MetaWrite(ts) = kept
<1>1. DOMAIN st = Stations /\ DOMAIN ts = Stations
  OBVIOUS
<1>2. ASSUME NEW m \in kept PROVE m \in MetaWrite(ts)
  <2>1. PICK c \in Stations : m = <<c, st[c].flag>> /\ st[c].flag # "none"
    BY <1>1, <1>2 DEF MetaWrite
  <2>2. ts[c].flag = st[c].flag
    BY <1>2, <2>1
  <2> QED  BY <1>1, <2>1, <2>2 DEF MetaWrite
<1>3. ASSUME NEW m \in MetaWrite(ts) PROVE m \in kept
  <2>1. PICK c \in Stations : m = <<c, ts[c].flag>> /\ ts[c].flag # "none"
    BY <1>1, <1>3 DEF MetaWrite
  <2> QED  BY <2>1
<1> QED  BY <1>2, <1>3

(* The same flags, the same file. *)
LEMMA SameMarks ==
    ASSUME NEW st \in [Stations -> Counters], NEW ts \in [Stations -> Counters],
           \A c \in Stations : ts[c].flag = st[c].flag
    PROVE  MetaWrite(ts) = MetaWrite(st)
<1>1. DOMAIN st = Stations /\ DOMAIN ts = Stations
  OBVIOUS
<1>2. {d \in Stations : ts[d].flag # "none"} = {d \in Stations : st[d].flag # "none"}
  OBVIOUS
<1> QED  BY <1>1, <1>2 DEF MetaWrite

(* Lines that were sent are stored, by this node or for another one. *)
LEMMA SaveSentKeeps ==
    ASSUME DataInv, NEW lines \in Seq(SentLine), SaveSent(lines),
           UNCHANGED <<setup, log, made, deleted>>
    PROVE  DataInv'
<1> DEFINE m == StoreAll(lines)
           sent == sentLog \o lines
<1>1. /\ sentLog \in Seq(SentLine) /\ recvLog \in Seq(RecvLogLine) /\ nrSent \in Nat
      /\ points \in Nat /\ store \in [Stations -> Counters]
  BY DEF DataInv, DataOK, Stations
<1>2. MemoryOf(m, sent, Len(sent))
  BY <1>1, MemoryNow, MemoryAfter
<1>3. /\ sent \in Seq(SentLine) /\ Len(sent) = Len(sentLog) + Len(lines)
      /\ Len(sent) \in Nat /\ Len(lines) \in Nat /\ Len(recvLog) \in Nat /\ Len(sentLog) \in Nat
      /\ \A i \in 1..Len(sentLog) : sentLog[i] = sent[i] /\ i \in 1..Len(sent)
  BY <1>1
<1>4. /\ sentLog' = sent /\ points' = points + Len(lines) /\ nrSent' = m.nrSent /\ used' = m.used
      /\ nextQso' = m.next /\ store' = m.store /\ recvLog' = recvLog /\ metaLog' = metaLog
      /\ setup' = setup /\ log' = log /\ made' = made /\ deleted' = deleted
  BY DEF SaveSent
<1> HIDE DEF m, sent
<1>5. /\ m.nrSent \in Nat /\ m.used \in SUBSET (Nat \ {0}) /\ m.next \in Nat \ {0}
      /\ m.store \in [Stations -> Counters]
  BY <1>2 DEF MemoryOf, MemoryType
<1>6. DataOK'
  BY <1>1, <1>3, <1>4, <1>5 DEF DataOK, DataInv, Stations
<1>7. used' = Positions(sentLog')
  BY <1>2, <1>4 DEF MemoryOf, Positions
<1>8. \A c \in Stations :
          /\ store'[c].send = Cardinality({i \in 1..Len(sentLog') : sentLog'[i].to = c})
          /\ store'[c].recv = Cardinality({i \in 1..Len(recvLog') : recvLog'[i].call = c})
  <2> TAKE c \in Stations
  <2>1. /\ m.store[c].send = Cardinality({i \in 1..Len(sent) : sent[i].to = c})
        /\ m.store[c].recv = store[c].recv
    BY <1>2 DEF MemoryOf
  <2>2. store[c].recv = Cardinality({i \in 1..Len(recvLog) : recvLog[i].call = c})
    BY DEF DataInv, Agreed
  <2> QED  BY <1>4, <2>1, <2>2
<1>9. metaLog' = MetaWrite(store')
  <2>1. \A c \in Stations : m.store[c].flag = store[c].flag
    BY <1>2 DEF MemoryOf
  <2>2. MetaWrite(m.store) = MetaWrite(store)
    BY <1>1, <1>5, <2>1, SameMarks
  <2> QED  BY <1>4, <2>2 DEF DataInv, Agreed
<1>10. points' = Len(sentLog') + Len(recvLog')
  <2>1. points = Len(sentLog) + Len(recvLog)
    BY DEF DataInv, Agreed
  <2> QED  BY <1>3, <1>4, <2>1
<1>11. \A i \in 1..Len(sentLog') : sentLog'[i].serial <= nrSent'
  BY <1>2, <1>4, <1>5 DEF MemoryOf
<1>12. setup'.maxDeletes = 0 =>
           nrSent' \in {0} \cup {sentLog'[i].serial : i \in 1..Len(sentLog')}
  <2>1. nrSent' \in {nrSent} \cup {sent[i].serial : i \in 1..Len(sent)}
    BY <1>2, <1>4 DEF MemoryOf
  <2>2. setup.maxDeletes = 0 => nrSent \in {0} \cup {sentLog[i].serial : i \in 1..Len(sentLog)}
    BY DEF DataInv, Agreed
  <2>3. {sentLog[i].serial : i \in 1..Len(sentLog)} \subseteq {sent[i].serial : i \in 1..Len(sent)}
    BY <1>3
  <2> QED  BY <1>4, <2>1, <2>2, <2>3
<1>13. Passed(nextQso', used')
  BY <1>2, <1>4 DEF MemoryOf
<1> QED  BY <1>6, <1>7, <1>8, <1>9, <1>10, <1>11, <1>12, <1>13 DEF DataInv, Agreed, Passed, Positions, MetaWrite

(* Lines that were received are stored. *)
LEMMA SaveReceivedKeeps ==
    ASSUME DataInv, NEW lines \in Seq(RecvLogLine), SaveReceived(lines),
           UNCHANGED <<setup, log, made, deleted>>
    PROVE  DataInv'
<1> DEFINE recv == recvLog \o lines
           to(c) == {i \in 1..Len(lines) : lines[i].call = c}
<1>1. /\ sentLog \in Seq(SentLine) /\ recvLog \in Seq(RecvLogLine)
      /\ points \in Nat /\ store \in [Stations -> Counters]
  BY DEF DataInv, DataOK, Stations
<1>2. /\ recv \in Seq(RecvLogLine) /\ Len(recv) = Len(recvLog) + Len(lines)
      /\ Len(lines) \in Nat /\ Len(recvLog) \in Nat /\ Len(sentLog) \in Nat
      /\ \A i \in 1..Len(recvLog) : recv[i] = recvLog[i]
      /\ \A i \in 1..Len(lines) : recv[Len(recvLog) + i] = lines[i]
  BY <1>1
<1>3. /\ recvLog' = recv /\ points' = points + Len(lines) /\ sentLog' = sentLog
      /\ metaLog' = metaLog /\ nrSent' = nrSent /\ used' = used /\ nextQso' = nextQso
      /\ setup' = setup /\ log' = log /\ made' = made /\ deleted' = deleted
      /\ store' = [c \in Stations |-> [store[c] EXCEPT !.recv = @ + Cardinality(to(c))]]
  BY <1>1 DEF SaveReceived
<1> HIDE DEF recv
<1>4. ASSUME NEW c \in Stations
      PROVE  /\ Cardinality(to(c)) \in Nat
             /\ Cardinality({i \in 1..Len(recv) : recv[i].call = c}) =
                    store[c].recv + Cardinality(to(c))
  <2> DEFINE S == {i \in 1..Len(recvLog) : recvLog[i].call = c}
             T == {i \in 1..Len(recv) : recv[i].call = c}
  <2>1. T \in SUBSET (1..(Len(recvLog) + Len(lines)))
    BY <1>2
  <2>2. \A i \in 1..Len(recvLog) : i \in T <=> i \in S
    <3>1. \A i \in 1..Len(recvLog) : i \in 1..Len(recv)
      BY <1>2
    <3> QED  BY <1>2, <3>1
  <2>3. \A i \in 1..Len(lines) : Len(recvLog) + i \in T <=> i \in to(c)
    <3>1. \A i \in 1..Len(lines) : Len(recvLog) + i \in 1..Len(recv)
      BY <1>2
    <3> QED  BY <1>2, <3>1
  <2>4. store[c].recv = Cardinality(S)
    BY DEF DataInv, Agreed
  <2>5. S \in SUBSET (1..Len(recvLog)) /\ to(c) \in SUBSET (1..Len(lines))
    OBVIOUS
  <2> DEFINE a == Len(recvLog)
             b == Len(lines)
             U == to(c)
  <2> HIDE DEF S, T, to, a, b, U
  <2>7. a \in Nat /\ b \in Nat
    BY <1>2 DEF a, b
  <2>8. InParts(T, S, U, a, b)
    BY <2>1, <2>2, <2>3, <2>5 DEF InParts, a, b, U
  <2>9. Cardinality(U) \in Nat /\ Cardinality(T) = Cardinality(S) + Cardinality(U)
    BY <2>7, <2>8, CountInParts
  <2>6. Cardinality(to(c)) \in Nat /\ Cardinality(T) = Cardinality(S) + Cardinality(to(c))
    BY <2>9 DEF U, S, T
  <2> QED  BY <2>4, <2>6 DEF T
<1> HIDE DEF to
<1>5. ASSUME NEW c \in Stations
      PROVE  /\ store'[c] \in Counters
             /\ store'[c].recv = store[c].recv + Cardinality(to(c))
             /\ store'[c].send = store[c].send /\ store'[c].flag = store[c].flag
  <2> DEFINE n == Cardinality(to(c))
             e == store[c]
  <2>1. n \in Nat /\ e \in Counters
    BY <1>1, <1>4
  <2>2. store'[c] = [e EXCEPT !.recv = @ + n]
    BY <1>3
  <2> HIDE DEF n, e
  <2>3. /\ [e EXCEPT !.recv = @ + n] \in Counters
        /\ [e EXCEPT !.recv = @ + n].recv = e.recv + n
        /\ [e EXCEPT !.recv = @ + n].send = e.send /\ [e EXCEPT !.recv = @ + n].flag = e.flag
    BY <2>1 DEF Counters
  <2> QED  BY <2>2, <2>3 DEF n, e
<1>6. store' \in [Stations -> Counters]
  <2>1. DOMAIN store' = Stations /\ store' = [c \in Stations |-> store'[c]]
    BY <1>3
  <2> QED  BY <1>5, <2>1
<1>12. points' \in Nat /\ points' = points + Len(lines) /\ points = Len(sentLog) + Len(recvLog)
  <2>1. points' = points + Len(lines)
    BY <1>3
  <2> QED  BY <1>1, <1>2, <2>1 DEF DataInv, Agreed
<1>13. /\ sentLog' = sentLog /\ recvLog' = recv /\ metaLog' = metaLog /\ nrSent' = nrSent
       /\ used' = used /\ nextQso' = nextQso /\ setup' = setup /\ log' = log /\ made' = made
       /\ deleted' = deleted
  BY <1>3
<1>7. DataOK'
  BY <1>2, <1>6, <1>12, <1>13 DEF DataOK, DataInv, Stations
<1>8. \A c \in Stations :
          /\ store'[c].send = Cardinality({i \in 1..Len(sentLog') : sentLog'[i].to = c})
          /\ store'[c].recv = Cardinality({i \in 1..Len(recvLog') : recvLog'[i].call = c})
  BY <1>4, <1>5, <1>13 DEF DataInv, Agreed
<1>9. metaLog' = MetaWrite(store')
  <2>1. MetaWrite(store') = MetaWrite(store)
    BY <1>1, <1>5, <1>6, SameMarks
  <2> QED  BY <1>13, <2>1 DEF DataInv, Agreed
<1>10. points' = Len(sentLog') + Len(recvLog')
  <2>1. Len(recvLog') = Len(recvLog) + Len(lines) /\ Len(sentLog') = Len(sentLog)
    BY <1>2, <1>13
  <2> QED  BY <1>2, <1>12, <2>1
<1>11. /\ used' = Positions(sentLog') /\ Passed(nextQso', used')
       /\ \A i \in 1..Len(sentLog') : sentLog'[i].serial <= nrSent'
       /\ setup'.maxDeletes = 0 =>
              nrSent' \in {0} \cup {sentLog'[i].serial : i \in 1..Len(sentLog')}
  BY <1>13 DEF DataInv, Agreed
<1> QED  BY <1>7, <1>8, <1>9, <1>10, <1>11 DEF DataInv, Agreed, Passed, Positions, MetaWrite

(* A station is marked. *)
LEMMA MarkKeeps ==
    ASSUME DataInv, NEW c \in Stations, NEW flag \in {"later", "no"}, MarkCall(c, flag),
           UNCHANGED <<setup, log, made, sentLog, recvLog, used, nextQso, nrSent, points, deleted>>
    PROVE  DataInv'
<1>1. store \in [Stations -> Counters]
  BY DEF DataInv, DataOK, Stations
<1>2. store' = [store EXCEPT ![c].flag = flag] /\ metaLog' = MetaWrite(store')
  BY DEF MarkCall
<1>3. store' \in [Stations -> Counters]
  BY <1>1, <1>2 DEF Counters
<1>4. \A d \in Stations : store'[d].send = store[d].send /\ store'[d].recv = store[d].recv
  BY <1>1, <1>2 DEF Counters
<1>5. metaLog' \subseteq (Stations \X {"later", "no"})
  BY <1>2, <1>3 DEF MetaWrite, Counters
<1>6. DataOK'
  BY <1>3, <1>5 DEF DataInv, DataOK, Stations
<1>7. \A d \in Stations :
          /\ store'[d].send = Cardinality({i \in 1..Len(sentLog') : sentLog'[i].to = d})
          /\ store'[d].recv = Cardinality({i \in 1..Len(recvLog') : recvLog'[i].call = d})
  BY <1>4 DEF DataInv, Agreed
<1> QED  BY <1>2, <1>6, <1>7 DEF DataInv, Agreed, Passed, Positions, MetaWrite

(* Reading finds a line from which the list may start. *)
LEMMA FirstFreeIs ==
    ASSUME NEW marks \in SUBSET (Nat \ {0}), IsFiniteSet(marks)
    PROVE  /\ FirstFree(marks) \in Nat \ {0}
           /\ Passed(FirstFree(marks), marks)
           /\ \A p \in Nat \ {0} : p \notin marks => p >= FirstFree(marks)
<1> DEFINE last == Max(marks \cup {1})
           D == {last} \cup ((1..last) \ marks)
<1>1. /\ marks \cup {1} \in SUBSET Nat /\ IsFiniteSet(marks \cup {1}) /\ marks \cup {1} # {}
  BY FS_AddElement
<1>2. last \in marks \cup {1} /\ \A p \in marks \cup {1} : p <= last
  BY <1>1, MaxIs
<1> HIDE DEF last
<1>3. last \in Nat \ {0} /\ (last \in marks \/ last = 1)
  BY <1>2
<1>4. FirstFree(marks) = Min(D)
  BY DEF FirstFree, last
<1>5. D \in SUBSET Nat /\ D # {}
  BY <1>3
<1>6. Min(D) \in D /\ \A p \in D : Min(D) <= p
  <2> HIDE DEF D
  <2> QED  BY <1>5, MinIs
<1> DEFINE m == Min(D)
<1>7. m \in 1..last /\ \A p \in D : m <= p
  BY <1>3, <1>6
<1> HIDE DEF m
<1>8. ASSUME NEW p \in 1..(m - 1), p \notin marks PROVE FALSE
  <2>1. p \in (1..last) \ marks
    BY <1>3, <1>7, <1>8
  <2>2. m <= p
    BY <1>7, <2>1
  <2> QED  BY <1>3, <1>7, <2>2
<1>9. ASSUME NEW p \in Nat \ {0}, p \notin marks PROVE p >= m
  <2>1. CASE p <= last
    <3>1. p \in D
      BY <1>3, <1>9, <2>1
    <3> QED  BY <1>3, <1>7, <3>1
  <2>2. CASE ~(p <= last)
    BY <1>3, <1>7, <2>2
  <2> QED  BY <2>1, <2>2
<1>10. m \in Nat \ {0} /\ FirstFree(marks) = m
  BY <1>3, <1>4, <1>7 DEF m
<1> QED  BY <1>8, <1>9, <1>10 DEF Passed

(* Both logs are read again, as they are or shortened. *)
LEMMA ReadKeeps ==
    ASSUME DataInv, NEW sent \in Seq(SentLine), NEW recv \in Seq(RecvLogLine), NEW nr \in Nat,
           sentLog' = sent, recvLog' = recv, ReadQtcCalls(sent, recv, nr), setup' = setup,
           log' \in Seq(LogLine), made' \in Nat, deleted' \in Nat,
           setup.maxDeletes = 0 => nr \in {0} \cup {sent[i].serial : i \in 1..Len(sent)}
    PROVE  DataInv'
<1> DEFINE marks == Positions(sent)
           nrs   == {nr} \cup {sent[i].serial : i \in 1..Len(sent)}
<1>1. /\ Len(sent) \in Nat /\ Len(recv) \in Nat
      /\ \A i \in 1..Len(sent) : sent[i].pos \in Nat \ {0} /\ sent[i].serial \in Nat
  <2>1. \A i \in 1..Len(sent) : sent[i] \in SentLine
    OBVIOUS
  <2>2. \A i \in 1..Len(sent) : sent[i].pos \in Nat \ {0} /\ sent[i].serial \in Nat
    BY <2>1 DEF SentLine
  <2> QED  BY <2>2
<1>2. marks \in SUBSET (Nat \ {0}) /\ IsFiniteSet(marks)
  BY <1>1, PositionsFinite DEF Positions
<1>3. nrs \in SUBSET Nat /\ nrs # {} /\ IsFiniteSet(nrs)
  <2> DEFINE N == {sent[i].serial : i \in 1..Len(sent)}
             f == [i \in 1..Len(sent) |-> sent[i].serial]
  <2>1. f \in Surjection(1..Len(sent), N)
    BY DEF Surjection
  <2>2. IsFiniteSet(1..Len(sent))
    BY <1>1, FS_Interval
  <2>3. N \in SUBSET Nat
    BY <1>1
  <2> HIDE DEF N, f
  <2>4. IsFiniteSet(N)
    BY <2>1, <2>2, FS_Surjection
  <2>5. nrs = N \cup {nr}
    BY DEF N
  <2> QED  BY <2>3, <2>4, <2>5, FS_AddElement
<1>4. /\ used' = marks /\ nextQso' = FirstFree(marks) /\ nrSent' = Max(nrs)
      /\ store' = ReadStore(sent, recv, metaLog') /\ points' = Len(sent) + Len(recv)
      /\ metaLog' \in SUBSET metaLog
  BY DEF ReadQtcCalls, MarksKept
<1>5. Max(nrs) \in nrs /\ \A n \in nrs : n <= Max(nrs)
  <2> HIDE DEF nrs
  <2> QED  BY <1>3, MaxIs
<1> DEFINE high == Max(nrs)
<1> HIDE DEF high
<1>6. /\ high \in Nat /\ \A i \in 1..Len(sent) : sent[i].serial <= high
      /\ high \in {nr} \cup {sent[i].serial : i \in 1..Len(sent)} /\ nrSent' = high
  BY <1>3, <1>4, <1>5 DEF high
<1>7. /\ FirstFree(marks) \in Nat \ {0} /\ Passed(FirstFree(marks), marks)
  BY <1>2, FirstFreeIs
<1> HIDE DEF marks, nrs
<1>8. /\ store \in [Stations -> Counters] /\ metaLog = MetaWrite(store)
      /\ metaLog \subseteq (Stations \X {"later", "no"}) /\ setup \in Setups
  BY DEF DataInv, Agreed, DataOK, Stations
<1>9. ASSUME NEW c \in Stations
      PROVE  /\ store'[c].send = Cardinality({i \in 1..Len(sent) : sent[i].to = c})
             /\ store'[c].recv = Cardinality({i \in 1..Len(recv) : recv[i].call = c})
             /\ store'[c].flag = IF <<c, store[c].flag>> \in metaLog' THEN store[c].flag ELSE "none"
             /\ store'[c] \in Counters
  <2> DEFINE S == {i \in 1..Len(sent) : sent[i].to = c}
             R == {i \in 1..Len(recv) : recv[i].call = c}
  <2>1. Cardinality(S) \in Nat /\ Cardinality(R) \in Nat
    <3>1. IsFiniteSet(1..Len(sent)) /\ IsFiniteSet(1..Len(recv))
      BY <1>1, FS_Interval
    <3>2. S \in SUBSET (1..Len(sent)) /\ R \in SUBSET (1..Len(recv))
      OBVIOUS
    <3> QED  BY <3>1, <3>2, FS_Subset, FS_CardinalityType
  <2> DEFINE flag == IF \E f \in {"later", "no"} : <<c, f>> \in metaLog'
                     THEN CHOOSE f \in {"later", "no"} : <<c, f>> \in metaLog' ELSE "none"
  <2>2. flag = IF <<c, store[c].flag>> \in metaLog' THEN store[c].flag ELSE "none"
    BY <1>4, <1>8, MarksRead
  <2>3. store[c].flag \in {"none", "later", "no"}
    BY <1>8 DEF Counters
  <2>4. c \in DOMAIN EmptyStore
    BY DEF EmptyStore, Stations
  <2>5. store'[c] = [recv |-> Cardinality(R), send |-> Cardinality(S), flag |-> flag]
    BY <1>4, <2>4 DEF ReadStore
  <2> HIDE DEF S, R, flag
  <2>6. store'[c] \in Counters
    BY <2>1, <2>2, <2>3, <2>5 DEF Counters
  <2> QED  BY <2>2, <2>5, <2>6 DEF S, R
<1>10. store' \in [Stations -> Counters]
  <2>1. DOMAIN EmptyStore = Stations
    BY DEF EmptyStore, Stations
  <2>2. DOMAIN store' = Stations /\ store' = [c \in Stations |-> store'[c]]
    BY <1>4, <2>1 DEF ReadStore
  <2> QED  BY <1>9, <2>2
<1>11. DataOK'
  BY <1>1, <1>2, <1>4, <1>6, <1>7, <1>8, <1>10 DEF DataOK, Stations
<1>12. metaLog' = MetaWrite(store')
  <2>1. metaLog' \in SUBSET MetaWrite(store)
    BY <1>4, <1>8
  <2>2. \A c \in Stations :
            store'[c].flag = IF <<c, store[c].flag>> \in metaLog' THEN store[c].flag ELSE "none"
    BY <1>9
  <2>3. MetaWrite(store') = metaLog'
    BY <1>8, <1>10, <2>1, <2>2, KeptMarks
  <2> QED  BY <2>3
<1>13. setup'.maxDeletes = 0 =>
           nrSent' \in {0} \cup {sentLog'[i].serial : i \in 1..Len(sentLog')}
  BY <1>6
<1>14. used' = Positions(sentLog') /\ Passed(nextQso', used')
  BY <1>4, <1>7 DEF marks
<1>15. /\ \A i \in 1..Len(sentLog') : sentLog'[i].serial <= nrSent'
       /\ points' = Len(sentLog') + Len(recvLog')
  BY <1>4, <1>6
<1>16. \A c \in Stations :
          /\ store'[c].send = Cardinality({i \in 1..Len(sentLog') : sentLog'[i].to = c})
          /\ store'[c].recv = Cardinality({i \in 1..Len(recvLog') : recvLog'[i].call = c})
  BY <1>9
<1> QED  BY <1>11, <1>12, <1>13, <1>14, <1>15, <1>16 DEF DataInv, Agreed, Passed, Positions, MetaWrite

(* The QSO that was logged last is deleted, with the lines of its station at   *)
(* the end of the QTC logs.                                                *)
LEMMA WithoutLastIs ==
    ASSUME NEW L, NEW lines \in Seq(L), NEW f, NEW c
    PROVE  \E n \in 0..Len(lines) : WithoutLast(lines, f, c) = SubSeq(lines, 1, n)
<1> DEFINE keep == {n \in 0..Len(lines) : \A i \in (n + 1)..Len(lines) : BeginsWith(lines[i][f], c)}
<1>1. keep \in SUBSET Nat /\ keep \subseteq 0..Len(lines)
  OBVIOUS
<1>2. Len(lines) \in keep
  OBVIOUS
<1>3. WithoutLast(lines, f, c) = SubSeq(lines, 1, Min(keep))
  BY DEF WithoutLast
<1> HIDE DEF keep
<1>4. Min(keep) \in keep
  BY <1>1, <1>2, MinIs
<1> QED  BY <1>1, <1>3, <1>4

LEMMA DeleteKeeps ==
    ASSUME DataInv, DeleteQso, setup' = setup
    PROVE  DataInv'
<1>1. /\ setup \in Setups /\ log \in Seq(LogLine) /\ made \in Nat /\ deleted \in Nat /\ nrSent \in Nat
      /\ sentLog \in Seq(SentLine) /\ recvLog \in Seq(RecvLogLine)
  BY DEF DataInv, DataOK
<1>2. /\ deleted < setup.maxDeletes /\ deleted' = deleted + 1 /\ made' = made /\ log # <<>>
      /\ log' = Front(log)
  BY DEF DeleteQso
<1>3. log' \in Seq(LogLine)
  BY <1>1, <1>2 DEF Front
<1>4. setup.maxDeletes # 0
  BY <1>1, <1>2
<1>5. sentLog' \in Seq(SentLine) /\ recvLog' \in Seq(RecvLogLine)
  <2>1. \A n \in 0..Len(sentLog) : SubSeq(sentLog, 1, n) \in Seq(SentLine)
    BY <1>1
  <2>2. \A n \in 0..Len(recvLog) : SubSeq(recvLog, 1, n) \in Seq(RecvLogLine)
    BY <1>1
  <2>3. \A f, c : WithoutLast(sentLog, f, c) \in Seq(SentLine)
    BY <1>1, <2>1, WithoutLastIs
  <2>4. \A f, c : WithoutLast(recvLog, f, c) \in Seq(RecvLogLine)
    BY <1>1, <2>2, WithoutLastIs
  <2> QED  BY <1>1, <2>3, <2>4 DEF DeleteQso
<1>6. sentLog # <<>> => nrSent - 1 \in Nat
  <2> SUFFICES ASSUME sentLog # <<>> PROVE nrSent - 1 \in Nat
    OBVIOUS
  <2>1. 1 \in 1..Len(sentLog) /\ sentLog[1] \in SentLine
    BY <1>1
  <2>2. sentLog[1].serial \in Nat \ {0} /\ sentLog[1].serial <= nrSent
    BY <2>1 DEF SentLine, DataInv, Agreed
  <2> QED  BY <1>1, <2>2
<1>7. \E nr \in Nat : ReadQtcCalls(sentLog', recvLog', nr)
  BY <1>1, <1>6 DEF DeleteQso
<1>8. PICK nr \in Nat : ReadQtcCalls(sentLog', recvLog', nr)
  BY <1>7
<1> QED  BY <1>1, <1>2, <1>3, <1>4, <1>5, <1>8, ReadKeeps

-----------------------------------------------------------------------------
(* The list of lines to send, and the lines received.                      *)

ListLine == [qso : Nat, pos : Nat \ {0}, flag : BOOLEAN, sent : BOOLEAN]
RecLine  == [text : {"none", "part", "flawed", "full"}, status : 0..2, confirmed : BOOLEAN,
             from : CallField]

(* What genqtclist() makes: QSOs of other stations that were not used, in the *)
(* order of the log; the other lines are emptied or stay as they were.     *)
LEMMA GenIs ==
    ASSUME DataOK, qtclist \in SendList, NEW call \in CallField, NEW nr, NEW g,
           g = GenQtcList(call, nr)
    PROVE  /\ g \in SendList /\ g.serial > 0 /\ g.call = call /\ g.total = 0
           /\ nr \in 0..QtcLines => g.count <= nr
           /\ \A k \in 1..g.count :
                  /\ g.lines[k].pos \in Offered(call) /\ ~g.lines[k].sent
                  /\ g.lines[k].qso = log[g.lines[k].pos].id
           /\ \A j, k \in 1..g.count : j < k => g.lines[j].pos < g.lines[k].pos
           /\ \A k \in 1..QtcLines : k > g.count =>
                  g.lines[k] \in {[EmptyLine EXCEPT !.pos = qtclist.lines[k].pos], qtclist.lines[k]}
<1> DEFINE len   == IF nr \in 0..QtcLines THEN nr ELSE QtcLines
           S     == Offered(call)
           picks == InOrder(S)
           count == Min({len, Cardinality(S)})
           line(k) == IF k <= count
                      THEN [qso |-> log[picks[k]].id, pos |-> picks[k],
                            flag |-> setup.digi \/ k = 1, sent |-> FALSE]
                      ELSE IF k <= len THEN [EmptyLine EXCEPT !.pos = qtclist.lines[k].pos]
                      ELSE qtclist.lines[k]
<1>1. /\ len \in 0..QtcLines /\ QtcLines \in Nat /\ nrSent \in Nat
      /\ \A p \in 1..Len(log) : log[p].id \in Nat
      /\ qtclist.lines \in [1..QtcLines -> ListLine] /\ setup.digi \in BOOLEAN
  <2>1. \A p \in 1..Len(log) : log[p] \in LogLine
    BY DEF DataOK
  <2>2. setup.digi \in BOOLEAN
    BY WindowAssumption DEF DataOK, Setup
  <2>3. \A p \in 1..Len(log) : log[p].id \in Nat
    BY <2>1 DEF LogLine
  <2>4. len \in 0..QtcLines /\ QtcLines \in Nat
    BY QtcAssumption
  <2>5. nrSent \in Nat
    BY DEF DataOK
  <2>6. qtclist.lines \in [1..QtcLines -> ListLine]
    BY DEF SendList, ListLine
  <2> QED  BY <2>2, <2>3, <2>4, <2>5, <2>6
<1>2. S \in SUBSET (1..Len(log)) /\ Len(log) \in Nat /\ S \in SUBSET Nat
  BY DEF Offered, DataOK
<1>3. IsFiniteSet(S)
  <2>1. IsFiniteSet(1..Len(log))
    BY <1>2, FS_Interval
  <2> QED  BY <1>2, <2>1, FS_Subset
<1> HIDE DEF S
<1>4. /\ Cardinality(S) \in Nat /\ picks \in [1..Cardinality(S) -> S]
      /\ Increasing(picks, Cardinality(S))
  BY <1>2, <1>3, InOrderIs
<1>5. count \in 0..len /\ count <= Cardinality(S)
  BY <1>1, <1>4, MinOfTwo
<1>6. g = [call |-> call, serial |-> nrSent + 1, count |-> count, total |-> 0,
           lines |-> [k \in 1..QtcLines |-> line(k)]]
  BY DEF GenQtcList, S
<1> HIDE DEF picks, count, len
<1>7. \A k \in 1..count : k \in 1..Cardinality(S) /\ picks[k] \in S /\ k \in 1..QtcLines
  BY <1>1, <1>4, <1>5
<1>8. ASSUME NEW k \in 1..count
      PROVE  /\ line(k) \in ListLine /\ line(k).pos \in S /\ ~line(k).sent
             /\ line(k).qso = log[line(k).pos].id /\ line(k).pos = picks[k]
  <2>1. picks[k] \in 1..Len(log) /\ picks[k] \in S /\ picks[k] \in Nat \ {0}
    <3>1. picks[k] \in S
      BY <1>7
    <3>2. \A p \in S : p \in 1..Len(log)
      BY <1>2
    <3>3. picks[k] \in 1..Len(log)
      BY <3>1, <3>2
    <3> QED  BY <1>2, <3>1, <3>3
  <2>2. line(k) = [qso |-> log[picks[k]].id, pos |-> picks[k],
                   flag |-> setup.digi \/ k = 1, sent |-> FALSE]
    BY <1>5
  <2>3. log[picks[k]].id \in Nat
    BY <1>1, <2>1
  <2> HIDE DEF line
  <2> QED  BY <1>1, <2>1, <2>2, <2>3 DEF ListLine
<1>9. ASSUME NEW k \in 1..QtcLines, ~(k <= count)
      PROVE  /\ line(k) \in ListLine
             /\ line(k) \in {[EmptyLine EXCEPT !.pos = qtclist.lines[k].pos], qtclist.lines[k]}
  <2>1. qtclist.lines[k] \in ListLine
    BY <1>1
  <2>2. [EmptyLine EXCEPT !.pos = qtclist.lines[k].pos] \in ListLine
    BY <2>1 DEF EmptyLine, NoQso, ListLine
  <2> QED  BY <1>9, <2>1, <2>2
<1>10. \A k \in 1..QtcLines : line(k) \in ListLine
  BY <1>5, <1>8, <1>9
<1>11. \A j, k \in 1..count : j < k => picks[j] < picks[k]
  BY <1>4, <1>7 DEF Increasing
<1> HIDE DEF line
<1>12. g \in SendList
  BY <1>1, <1>5, <1>6, <1>10 DEF SendList, ListLine
<1>13. /\ g.serial > 0 /\ g.call = call /\ g.total = 0 /\ g.count = count
       /\ \A k \in 1..QtcLines : g.lines[k] = line(k)
  BY <1>1, <1>6
<1>14. nr \in 0..QtcLines => g.count <= nr
  BY <1>5, <1>13 DEF len
<1>15. \A k \in 1..g.count :
           /\ g.lines[k].pos \in Offered(call) /\ ~g.lines[k].sent
           /\ g.lines[k].qso = log[g.lines[k].pos].id
  BY <1>7, <1>8, <1>13 DEF S
<1>16. \A j, k \in 1..g.count : j < k => g.lines[j].pos < g.lines[k].pos
  BY <1>7, <1>8, <1>11, <1>13
<1>17. \A k \in 1..QtcLines : k > g.count =>
           g.lines[k] \in {[EmptyLine EXCEPT !.pos = qtclist.lines[k].pos], qtclist.lines[k]}
  BY <1>5, <1>9, <1>13
<1> QED  BY <1>12, <1>13, <1>14, <1>15, <1>16, <1>17

\* A line whose status does not become 0 again by being shown.
Locked(l) == (l.text = "full" /\ l.status = 2) \/ (l.text # "full" /\ l.status # 0)

\* The same block; only the status of lines may differ.
SameBlock(s, r) ==
    /\ s \in RecList
    /\ s.call = r.call /\ s.serial = r.serial /\ s.count = r.count /\ s.confirmed = r.confirmed
    /\ \A k \in 1..QtcLines :
           /\ s.lines[k].text = r.lines[k].text /\ s.lines[k].from = r.lines[k].from
           /\ s.lines[k].confirmed = r.lines[k].confirmed
           /\ Locked(r.lines[k]) => Locked(s.lines[k])

(* Showing the status of a line changes nothing else. *)
LEMMA ShowStatusIs ==
    ASSUME NEW r \in RecList, NEW k
    PROVE  SameBlock(ShowStatus(r, k), r)
<1>1. r.lines \in [1..QtcLines -> RecLine]
  BY DEF RecList, RecLine
<1>2. CASE k \notin 1..QtcLines
  BY <1>2 DEF ShowStatus, SameBlock
<1>3. CASE k \in 1..QtcLines
  <2> DEFINE st == StatusShown(r, k)
             l  == r.lines[k]
             new == [l EXCEPT !.status = st]
             lines == [r.lines EXCEPT ![k] = new]
             s == [r EXCEPT !.lines = lines]
  <2>1. l \in RecLine
    BY <1>1, <1>3
  <2>2. st \in 0..2 /\ (Locked(l) => (l.text = "full" /\ st = 2) \/ (l.text # "full" /\ st # 0))
    BY <2>1 DEF StatusShown, Locked, RecLine
  <2>3. ShowStatus(r, k) = s
    BY <1>3 DEF ShowStatus
  <2> HIDE DEF st
  <2>4. /\ new \in RecLine /\ new.text = l.text /\ new.from = l.from
        /\ new.confirmed = l.confirmed /\ new.status = st
    BY <2>1, <2>2 DEF RecLine
  <2> HIDE DEF new
  <2>5. /\ lines \in [1..QtcLines -> RecLine] /\ lines[k] = new
        /\ \A j \in 1..QtcLines : j # k => lines[j] = r.lines[j]
    BY <1>1, <1>3, <2>4
  <2> HIDE DEF lines
  <2>6. /\ s \in RecList /\ s.lines = lines
        /\ s.call = r.call /\ s.serial = r.serial /\ s.count = r.count /\ s.confirmed = r.confirmed
    BY <2>5 DEF RecList, RecLine
  <2> HIDE DEF s
  <2>7. ASSUME NEW j \in 1..QtcLines
        PROVE  /\ s.lines[j].text = r.lines[j].text /\ s.lines[j].from = r.lines[j].from
               /\ s.lines[j].confirmed = r.lines[j].confirmed
               /\ Locked(r.lines[j]) => Locked(s.lines[j])
    <3>1. CASE j = k
      <4>1. s.lines[j] = new /\ r.lines[j] = l
        BY <2>5, <2>6, <3>1
      <4> QED  BY <2>2, <2>4, <4>1 DEF Locked
    <3>2. CASE j # k
      BY <2>5, <2>6, <3>2
    <3> QED  BY <3>1, <3>2
  <2> QED  BY <2>3, <2>6, <2>7 DEF SameBlock
<1> QED  BY <1>2, <1>3

LEMMA ShowFieldsIs ==
    ASSUME NEW r \in RecList, NEW f, NEW g
    PROVE  SameBlock(ShowFields(r, f, g), r)
<1> DEFINE s == ShowStatus(r, RecvLine(f))
           t == ShowStatus(s, RecvLine(g))
<1>1. SameBlock(s, r)
  BY ShowStatusIs
<1>2. s \in RecList
  BY <1>1 DEF SameBlock
<1>3. SameBlock(t, s)
  BY <1>2, ShowStatusIs
<1>4. t = ShowFields(r, f, g)
  BY DEF ShowFields
<1> HIDE DEF s, t
<1>5. SameBlock(t, r)
  BY <1>1, <1>3 DEF SameBlock
<1> QED  BY <1>4, <1>5

LEMMA ShowAllIs ==
    ASSUME NEW r \in RecList
    PROVE  SameBlock(ShowAll(r), r)
<1> DEFINE line(k) == [r.lines[k] EXCEPT !.status = StatusShown(r, k)]
           s == ShowAll(r)
<1>1. ASSUME NEW k \in 1..QtcLines
      PROVE  /\ line(k) \in RecLine /\ line(k).text = r.lines[k].text
             /\ line(k).from = r.lines[k].from /\ line(k).confirmed = r.lines[k].confirmed
             /\ Locked(r.lines[k]) => Locked(line(k))
  <2> DEFINE st == StatusShown(r, k)
             l  == r.lines[k]
  <2>1. l \in RecLine
    BY DEF RecList, RecLine
  <2>2. st \in 0..2 /\ (Locked(l) => (l.text = "full" /\ st = 2) \/ (l.text # "full" /\ st # 0))
    BY <2>1 DEF StatusShown, Locked, RecLine
  <2> HIDE DEF st, l
  <2>3. /\ [l EXCEPT !.status = st] \in RecLine /\ [l EXCEPT !.status = st].text = l.text
        /\ [l EXCEPT !.status = st].from = l.from /\ [l EXCEPT !.status = st].status = st
        /\ [l EXCEPT !.status = st].confirmed = l.confirmed
    BY <2>1, <2>2 DEF RecLine
  <2>4. line(k) = [l EXCEPT !.status = st]
    BY DEF l, st
  <2> HIDE DEF line
  <2>5. Locked(l) => Locked(line(k))
    BY <2>2, <2>3, <2>4 DEF Locked
  <2> QED  BY <2>3, <2>4, <2>5 DEF l
<1>2. s = [r EXCEPT !.lines = [k \in 1..QtcLines |-> line(k)]]
  BY DEF ShowAll
<1> HIDE DEF line, s
<1>3. /\ s \in RecList /\ \A k \in 1..QtcLines : s.lines[k] = line(k)
      /\ s.call = r.call /\ s.serial = r.serial /\ s.count = r.count /\ s.confirmed = r.confirmed
  BY <1>1, <1>2 DEF RecList, RecLine
<1>4. SameBlock(s, r)
  BY <1>1, <1>3 DEF SameBlock
<1> QED  BY <1>4 DEF s

-----------------------------------------------------------------------------
(* Type correctness.                                                       *)

WinOK ==
    /\ qtclist \in SendList /\ (qtclist.count > 0 => qtclist.serial > 0)
    /\ reclist \in RecList
    /\ window \in {"closed"} \cup setup.dirs
    /\ field \in 0..(LastRecv + 5) /\ prev \in CallField
    /\ nrParsed \in Nat /\ copied \in Nat /\ lastcall \in BOOLEAN

TypeInv == DataInv /\ WinOK

LEMMA TypeInvIsTypeOK == TypeInv => TypeOK
  BY DEF TypeInv, DataInv, WinOK, TypeOK

(* The data stay as they are while the operator works in the window. *)
LEMMA IdleKeeps ==
    ASSUME DataInv, UNCHANGED <<setup, Idle>>
    PROVE  DataInv'
  BY DEF DataInv, DataOK, Agreed, Idle, Passed, Positions, MetaWrite

LEMMA NewRecIs == NewRec \in RecList
  BY QtcAssumption DEF NewRec, NewLine, RecList, CallField

LEMMA EmptyListIs == EmptyList \in SendList
  BY QtcAssumption DEF EmptyList, EmptyLine, NoQso, SendList, CallField

(* The bounds of fields and lines. *)
LEMMA Fields ==
    /\ QtcLines \in Nat \ {0} /\ LastSend = QtcLines + 2 /\ LastRecv = 3 * QtcLines
    /\ LastSend <= LastRecv
    /\ \A f \in RecvFields : RecvLine(f) \in 1..QtcLines
    /\ \A f \in 3..LastSend : SendLine(f) \in 1..QtcLines
<1>1. QtcLines \in Nat \ {0}
  BY QtcAssumption
<1>2. \A f \in 3..(3 * QtcLines + 2) : (f - 3) \div 3 + 1 \in 1..QtcLines
  BY <1>1
<1> QED  BY <1>1, <1>2 DEF LastSend, LastRecv, RecvFields, RecvLine, SendLine

(* Opening and closing. *)
LEMMA OpenTypes ==
    ASSUME TypeInv, NEW dir \in Directions, NEW c \in setup.stations \cup {NoCall}, Open(dir, c)
    PROVE  WinOK'
<1>1. c \in CallField /\ setup' = setup /\ dir \in setup.dirs
  BY WindowAssumption DEF TypeInv, DataInv, DataOK, Setup, CallField, Open
<1>2. window' = dir /\ nrParsed' = nrParsed /\ lastcall' = lastcall
  BY DEF Open
<1>3. CASE PrepareForRecv(c) /\ UNCHANGED qtclist
  <2> DEFINE r   == IF c = NoCall THEN reclist ELSE [reclist EXCEPT !.call = c]
             fresh == r.call # prev \/ r.call = NoCall
             new == IF fresh THEN [NewRec EXCEPT !.call = r.call] ELSE r
  <2>1. r \in RecList /\ r.call \in CallField
    BY <1>1 DEF TypeInv, WinOK, RecList
  <2> HIDE DEF r
  <2>2. new \in RecList /\ new.call \in CallField
    BY <2>1, NewRecIs DEF RecList
  <2>3. /\ reclist' = ShowAll(new) /\ field' \in {0, field} /\ prev' = new.call
        /\ copied' \in {0, copied}
    BY <1>3 DEF PrepareForRecv, r
  <2> HIDE DEF new
  <2>4. reclist' \in RecList
    BY <2>2, <2>3, ShowAllIs DEF SameBlock
  <2> QED  BY <1>1, <1>2, <1>3, <2>2, <2>3, <2>4, Fields DEF WinOK, TypeInv
<1>4. CASE PrepareForSend(c) /\ UNCHANGED <<reclist, copied>>
  <2> DEFINE l == IF c = NoCall THEN qtclist.call ELSE c
             nr == QtcLines - Total(store, l)
  <2>1. l \in CallField
    BY <1>1 DEF TypeInv, WinOK, SendList
  <2> HIDE DEF l
  <2>2. prev' = l /\ field' \in {0, field}
        /\ qtclist' \in {GenQtcList(l, nr), [qtclist EXCEPT !.call = l]}
    BY <1>4 DEF PrepareForSend, l
  <2> HIDE DEF nr
  <2>3. qtclist' \in SendList /\ (qtclist'.count > 0 => qtclist'.serial > 0)
    <3>1. GenQtcList(l, nr) \in SendList /\ GenQtcList(l, nr).serial > 0
      BY <2>1, GenIs DEF TypeInv, WinOK, DataInv
    <3>2. /\ [qtclist EXCEPT !.call = l] \in SendList
          /\ [qtclist EXCEPT !.call = l].serial = qtclist.serial
          /\ [qtclist EXCEPT !.call = l].count = qtclist.count
      BY <2>1 DEF TypeInv, WinOK, SendList
    <3> QED  BY <2>2, <3>1, <3>2 DEF TypeInv, WinOK
  <2> QED  BY <1>1, <1>2, <1>4, <2>1, <2>2, <2>3, Fields DEF WinOK, TypeInv
<1> QED  BY <1>3, <1>4 DEF Open

(* Arrow keys and TAB. *)
LEMMA MoveTypes ==
    ASSUME TypeInv, Move
    PROVE  WinOK'
<1>1. field \in 0..(LastRecv + 5)
  BY DEF TypeInv, WinOK
<1>2. SendUp \in 0..(LastRecv + 5) /\ SendDown \in 0..(LastRecv + 5) /\ SendTab \in 0..(LastRecv + 5)
  BY <1>1, Fields DEF SendUp, SendDown, SendTab
<1>3. RecvUp \subseteq 0..(LastRecv + 5) /\ RecvDown \subseteq 0..(LastRecv + 5)
  BY <1>1, Fields DEF RecvUp, RecvDown
<1>4. RecvTab \subseteq 0..(LastRecv + 5) /\ RecvBackTab \subseteq 0..(LastRecv + 5)
  BY <1>1, Fields DEF RecvTab, RecvBackTab
<1>5. field' \in 0..(LastRecv + 5)
  BY <1>2, <1>3, <1>4 DEF Move
<1>6. reclist' \in RecList
  <2>1. reclist \in RecList /\ SameBlock(ShowFields(reclist, field, field'), reclist)
    BY ShowFieldsIs DEF TypeInv, WinOK
  <2> QED  BY <2>1 DEF Move, SameBlock
<1> QED  BY <1>5, <1>6 DEF Move, TypeInv, WinOK, LastRecv

LEMMA TotalIsNumber ==
    ASSUME DataOK, NEW c \in CallField
    PROVE  Total(store, c) \in Nat
<1>1. store[c] \in Counters
  BY DEF DataOK
<1> QED  BY <1>1 DEF Total, Counters

LEMMA LimitedIs ==
    ASSUME DataOK, NEW c \in CallField, NEW n \in 0..QtcLines
    PROVE  Limited(n, c) \in Int /\ Limited(n, c) <= n /\ Limited(n, c) <= QtcLines - Total(store, c)
  BY TotalIsNumber, QtcAssumption DEF Limited

(* The header. *)
LEMMA EditCallTypes ==
    ASSUME TypeInv, NEW c \in setup.stations \cup {NoCall, Partial}, EditCall(c)
    PROVE  WinOK'
<1>1. c \in CallField
  BY WindowAssumption DEF TypeInv, DataInv, DataOK, Setup, CallField
<1>2. /\ prev' = c /\ UNCHANGED <<setup, window, field, nrParsed, copied, lastcall>>
  BY DEF EditCall
<1>3. reclist' \in RecList
  <2> DEFINE lines == [k \in 1..QtcLines |->
                 [reclist.lines[k] EXCEPT !.from = IF @ = reclist.call THEN c ELSE @]]
  <2>1. \A k \in 1..QtcLines : reclist.lines[k] \in RecLine
    BY DEF TypeInv, WinOK, RecList, RecLine
  <2>2. lines \in [1..QtcLines -> RecLine]
    BY <1>1, <2>1 DEF RecLine
  <2>3. reclist' = reclist \/ reclist' = [reclist EXCEPT !.call = c, !.lines = lines]
    BY DEF EditCall
  <2> HIDE DEF lines
  <2> QED  BY <1>1, <2>2, <2>3 DEF TypeInv, WinOK, RecList, RecLine
<1>4. qtclist' \in SendList /\ (qtclist'.count > 0 => qtclist'.serial > 0)
  <2> DEFINE nr == QtcLines - Total(store, c)
  <2>1. qtclist' \in {qtclist, GenQtcList(c, nr), [qtclist EXCEPT !.call = c]}
    BY DEF EditCall
  <2> HIDE DEF nr
  <2>2. GenQtcList(c, nr) \in SendList /\ GenQtcList(c, nr).serial > 0
    BY <1>1, GenIs DEF TypeInv, WinOK, DataInv
  <2>3. /\ [qtclist EXCEPT !.call = c] \in SendList
        /\ [qtclist EXCEPT !.call = c].serial = qtclist.serial
        /\ [qtclist EXCEPT !.call = c].count = qtclist.count
    BY <1>1 DEF TypeInv, WinOK, SendList
  <2> QED  BY <2>1, <2>2, <2>3 DEF TypeInv, WinOK
<1> QED  BY <1>1, <1>2, <1>3, <1>4 DEF TypeInv, WinOK, LastRecv

LEMMA CountTypes ==
    ASSUME TypeInv, NEW n \in 0..QtcLines, TypeCount(n)
    PROVE  WinOK'
<1>1. DataOK /\ reclist.call \in CallField /\ qtclist.call \in CallField /\ QtcLines \in Nat
  BY QtcAssumption DEF TypeInv, DataInv, WinOK, RecList, SendList
<1>2. /\ UNCHANGED <<setup, window, field, prev, nrParsed, copied, lastcall>>
      /\ \/ reclist' = [reclist EXCEPT !.count = Limited(n, reclist.call)] /\ UNCHANGED qtclist
         \/ /\ qtclist' = GenQtcList(qtclist.call, Limited(n, qtclist.call))
            /\ UNCHANGED reclist
  BY DEF TypeCount
<1>3. Limited(n, reclist.call) \in Int /\ Limited(n, reclist.call) <= QtcLines
  BY <1>1, LimitedIs
<1>4. \A x : /\ GenQtcList(qtclist.call, x) \in SendList
             /\ GenQtcList(qtclist.call, x).serial > 0
  BY <1>1, GenIs DEF TypeInv, WinOK
<1>5. [reclist EXCEPT !.count = Limited(n, reclist.call)] \in RecList
  BY <1>3 DEF TypeInv, WinOK, RecList
<1> QED  BY <1>2, <1>4, <1>5 DEF TypeInv, WinOK, LastRecv

LEMMA EraseTypes ==
    ASSUME TypeInv, NEW n \in 0..1, EraseCount(n)
    PROVE  WinOK'
<1>1. /\ UNCHANGED <<setup, window, field, prev, nrParsed, copied, lastcall>>
      /\ \/ reclist' = [reclist EXCEPT !.count = n] /\ UNCHANGED qtclist
         \/ /\ qtclist' = [qtclist EXCEPT !.count = n] /\ UNCHANGED reclist
            /\ n = 0 \/ (n = 1 /\ qtclist.count = QtcLines)
  BY DEF EraseCount
<1>2. [reclist EXCEPT !.count = n] \in RecList
  BY QtcAssumption DEF TypeInv, WinOK, RecList
<1>3. qtclist.count \in 0..QtcLines /\ n \in 0..QtcLines /\ QtcLines > 0
  BY QtcAssumption DEF TypeInv, WinOK, SendList
<1>4. /\ [qtclist EXCEPT !.count = n] \in SendList
      /\ [qtclist EXCEPT !.count = n].count = n
      /\ [qtclist EXCEPT !.count = n].serial = qtclist.serial
  BY <1>3 DEF TypeInv, WinOK, SendList
<1>5. ASSUME UNCHANGED reclist, qtclist' = [qtclist EXCEPT !.count = n],
             n = 0 \/ (n = 1 /\ qtclist.count = QtcLines)
      PROVE  qtclist' \in SendList /\ (qtclist'.count > 0 => qtclist'.serial > 0)
  <2>1. n > 0 => qtclist.serial > 0
    BY <1>3, <1>5 DEF TypeInv, WinOK
  <2> QED  BY <1>4, <1>5, <2>1
<1> QED  BY <1>1, <1>2, <1>5 DEF TypeInv, WinOK, LastRecv

(* Sending: a line gets its marks, and keeps what it says. *)
SameLines(l, m) ==
    /\ l \in SendList
    /\ l.call = m.call /\ l.serial = m.serial /\ l.count = m.count
    /\ \A k \in 1..QtcLines :
           l.lines[k].qso = m.lines[k].qso /\ l.lines[k].pos = m.lines[k].pos

LEMMA LineSentIs ==
    ASSUME NEW m \in SendList, NEW k \in 1..QtcLines
    PROVE  /\ SameLines(SendLineSent(m, k), m)
           /\ \A j \in 1..QtcLines : j # k => SendLineSent(m, k).lines[j] = m.lines[j]
           /\ SendLineSent(m, k).lines[k].sent /\ SendLineSent(m, k).lines[k].flag
<1> DEFINE line == m.lines[k]
           new  == [[line EXCEPT !.sent = TRUE] EXCEPT !.flag = TRUE]
           lines == [m.lines EXCEPT ![k] = new]
           total == IF line.sent THEN m.total ELSE m.total + 1
           l == [m EXCEPT !.lines = lines, !.total = total]
<1>1. m.lines \in [1..QtcLines -> ListLine] /\ line \in ListLine /\ m.total \in Int
  BY DEF SendList, ListLine
<1>2. SendLineSent(m, k) = l
  BY <1>1 DEF SendLineSent, SendList, ListLine
<1>3. total \in Int
  BY <1>1
<1>4. new \in ListLine /\ new.qso = line.qso /\ new.pos = line.pos /\ new.sent /\ new.flag
  BY <1>1 DEF ListLine
<1> HIDE DEF new, total
<1>5. /\ lines \in [1..QtcLines -> ListLine] /\ lines[k] = new
      /\ \A j \in 1..QtcLines : j # k => lines[j] = m.lines[j]
  BY <1>1, <1>4
<1> HIDE DEF lines
<1>6. /\ l \in SendList /\ l.lines = lines
      /\ l.call = m.call /\ l.serial = m.serial /\ l.count = m.count
  BY <1>3, <1>5 DEF SendList, ListLine
<1> HIDE DEF l
<1>7. \A j \in 1..QtcLines : l.lines[j].qso = m.lines[j].qso /\ l.lines[j].pos = m.lines[j].pos
  BY <1>4, <1>5, <1>6
<1>8. SameLines(l, m)
  BY <1>6, <1>7 DEF SameLines
<1> QED  BY <1>2, <1>4, <1>5, <1>6, <1>8

LEMMA SendTypes ==
    ASSUME TypeInv, SendEnter \/ SendEnterOutside \/ SendBlock \/ Unsend
    PROVE  WinOK'
<1>1. /\ qtclist \in SendList /\ qtclist.lines \in [1..QtcLines -> ListLine] /\ qtclist.total \in Int
      /\ qtclist.count \in 0..QtcLines /\ field \in 0..(LastRecv + 5)
  BY DEF TypeInv, WinOK, SendList, ListLine
<1>2. UNCHANGED <<setup, window, prev, reclist, nrParsed, copied, lastcall>>
  BY DEF SendEnter, SendEnterOutside, SendBlock, Unsend
<1>3. CASE SendEnter
  <2>1. SendLine(field) \in 1..QtcLines /\ field \in 3..LastSend
    BY <1>3, Fields DEF SendEnter
  <2>2. SameLines(qtclist', qtclist)
    BY <1>1, <1>3, <2>1, LineSentIs DEF SendEnter
  <2>3. field' \in 0..(LastRecv + 5)
    BY <1>1, <1>3, <2>1, Fields DEF SendEnter, SendLine
  <2> QED  BY <1>2, <2>2, <2>3 DEF TypeInv, WinOK, SameLines, LastRecv
<1>4. CASE SendEnterOutside
  <2>1. qtclist' \in SendList /\ qtclist'.count = qtclist.count /\ qtclist'.serial = qtclist.serial
    <3>1. [qtclist EXCEPT !.total = @ + 1] \in SendList
      BY <1>1 DEF SendList
    <3>2. /\ [qtclist EXCEPT !.total = @ + 1].count = qtclist.count
          /\ [qtclist EXCEPT !.total = @ + 1].serial = qtclist.serial
      BY <1>1 DEF SendList
    <3> QED  BY <1>1, <1>4, <3>1, <3>2 DEF SendEnterOutside
  <2>2. field' = field
    BY <1>4 DEF SendEnterOutside
  <2> QED  BY <1>2, <2>1, <2>2 DEF TypeInv, WinOK, LastRecv
<1>5. CASE SendBlock
  <2> DEFINE line(k) == IF k <= qtclist.count
                        THEN [qtclist.lines[k] EXCEPT !.sent = TRUE, !.flag = TRUE]
                        ELSE qtclist.lines[k]
             lines == [k \in 1..QtcLines |-> line(k)]
             count == qtclist.count
  <2>1. ASSUME NEW k \in 1..QtcLines PROVE line(k) \in ListLine
    <3>1. qtclist.lines[k] \in ListLine
      BY <1>1
    <3> QED  BY <3>1 DEF ListLine
  <2>2. qtclist' = [qtclist EXCEPT !.total = count, !.lines = lines] /\ field' = field
    BY <1>5 DEF SendBlock
  <2> HIDE DEF line
  <2>3. lines \in [1..QtcLines -> ListLine]
    BY <2>1
  <2> HIDE DEF lines
  <2>4. count \in Int
    BY <1>1
  <2> HIDE DEF count
  <2>5. qtclist' \in SendList /\ qtclist'.count = qtclist.count /\ qtclist'.serial = qtclist.serial
    BY <1>1, <2>2, <2>3, <2>4 DEF SendList, ListLine
  <2> QED  BY <1>2, <2>2, <2>5 DEF TypeInv, WinOK, LastRecv
<1>6. CASE Unsend
  <2> DEFINE k == SendLine(field)
             new == [[qtclist.lines[k] EXCEPT !.sent = FALSE] EXCEPT !.flag = FALSE]
             lines == [qtclist.lines EXCEPT ![k] = new]
             total == qtclist.total - 1
  <2>1. k \in 1..QtcLines
    BY <1>6, Fields DEF Unsend
  <2>2. qtclist' = [qtclist EXCEPT !.total = total, !.lines = lines] /\ field' = field
    BY <1>1, <1>6, <2>1 DEF Unsend, SendList, ListLine
  <2> HIDE DEF k
  <2>3. new \in ListLine
    BY <1>1, <2>1 DEF ListLine
  <2> HIDE DEF new
  <2>4. lines \in [1..QtcLines -> ListLine] /\ total \in Int
    BY <1>1, <2>1, <2>3
  <2> HIDE DEF lines, total
  <2>5. qtclist' \in SendList /\ qtclist'.count = qtclist.count /\ qtclist'.serial = qtclist.serial
    BY <1>1, <2>2, <2>4 DEF SendList, ListLine
  <2> QED  BY <1>2, <2>2, <2>5 DEF TypeInv, WinOK, LastRecv
<1> QED  BY <1>3, <1>4, <1>5, <1>6

(* Receiving. *)
LEMMA TypedIs ==
    ASSUME NEW l \in RecLine, NEW t \in {"none", "part", "flawed", "full"}, NEW q \in BOOLEAN,
           reclist.call \in CallField
    PROVE  /\ Typed(l, t, q) \in RecLine
           /\ Typed(l, t, q).text = t /\ Typed(l, t, q).from = reclist.call
           /\ Typed(l, t, q).confirmed = l.confirmed
<1> DEFINE st == IF q THEN 1 ELSE l.status
           c  == reclist.call
<1>1. st \in 0..2 /\ Typed(l, t, q) = [l EXCEPT !.text = t, !.from = c, !.status = st]
  BY DEF Typed, RecLine
<1> HIDE DEF st, c
<1>2. c \in CallField
  BY DEF c
<1> QED  BY <1>1, <1>2 DEF RecLine, c

LEMMA FilledIs ==
    ASSUME NEW l \in RecLine, reclist.call \in CallField
    PROVE  /\ Filled(l) \in RecLine /\ Filled(l).text = "part"
           /\ Filled(l).from = IF l.text = "none" THEN reclist.call ELSE l.from
           /\ Filled(l).confirmed = l.confirmed
<1> DEFINE c == IF l.text = "none" THEN reclist.call ELSE l.from
<1>1. c \in CallField /\ Filled(l) = [l EXCEPT !.text = "part", !.status = 1, !.from = c]
  BY DEF Filled, RecLine
<1> HIDE DEF c
<1>2. c \in CallField
  BY <1>1
<1>3. l \in [text : {"none", "part", "flawed", "full"}, status : 0..2, confirmed : BOOLEAN,
             from : CallField]
  BY DEF RecLine
<1>4. /\ Filled(l).text = "part" /\ Filled(l).from = c /\ Filled(l).confirmed = l.confirmed
      /\ Filled(l).status = 1
  BY <1>1, <1>3
<1>5. Filled(l) \in RecLine
  <2>1. ASSUME NEW t \in {"none", "part", "flawed", "full"}, NEW st \in 0..2, NEW d \in CallField
        PROVE  [l EXCEPT !.text = t, !.status = st, !.from = d] \in RecLine
    BY <1>3 DEF RecLine
  <2>2. "part" \in {"none", "part", "flawed", "full"} /\ 1 \in 0..2
    OBVIOUS
  <2>3. [l EXCEPT !.text = "part", !.status = 1, !.from = c] \in RecLine
    BY <1>2, <2>1, <2>2
  <2> QED  BY <1>1, <2>3
<1> QED  BY <1>4, <1>5 DEF c

LEMMA TypingTypes ==
    ASSUME TypeInv, NEW t \in {"none", "part", "flawed", "full"}, NEW q \in BOOLEAN,
           TypeInLine(t, q)
    PROVE  WinOK'
<1> DEFINE k == RecvLine(field)
           l == reclist.lines[k]
           new == Typed(l, t, q)
           r == [reclist EXCEPT !.lines[k] = new]
<1>1. field \in RecvFields /\ reclist' = ShowStatus(r, k)
      /\ UNCHANGED <<setup, qtclist, window, field, prev, nrParsed, copied, lastcall>>
  BY DEF TypeInLine
<1>2. k \in 1..QtcLines
  BY <1>1, Fields
<1> HIDE DEF k
<1>3. l \in RecLine /\ reclist.call \in CallField /\ reclist \in RecList
  BY <1>2 DEF TypeInv, WinOK, RecList, RecLine
<1>4. new \in RecLine
  BY <1>3, TypedIs
<1> HIDE DEF new
<1>5. r \in RecList
  BY <1>2, <1>3, <1>4 DEF RecList, RecLine
<1>6. reclist' \in RecList
  BY <1>1, <1>5, ShowStatusIs DEF SameBlock
<1> QED  BY <1>1, <1>6 DEF TypeInv, WinOK, LastRecv

LEMMA FillTypes ==
    ASSUME TypeInv, FillTimes
    PROVE  WinOK'
<1> DEFINE k == RecvLine(field)
           line(j) == IF j > k /\ j <= reclist.count
                      THEN Filled(reclist.lines[j]) ELSE reclist.lines[j]
           lines == [j \in 1..QtcLines |-> line(j)]
<1>1. reclist' = [reclist EXCEPT !.lines = lines]
      /\ UNCHANGED <<setup, qtclist, window, field, prev, nrParsed, copied, lastcall>>
  BY DEF FillTimes
<1>2. ASSUME NEW j \in 1..QtcLines PROVE line(j) \in RecLine
  <2>1. reclist.lines[j] \in RecLine /\ reclist.call \in CallField
    BY DEF TypeInv, WinOK, RecList, RecLine
  <2> QED  BY <2>1, FilledIs
<1> HIDE DEF line
<1>3. lines \in [1..QtcLines -> RecLine]
  BY <1>2
<1> HIDE DEF lines
<1>4. reclist' \in RecList
  BY <1>1, <1>3 DEF TypeInv, WinOK, RecList, RecLine
<1> QED  BY <1>1, <1>4 DEF TypeInv, WinOK, LastRecv

LEMMA HeaderTypes ==
    ASSUME TypeInv, HeaderEnter \/ (\E n \in 0..1 : TypeSerial(n)) \/ ResetTerminal \/ Escape
    PROVE  WinOK'
<1>1. CASE HeaderEnter
  <2>1. field' \in 0..(LastRecv + 5)
    BY <1>1, Fields DEF HeaderEnter, TypeInv, WinOK
  <2>2. reclist' \in RecList
    <3>1. reclist \in RecList
      BY DEF TypeInv, WinOK
    <3> QED  BY <1>1, <3>1, ShowStatusIs DEF HeaderEnter, SameBlock
  <2> QED  BY <1>1, <2>1, <2>2 DEF HeaderEnter, TypeInv, WinOK, LastRecv
<1>2. ASSUME NEW n \in 0..1, TypeSerial(n) PROVE WinOK'
  BY <1>2 DEF TypeSerial, TypeInv, WinOK, RecList, LastRecv
<1>3. CASE ResetTerminal
  BY <1>3 DEF ResetTerminal, TypeInv, WinOK, LastRecv
<1>4. CASE Escape
  BY <1>4 DEF Escape, TypeInv, WinOK, LastRecv
<1> QED  BY <1>1, <1>2, <1>3, <1>4

LEMMA ParseTypes ==
    ASSUME TypeInv, (\E n \in 1..QtcLines : ParseHeader(n)) \/
                    (\E t \in {"part", "flawed", "full"} : ParseLine(t))
    PROVE  WinOK'
<1>1. reclist \in RecList /\ reclist.call \in CallField /\ DataOK /\ nrParsed \in Nat
  BY DEF TypeInv, WinOK, DataInv, RecList
<1>2. ASSUME NEW n \in 1..QtcLines, ParseHeader(n) PROVE WinOK'
  <2>1. Limited(n, reclist.call) \in Int /\ Limited(n, reclist.call) <= QtcLines
    <3>1. n \in 0..QtcLines
      BY QtcAssumption
    <3> QED  BY <1>1, <3>1, LimitedIs, QtcAssumption
  <2>2. reclist' \in RecList
    BY <1>1, <1>2, <2>1 DEF ParseHeader, RecList
  <2> QED  BY <1>2, <2>2 DEF ParseHeader, TypeInv, WinOK, LastRecv
<1>3. ASSUME NEW t \in {"part", "flawed", "full"}, ParseLine(t) PROVE WinOK'
  <2> DEFINE k == NextParsed
             new == Typed(reclist.lines[k], t, t = "flawed")
             r == [reclist EXCEPT !.lines[k] = new]
  <2>1. k \in Nat /\ k > 0
    BY <1>1, <1>3 DEF ParseLine, NextParsed
  <2>2. reclist' \in RecList
    <3>1. CASE k > QtcLines
      BY <1>1, <1>3, <3>1 DEF ParseLine
    <3>2. CASE ~(k > QtcLines)
      <4>1. k \in 1..QtcLines
        BY <2>1, <3>2, QtcAssumption
      <4>2. reclist.lines[k] \in RecLine
        BY <1>1, <4>1 DEF RecList, RecLine
      <4>3. reclist' = ShowStatus(r, k)
        BY <1>1, <1>3, <3>2 DEF ParseLine
      <4> HIDE DEF k
      <4>4. new \in RecLine
        BY <1>1, <4>2, TypedIs
      <4> HIDE DEF new
      <4>5. r \in RecList
        BY <1>1, <4>1, <4>4 DEF RecList, RecLine
      <4> QED  BY <4>3, <4>5, ShowStatusIs DEF SameBlock
    <3> QED  BY <3>1, <3>2
  <2>3. /\ nrParsed' = k + 1 /\ copied' = copied + 1
        /\ UNCHANGED <<setup, qtclist, window, field, prev, lastcall>>
    BY <1>3 DEF ParseLine
  <2> HIDE DEF k
  <2> QED  BY <2>1, <2>2, <2>3 DEF TypeInv, WinOK, LastRecv
<1> QED  BY <1>2, <1>3

(* Lines that a loop picks are written to the log. *)
LEMMA SentLinesAre ==
    ASSUME qtclist \in SendList
    PROVE  /\ Cardinality(Ready) \in Nat /\ Ready \in SUBSET (1..QtcLines) /\ IsFiniteSet(Ready)
           /\ InOrder(Ready) \in [1..Cardinality(Ready) -> Ready]
           /\ Increasing(InOrder(Ready), Cardinality(Ready))
           /\ \A k \in Ready : \E i \in 1..Cardinality(Ready) : InOrder(Ready)[i] = k
           /\ Len(SentLines) = Cardinality(Ready) /\ DOMAIN SentLines = 1..Cardinality(Ready)
           /\ \A i \in 1..Cardinality(Ready) :
                  SentLines[i] = [qso |-> qtclist.lines[InOrder(Ready)[i]].qso,
                                  pos |-> qtclist.lines[InOrder(Ready)[i]].pos,
                                  to |-> qtclist.call, serial |-> qtclist.serial,
                                  count |-> qtclist.count]
           /\ qtclist.serial > 0 => SentLines \in Seq(SentLine)
<1>1. QtcLines \in Nat /\ IsFiniteSet(1..QtcLines)
  BY QtcAssumption, FS_Interval
<1>2. Ready \in SUBSET (1..QtcLines)
  BY DEF Ready
<1> DEFINE R == Ready
           n == Cardinality(R)
           ks == InOrder(R)
           line(i) == [qso |-> qtclist.lines[ks[i]].qso, pos |-> qtclist.lines[ks[i]].pos,
                       to |-> qtclist.call, serial |-> qtclist.serial, count |-> qtclist.count]
<1>3. R \in SUBSET Nat /\ IsFiniteSet(R)
  <2>1. R \in SUBSET Nat
    BY <1>1, <1>2
  <2> QED  BY <1>1, <1>2, <2>1, FS_Subset
<1>4. /\ n \in Nat /\ ks \in [1..n -> R] /\ Increasing(ks, n)
      /\ \A k \in R : \E i \in 1..n : ks[i] = k
  <2> HIDE DEF R
  <2> QED  BY <1>3, InOrderIs
<1>5. SentLines = [i \in 1..n |-> line(i)]
  BY DEF SentLines
<1> HIDE DEF R, n, ks
<1>6. ASSUME NEW i \in 1..n, qtclist.serial > 0
      PROVE  line(i) \in SentLine
  <2>1. ks[i] \in 1..QtcLines
    <3>1. ks[i] \in R
      BY <1>4
    <3> QED  BY <1>2, <3>1 DEF R
  <2>2. qtclist.lines[ks[i]] \in ListLine
    BY <2>1 DEF SendList, ListLine
  <2>3. qtclist.serial \in Nat \ {0} /\ qtclist.count \in Nat /\ qtclist.call \in CallField
    BY <1>1, <1>6 DEF SendList
  <2> QED  BY <2>2, <2>3 DEF SentLine, ListLine
<1> HIDE DEF line
<1>7. /\ Len(SentLines) = n /\ DOMAIN SentLines = 1..n
      /\ \A i \in 1..n : SentLines[i] = line(i)
  BY <1>4, <1>5
<1>8. qtclist.serial > 0 => SentLines \in Seq(SentLine)
  BY <1>4, <1>5, <1>6
<1> QED  BY <1>2, <1>3, <1>4, <1>7, <1>8 DEF R, n, ks, line

LEMMA ReceivedLinesAre ==
    ASSUME NEW r \in RecList
    PROVE  /\ Cardinality(LongEnough(r)) \in Nat /\ IsFiniteSet(LongEnough(r))
           /\ LongEnough(r) \in SUBSET (1..QtcLines)
           /\ Len(ReceivedLines(r)) = Cardinality(LongEnough(r))
           /\ ReceivedLines(r) \in Seq(RecvLogLine)
           /\ \A i \in 1..Len(ReceivedLines(r)) : \E k \in LongEnough(r) :
                  ReceivedLines(r)[i].call = r.call /\ ReceivedLines(r)[i].from = r.lines[k].from
<1>1. QtcLines \in Nat /\ IsFiniteSet(1..QtcLines)
  BY QtcAssumption, FS_Interval
<1>2. LongEnough(r) \in SUBSET (1..QtcLines)
  BY DEF LongEnough
<1> DEFINE R == LongEnough(r)
           n == Cardinality(R)
           ks == InOrder(R)
           line(i) == [call |-> r.call, from |-> r.lines[ks[i]].from, count |-> r.count]
<1>3. R \in SUBSET Nat /\ IsFiniteSet(R)
  <2>1. R \in SUBSET Nat
    BY <1>1, <1>2
  <2> QED  BY <1>1, <1>2, <2>1, FS_Subset
<1>4. n \in Nat /\ ks \in [1..n -> R]
  <2> HIDE DEF R
  <2> QED  BY <1>3, InOrderIs
<1>5. ReceivedLines(r) = [i \in 1..n |-> line(i)]
  BY DEF ReceivedLines
<1> HIDE DEF R, n, ks
<1>6. ASSUME NEW i \in 1..n
      PROVE  line(i) \in RecvLogLine /\ ks[i] \in R
  <2>1. ks[i] \in R
    BY <1>4
  <2>2. ks[i] \in 1..QtcLines
    BY <1>2, <2>1 DEF R
  <2>3. r.lines[ks[i]] \in RecLine /\ r.call \in CallField /\ r.count \in Int
    BY <2>2 DEF RecList, RecLine
  <2> QED  BY <2>1, <2>3 DEF RecvLogLine, RecLine
<1>7. \A i \in 1..n : line(i).call = r.call /\ line(i).from = r.lines[ks[i]].from
  OBVIOUS
<1> HIDE DEF line
<1>8. /\ Len(ReceivedLines(r)) = n /\ \A i \in 1..n : ReceivedLines(r)[i] = line(i)
      /\ ReceivedLines(r) \in Seq(RecvLogLine)
  BY <1>4, <1>5, <1>6
<1> QED  BY <1>2, <1>3, <1>4, <1>6, <1>7, <1>8 DEF R, n

(* A line is confirmed: it is long enough from then on, and its number is  *)
(* counted; other lines stay as they are.                                  *)
Confirmed(s, r, k) ==
    /\ s \in RecList
    /\ s.call = r.call /\ s.serial = r.serial /\ s.count = r.count
    /\ s.confirmed = IF k <= r.count /\ (setup.digi \/ ~r.lines[k].confirmed)
                     THEN r.confirmed + 1 ELSE r.confirmed
    /\ \A j \in (1..QtcLines) \ {k} :
           /\ s.lines[j].text = r.lines[j].text /\ s.lines[j].from = r.lines[j].from
           /\ s.lines[j].confirmed = r.lines[j].confirmed
           /\ Locked(r.lines[j]) => Locked(s.lines[j])
    /\ s.lines[k].text \in {"flawed", "full"} /\ Locked(s.lines[k])
    /\ s.lines[k].from = IF r.lines[k].text = "none" THEN r.call ELSE r.lines[k].from
    /\ s.lines[k].confirmed = (r.lines[k].confirmed \/ k <= r.count)

LEMMA ConfirmIs ==
    ASSUME NEW r \in RecList, NEW k \in 1..QtcLines
    PROVE  Confirmed(Confirm(r, k), r, k)
<1> DEFINE l == r.lines[k]
           t == IF l.text \in {"none", "part"} THEN "flawed" ELSE l.text
           d == IF l.text = "none" THEN r.call ELSE l.from
           b == l.confirmed \/ k <= r.count
           n == IF k <= r.count /\ (setup.digi \/ ~l.confirmed) THEN r.confirmed + 1 ELSE r.confirmed
           new == [l EXCEPT !.text = t, !.status = 2, !.from = d, !.confirmed = b]
           lines == [r.lines EXCEPT ![k] = new]
           s == [r EXCEPT !.lines = lines, !.confirmed = n]
<1>1. /\ r.lines \in [1..QtcLines -> RecLine] /\ r.call \in CallField /\ r.confirmed \in Nat
      /\ r.count \in Int /\ l \in RecLine
  BY DEF RecList, RecLine
<1>2. t \in {"flawed", "full"} /\ d \in CallField /\ b \in BOOLEAN /\ n \in Nat
  BY <1>1 DEF RecLine
<1>3. Confirm(r, k) = ShowStatus(s, k)
  BY <1>1 DEF Confirm, RecLine, RecList
<1>4. l \in [text : {"none", "part", "flawed", "full"}, status : 0..2, confirmed : BOOLEAN,
             from : CallField]
  BY <1>1 DEF RecLine
<1> HIDE DEF t, d, b, n, l
<1>5. /\ t \in {"none", "part", "flawed", "full"} /\ 2 \in 0..2
      /\ d \in CallField /\ b \in BOOLEAN /\ n \in Nat /\ t \in {"flawed", "full"}
  BY <1>2
<1>6. new.text = t /\ new.status = 2 /\ new.from = d /\ new.confirmed = b
  BY <1>4
<1>7. new \in RecLine
  <2>1. ASSUME NEW u \in {"none", "part", "flawed", "full"}, NEW v \in 0..2, NEW w \in CallField,
               NEW x \in BOOLEAN
        PROVE  [l EXCEPT !.text = u, !.status = v, !.from = w, !.confirmed = x] \in RecLine
    BY <1>4 DEF RecLine
  <2> QED  BY <1>5, <2>1
<1>8. Locked(new)
  BY <1>6 DEF Locked
<1> HIDE DEF new
<1>9. lines \in [1..QtcLines -> RecLine] /\ lines[k] = new
      /\ \A j \in (1..QtcLines) \ {k} : lines[j] = r.lines[j]
  BY <1>1, <1>7
<1> HIDE DEF lines
<1>10. /\ s \in RecList /\ s.call = r.call /\ s.serial = r.serial /\ s.count = r.count
       /\ s.confirmed = n /\ s.lines = lines
  BY <1>5, <1>9 DEF RecList, RecLine
<1> HIDE DEF s
<1>11. SameBlock(Confirm(r, k), s)
  BY <1>3, <1>10, ShowStatusIs
<1> DEFINE f == Confirm(r, k)
<1> HIDE DEF f
<1>12. SameBlock(f, s)
  BY <1>11 DEF f
<1>13. /\ f \in RecList /\ f.call = r.call /\ f.serial = r.serial /\ f.count = r.count
       /\ f.confirmed = n
  BY <1>10, <1>12 DEF SameBlock
<1>14. \A j \in (1..QtcLines) \ {k} :
           /\ f.lines[j].text = r.lines[j].text /\ f.lines[j].from = r.lines[j].from
           /\ f.lines[j].confirmed = r.lines[j].confirmed
           /\ Locked(r.lines[j]) => Locked(f.lines[j])
  BY <1>9, <1>10, <1>12 DEF SameBlock
<1>15. /\ f.lines[k].text \in {"flawed", "full"} /\ Locked(f.lines[k])
       /\ f.lines[k].from = d /\ f.lines[k].confirmed = b
  BY <1>5, <1>6, <1>8, <1>9, <1>10, <1>12 DEF SameBlock
<1>16. Confirmed(f, r, k)
  BY <1>13, <1>14, <1>15 DEF Confirmed, n, d, b, l
<1> QED  BY <1>16 DEF f

(* Ctrl-S. *)
LEMMA SaveTypes ==
    ASSUME TypeInv, Save
    PROVE  DataInv' /\ WinOK'
<1>1. /\ qtclist \in SendList /\ qtclist.serial \in Nat /\ qtclist.serial > 0 /\ SaveSent(SentLines)
      /\ UNCHANGED <<setup, log, made, deleted>>
  BY DEF TypeInv, WinOK, SendList, Save
<1>2. DataInv'
  <2>1. SentLines \in Seq(SentLine)
    BY <1>1, SentLinesAre
  <2> QED  BY <1>1, <2>1, SaveSentKeeps DEF TypeInv
<1>3. qtclist' \in SendList /\ qtclist'.count = 0
  <2> DEFINE line(k) == [EmptyLine EXCEPT !.pos = qtclist.lines[k].pos]
             lines == [k \in 1..QtcLines |-> line(k)]
  <2>1. ASSUME NEW k \in 1..QtcLines PROVE line(k) \in ListLine
    <3>1. qtclist.lines[k].pos \in Nat \ {0}
      BY <1>1 DEF SendList
    <3> QED  BY <3>1 DEF EmptyLine, ListLine, NoQso
  <2>2. qtclist' = [[EmptyList EXCEPT !.serial = qtclist.serial] EXCEPT !.lines = lines]
    BY DEF Save
  <2> HIDE DEF line
  <2>3. lines \in [1..QtcLines -> ListLine]
    BY <2>1
  <2> HIDE DEF lines
  <2>4. EmptyList \in SendList /\ EmptyList.count = 0
    BY EmptyListIs DEF EmptyList
  <2> QED  BY <1>1, <2>2, <2>3, <2>4 DEF SendList, ListLine
<1>4. WinOK'
  <2>1. /\ prev' = NoCall /\ NoCall \in CallField /\ window' = "closed"
        /\ UNCHANGED <<setup, field, reclist, nrParsed, copied, lastcall>>
    BY DEF Save, CallField
  <2> QED  BY <1>3, <2>1 DEF TypeInv, WinOK, LastRecv
<1> QED  BY <1>2, <1>4

(* Enter in a line of a received block. *)
LEMMA StoreTypes ==
    ASSUME TypeInv, NEW r \in RecList, NEW shown \in RecList, StoreIfComplete(r, shown),
           field' \in 0..(LastRecv + 5), window = "recv",
           UNCHANGED <<setup, log, made, deleted, qtclist, prev, nrParsed, lastcall>>
    PROVE  DataInv' /\ WinOK'
<1>1. CASE /\ SaveReceived(ReceivedLines(r))
           /\ reclist' = NewRec /\ copied' = 0 /\ window' = "closed"
  <2>1. DataInv'
    <3>1. ReceivedLines(r) \in Seq(RecvLogLine)
      BY ReceivedLinesAre
    <3> QED  BY <1>1, <3>1, SaveReceivedKeeps DEF TypeInv
  <2> QED  BY <1>1, <2>1, NewRecIs DEF TypeInv, WinOK, LastRecv
<1>2. CASE /\ reclist' = shown
           /\ UNCHANGED <<sentLog, recvLog, metaLog, used, nextQso, nrSent, store, points, copied, window>>
  <2>1. DataInv'
    BY <1>2, IdleKeeps DEF TypeInv, Idle
  <2> QED  BY <1>2, <2>1 DEF TypeInv, WinOK, LastRecv
<1> QED  BY <1>1, <1>2 DEF StoreIfComplete

LEMMA RecvEnterTypes ==
    ASSUME TypeInv, RecvEnter
    PROVE  DataInv' /\ WinOK'
<1> DEFINE k == RecvLine(field)
           ok == Accepted(reclist.lines[k])
           r  == IF ok THEN Confirm(reclist, k) ELSE reclist
           to == IF ok /\ k <= reclist.count THEN NextLine(field) ELSE field
<1>1. /\ field \in RecvFields /\ k \in 1..QtcLines /\ reclist \in RecList
  BY Fields DEF TypeInv, WinOK, RecvEnter
<1>2. r \in RecList
  BY <1>1, ConfirmIs DEF Confirmed
<1>3. field' = to /\ to \in 0..(LastRecv + 5)
  <2>1. field' = to /\ (to = NextLine(field) \/ to = field)
    BY DEF RecvEnter
  <2>2. NextLine(field) \in 0..(LastRecv + 5) /\ field \in 0..(LastRecv + 5)
    <3>1. field \in 3..(3 * QtcLines + 2) /\ LastRecv = 3 * QtcLines /\ QtcLines \in Nat
      BY <1>1, Fields DEF RecvFields
    <3>2. field % 3 \in 0..2
      BY <3>1
    <3> QED  BY <3>1, <3>2 DEF NextLine
  <2> QED  BY <2>1, <2>2
<1>4. /\ StoreIfComplete(r, ShowFields(r, field, to)) /\ window = "recv"
      /\ UNCHANGED <<setup, log, made, deleted, qtclist, prev, nrParsed, lastcall>>
  BY DEF RecvEnter
<1> HIDE DEF k, ok, r, to
<1>5. ShowFields(r, field, to) \in RecList
  BY <1>2, ShowFieldsIs DEF SameBlock
<1> QED  BY <1>2, <1>3, <1>4, <1>5, StoreTypes

LEMMA OutsideTypes ==
    ASSUME TypeInv, RecvEnterOutside
    PROVE  DataInv' /\ WinOK'
<1>1. field' \in 0..(LastRecv + 5) /\ reclist \in RecList
  BY DEF TypeInv, WinOK, RecvEnterOutside, LastRecv
<1> QED  BY <1>1, StoreTypes DEF RecvEnterOutside

(* A "?" changes the status of a line only. *)
LEMMA QueryIs ==
    ASSUME TypeInv, QueryFull
    PROVE  /\ reclist \in RecList /\ reclist' \in RecList
           /\ reclist'.call = reclist.call /\ reclist'.confirmed = reclist.confirmed
           /\ \A j \in 1..QtcLines :
                  /\ reclist'.lines[j].text = reclist.lines[j].text
                  /\ reclist'.lines[j].from = reclist.lines[j].from
                  /\ reclist'.lines[j].confirmed = reclist.lines[j].confirmed
                  /\ j # RecvLine(field) => (Locked(reclist.lines[j]) => Locked(reclist'.lines[j]))
<1> DEFINE k == RecvLine(field)
           new == [reclist.lines[k] EXCEPT !.status = 1]
           lines == [reclist.lines EXCEPT ![k] = new]
           r == [reclist EXCEPT !.lines = lines]
<1>1. k \in 1..QtcLines
  BY Fields DEF QueryFull
<1>2. reclist \in RecList /\ reclist.lines \in [1..QtcLines -> RecLine]
  BY DEF TypeInv, WinOK, RecList, RecLine
<1>3. reclist' = ShowStatus(r, k)
  BY <1>2 DEF QueryFull, RecList
<1> HIDE DEF k
<1>4. /\ new \in RecLine /\ new.text = reclist.lines[k].text /\ new.from = reclist.lines[k].from
      /\ new.confirmed = reclist.lines[k].confirmed
  <2>1. reclist.lines[k] \in RecLine
    BY <1>1, <1>2
  <2> QED  BY <2>1 DEF RecLine
<1> HIDE DEF new
<1>5. /\ lines \in [1..QtcLines -> RecLine] /\ lines[k] = new
      /\ \A j \in 1..QtcLines : j # k => lines[j] = reclist.lines[j]
  BY <1>1, <1>2, <1>4
<1> HIDE DEF lines
<1>6. r \in RecList /\ r.lines = lines /\ r.call = reclist.call /\ r.confirmed = reclist.confirmed
  BY <1>2, <1>5 DEF RecList, RecLine
<1> HIDE DEF r
<1>7. SameBlock(reclist', r)
  BY <1>3, <1>6, ShowStatusIs
<1>8. \A j \in 1..QtcLines :
          /\ r.lines[j].text = reclist.lines[j].text /\ r.lines[j].from = reclist.lines[j].from
          /\ r.lines[j].confirmed = reclist.lines[j].confirmed
          /\ j # k => r.lines[j] = reclist.lines[j]
  BY <1>4, <1>5, <1>6
<1> QED  BY <1>2, <1>6, <1>7, <1>8 DEF SameBlock, k

LEMMA QueryTypes ==
    ASSUME TypeInv, QueryFull
    PROVE  WinOK'
<1>1. reclist' \in RecList
  BY QueryIs
<1> QED  BY <1>1 DEF QueryFull, TypeInv, WinOK, LastRecv

(* Marks, restarts, the main window and the LAN. *)
LEMMA CallsAre ==
    ASSUME DataOK, NEW c \in setup.stations
    PROVE  c \in Calls /\ c \in Stations /\ c \in CallField
  BY WindowAssumption DEF DataOK, Setup, CallField, Stations

LEMMA WinSame ==
    ASSUME TypeInv, UNCHANGED <<setup, qtclist, winVars>>
    PROVE  WinOK'
  BY DEF TypeInv, WinOK, winVars, LastRecv

LEMMA MarkTypes ==
    ASSUME TypeInv, NEW f \in {"later", "no"}, Mark(f)
    PROVE  DataInv' /\ WinOK'
<1> DEFINE c == IF window = "recv" THEN reclist.call ELSE qtclist.call
<1>1. c \in Stations
  BY DEF Mark, TypeInv, WinOK, RecList, SendList, CallField, Stations
<1>2. /\ MarkCall(c, f)
      /\ UNCHANGED <<setup, log, made, sentLog, recvLog, used, nextQso, nrSent, points, deleted>>
      /\ UNCHANGED <<setup, qtclist, winVars>>
  BY DEF Mark
<1> QED  BY <1>1, <1>2, MarkKeeps, WinSame DEF TypeInv

LEMMA RestartTypes ==
    ASSUME TypeInv, Restart
    PROVE  DataInv' /\ WinOK'
<1>1. /\ sentLog \in Seq(SentLine) /\ recvLog \in Seq(RecvLogLine) /\ log \in Seq(LogLine)
      /\ made \in Nat /\ deleted \in Nat
  BY DEF TypeInv, DataInv, DataOK
<1>2. /\ ReadQtcCalls(sentLog, recvLog, 0)
      /\ UNCHANGED <<setup, log, made, sentLog, recvLog, deleted>>
      /\ qtclist' = EmptyList /\ reclist' = NewRec /\ window' = "closed"
      /\ field' = 0 /\ prev' = NoCall /\ nrParsed' = 0 /\ copied' = 0 /\ lastcall' = FALSE
  BY DEF Restart
<1>3. DataInv'
  BY <1>1, <1>2, ReadKeeps DEF TypeInv
<1>4. EmptyList.count = 0 /\ NoCall \in CallField /\ 0 \in 0..(LastRecv + 5)
  BY Fields DEF EmptyList, CallField
<1>5. qtclist' \in SendList /\ qtclist'.count = 0 /\ reclist' \in RecList
  BY <1>2, <1>4, NewRecIs, EmptyListIs
<1>6. field' \in 0..(LastRecv + 5) /\ prev' \in CallField
  BY <1>2, <1>4
<1>7. window' = "closed" /\ nrParsed' \in Nat /\ copied' \in Nat /\ lastcall' \in BOOLEAN
  BY <1>2
<1>8. WinOK'
  BY <1>5, <1>6, <1>7 DEF WinOK, LastRecv
<1> QED  BY <1>3, <1>8

LEMMA LogKeeps ==
    ASSUME DataInv, NEW c \in Calls, LogQso(c), setup' = setup
    PROVE  DataInv'
<1>1. /\ log' = Append(log, [id |-> made + 1, call |-> c]) /\ made' = made + 1
      /\ log \in Seq(LogLine) /\ made \in Nat
      /\ UNCHANGED <<setup, sentLog, recvLog, metaLog, used, nextQso, nrSent, store, points, deleted>>
  BY DEF LogQso, DataInv, DataOK
<1>2. log' \in Seq(LogLine) /\ made' \in Nat
  <2>1. [id |-> made + 1, call |-> c] \in LogLine
    BY <1>1 DEF LogLine
  <2> QED  BY <1>1, <2>1
<1> QED  BY <1>1, <1>2 DEF DataInv, DataOK, Agreed, Passed, Positions, MetaWrite

LEMMA MainTypes ==
    ASSUME TypeInv, MainWindow
    PROVE  DataInv' /\ WinOK'
<1>1. DataInv'
  <2>1. CASE DeleteQso
    BY <2>1, DeleteKeeps DEF TypeInv, MainWindow
  <2>2. ASSUME NEW c \in setup.stations, LogQso(c) PROVE DataInv'
    <3>1. c \in Calls
      BY CallsAre DEF TypeInv, DataInv
    <3> QED  BY <2>2, <3>1, LogKeeps DEF TypeInv, MainWindow
  <2> QED  BY <2>1, <2>2 DEF MainWindow
<1>2. lastcall' \in BOOLEAN /\ UNCHANGED <<setup, qtclist, window, field, prev, reclist, nrParsed, copied>>
  BY DEF MainWindow, TypeInv, WinOK
<1> QED  BY <1>1, <1>2 DEF TypeInv, WinOK, LastRecv

LEMMA LanTypes ==
    ASSUME TypeInv, Lan
    PROVE  DataInv' /\ WinOK'
<1>1. UNCHANGED setup /\ UNCHANGED <<setup, qtclist, winVars>>
  BY DEF Lan
<1>2. ASSUME NEW pos \in 1..Len(log), NEW c \in setup.stations,
             RemoteSent(pos, IF setup.lan = "same" THEN log[pos].id ELSE NoQso, c)
      PROVE  DataInv'
  <2> DEFINE q == IF setup.lan = "same" THEN log[pos].id ELSE NoQso
             line == [qso |-> q, pos |-> pos, to |-> c, serial |-> nrSent + 1, count |-> 1]
  <2>1. c \in CallField /\ nrSent \in Nat /\ log \in Seq(LogLine)
    BY CallsAre DEF TypeInv, DataInv, DataOK
  <2>2. q \in Nat /\ pos \in Nat \ {0}
    <3>1. log[pos] \in LogLine
      BY <2>1
    <3> QED  BY <2>1, <3>1 DEF LogLine, NoQso
  <2>3. SaveSent(<<line>>) /\ UNCHANGED <<log, made, deleted>>
    BY <1>2 DEF RemoteSent
  <2> HIDE DEF q
  <2>4. line \in SentLine
    BY <2>1, <2>2 DEF SentLine
  <2> HIDE DEF line
  <2>5. <<line>> \in Seq(SentLine)
    BY <2>4
  <2> QED  BY <1>1, <2>3, <2>5, SaveSentKeeps DEF TypeInv
<1>3. ASSUME NEW c \in setup.stations, RemoteReceived(c) PROVE DataInv'
  <2>1. c \in CallField
    BY CallsAre DEF TypeInv, DataInv
  <2> DEFINE line == [call |-> c, from |-> c, count |-> 1]
  <2>2. line \in RecvLogLine
    BY <2>1 DEF RecvLogLine
  <2>3. SaveReceived(<<line>>) /\ UNCHANGED <<log, made, deleted>>
    BY <1>3 DEF RemoteReceived
  <2> HIDE DEF line
  <2>4. <<line>> \in Seq(RecvLogLine)
    BY <2>2
  <2> QED  BY <1>1, <2>3, <2>4, SaveReceivedKeeps DEF TypeInv
<1>4. ASSUME NEW c \in setup.stations, NEW f \in {"later", "no"}, RemoteMark(c, f) PROVE DataInv'
  <2>1. c \in Stations
    BY CallsAre DEF TypeInv, DataInv
  <2> QED  BY <1>1, <1>4, <2>1, MarkKeeps DEF TypeInv, RemoteMark
<1>5. DataInv'
  BY <1>2, <1>3, <1>4 DEF Lan
<1> QED  BY <1>1, <1>5, WinSame

LEMMA InitTypes == Init => TypeInv
<1> SUFFICES ASSUME Init PROVE TypeInv
  OBVIOUS
<1>1. EmptyStore \in [Stations -> Counters] /\ MetaWrite(EmptyStore) = {}
  BY DEF EmptyStore, Stations, Counters, MetaWrite
<1>2. DataOK
  <2>1. /\ setup \in Setups /\ log \in Seq(LogLine) /\ made \in Nat /\ deleted \in Nat
        /\ sentLog \in Seq(SentLine) /\ recvLog \in Seq(RecvLogLine)
    BY DEF Init
  <2>2. /\ metaLog \subseteq (Stations \X {"later", "no"})
        /\ used \subseteq Nat \ {0} /\ nextQso \in Nat \ {0}
        /\ nrSent \in Nat /\ points \in Nat
    BY DEF Init
  <2>3. store \in [CallField -> Counters]
    BY <1>1 DEF Init, Stations
  <2> QED  BY <2>1, <2>2, <2>3 DEF DataOK, Stations
<1>3. Agreed
  <2>1. \A c \in Stations : store[c].send = 0 /\ store[c].recv = 0
    BY DEF Init, EmptyStore, Stations
  <2>2. /\ \A c : {i \in 1..Len(sentLog) : sentLog[i].to = c} = {}
        /\ \A c : {i \in 1..Len(recvLog) : recvLog[i].call = c} = {}
        /\ Len(sentLog) = 0 /\ Len(recvLog) = 0
    BY DEF Init
  <2>3. \A c \in Stations :
            /\ store[c].send = Cardinality({i \in 1..Len(sentLog) : sentLog[i].to = c})
            /\ store[c].recv = Cardinality({i \in 1..Len(recvLog) : recvLog[i].call = c})
    BY <2>1, <2>2, FS_EmptySet
  <2>4. Positions(sentLog) = {} /\ used = {} /\ Passed(nextQso, used)
    BY <2>2 DEF Init, Positions, Passed
  <2>5. metaLog = MetaWrite(store)
    BY <1>1 DEF Init
  <2> QED  BY <2>2, <2>3, <2>4, <2>5 DEF Init, Agreed
<1>4. WinOK
  <2>1. qtclist \in SendList /\ qtclist.count = 0 /\ reclist \in RecList
    BY NewRecIs, EmptyListIs DEF Init, EmptyList
  <2>2. field \in 0..(LastRecv + 5) /\ prev \in CallField
    BY Fields DEF Init, CallField
  <2>3. window = "closed" /\ nrParsed = 0 /\ copied = 0 /\ lastcall = FALSE
    BY DEF Init
  <2>4. nrParsed \in Nat /\ copied \in Nat /\ lastcall \in BOOLEAN
        /\ window \in {"closed"} \cup setup.dirs
    BY <2>3
  <2>5. qtclist.count > 0 => qtclist.serial > 0
    BY <2>1
  <2> QED  BY <2>1, <2>2, <2>4, <2>5 DEF WinOK
<1> QED  BY <1>2, <1>3, <1>4 DEF TypeInv, DataInv

LEMMA NextTypes == TypeInv /\ [Next]_vars => TypeInv'
<1> SUFFICES ASSUME TypeInv, [Next]_vars PROVE TypeInv'
  OBVIOUS
<1> USE DEF TypeInv
<1>1. ASSUME NEW dir \in Directions, NEW c \in setup.stations \cup {NoCall}, Open(dir, c)
      PROVE  TypeInv'
  BY <1>1, IdleKeeps, OpenTypes DEF Open
<1>2. CASE Escape
  BY <1>2, IdleKeeps, HeaderTypes DEF Escape
<1>3. CASE Move
  BY <1>3, IdleKeeps, MoveTypes DEF Move
<1>4. ASSUME NEW c \in setup.stations \cup {NoCall, Partial}, EditCall(c) PROVE TypeInv'
  BY <1>4, IdleKeeps, EditCallTypes DEF EditCall
<1>5. ASSUME NEW n \in 0..QtcLines, TypeCount(n) PROVE TypeInv'
  BY <1>5, IdleKeeps, CountTypes DEF TypeCount
<1>6. ASSUME NEW n \in 0..1, EraseCount(n) PROVE TypeInv'
  BY <1>6, IdleKeeps, EraseTypes DEF EraseCount
<1>7. ASSUME NEW n \in 0..1, TypeSerial(n) PROVE TypeInv'
  BY <1>7, IdleKeeps, HeaderTypes DEF TypeSerial
<1>8. CASE SendEnter
  BY <1>8, IdleKeeps, SendTypes DEF SendEnter
<1>9. CASE SendEnterOutside
  BY <1>9, IdleKeeps, SendTypes DEF SendEnterOutside
<1>10. CASE SendBlock
  BY <1>10, IdleKeeps, SendTypes DEF SendBlock
<1>11. CASE Unsend
  BY <1>11, IdleKeeps, SendTypes DEF Unsend
<1>12. CASE Save
  BY <1>12, SaveTypes
<1>13. ASSUME NEW t \in {"none", "part", "flawed", "full"}, NEW q \in BOOLEAN, TypeInLine(t, q)
       PROVE  TypeInv'
  BY <1>13, IdleKeeps, TypingTypes DEF TypeInLine
<1>14. CASE FillTimes
  BY <1>14, IdleKeeps, FillTypes DEF FillTimes
<1>15. CASE RecvEnter
  BY <1>15, RecvEnterTypes
<1>16. CASE HeaderEnter
  BY <1>16, IdleKeeps, HeaderTypes DEF HeaderEnter
<1>17. ASSUME NEW n \in 1..QtcLines, ParseHeader(n) PROVE TypeInv'
  BY <1>17, IdleKeeps, ParseTypes DEF ParseHeader
<1>18. ASSUME NEW t \in {"part", "flawed", "full"}, ParseLine(t) PROVE TypeInv'
  BY <1>18, IdleKeeps, ParseTypes DEF ParseLine
<1>19. CASE ResetTerminal
  BY <1>19, IdleKeeps, HeaderTypes DEF ResetTerminal
<1>20. ASSUME NEW f \in {"later", "no"}, Mark(f) PROVE TypeInv'
  BY <1>20, MarkTypes
<1>21. CASE Restart
  BY <1>21, RestartTypes
<1>22. CASE MainWindow
  BY <1>22, MainTypes
<1>23. CASE Lan
  BY <1>23, LanTypes
<1>24. CASE UNCHANGED vars
  BY <1>24, IdleKeeps, WinSame DEF vars, dataVars, Idle
<1>25. CASE QueryFull
  BY <1>25, IdleKeeps, QueryTypes DEF QueryFull
<1>26. CASE RecvEnterOutside
  BY <1>26, OutsideTypes
<1> QED  BY <1>1, <1>2, <1>3, <1>4, <1>5, <1>6, <1>7, <1>8, <1>9, <1>10, <1>11, <1>12, <1>13,
            <1>14, <1>15, <1>16, <1>17, <1>18, <1>19, <1>20, <1>21, <1>22, <1>23, <1>24, <1>25,
            <1>26 DEF Next

(* The variables of the QTC window and of the QTC data have their types: for *)
(* every configuration, station and length of a block.                     *)
THEOREM TypeCorrect == Spec => []TypeOK
<1>1. Spec => []TypeInv
  BY InitTypes, NextTypes, PTL DEF Spec
<1> QED  BY <1>1, TypeInvIsTypeOK, PTL

-----------------------------------------------------------------------------
(* Memory and files.                                                       *)

LEMMA StoreIsRead ==
    ASSUME DataInv
    PROVE  store = ReadStore(sentLog, recvLog, metaLog)
<1> DEFINE read == ReadStore(sentLog, recvLog, metaLog)
<1>1. store \in [Stations -> Counters] /\ metaLog = MetaWrite(store)
  BY DEF DataInv, DataOK, Agreed, Stations
<1>2. DOMAIN EmptyStore = Stations
  BY DEF EmptyStore, Stations
<1>3. ASSUME NEW c \in Stations PROVE store[c] = read[c]
  <2> DEFINE r == Cardinality({i \in 1..Len(recvLog) : recvLog[i].call = c})
             s == Cardinality({i \in 1..Len(sentLog) : sentLog[i].to = c})
             f == IF \E g \in {"later", "no"} : <<c, g>> \in metaLog
                  THEN CHOOSE g \in {"later", "no"} : <<c, g>> \in metaLog ELSE "none"
  <2>1. f = store[c].flag
    <3>1. store[c].flag \in {"none", "later", "no"} /\ DOMAIN store = Stations
      BY <1>1 DEF Counters
    <3>2. store[c].flag # "none" => <<c, store[c].flag>> \in metaLog
      BY <1>1, <3>1 DEF MetaWrite
    <3> QED  BY <1>1, <3>2, MarksRead
  <2>2. store[c].recv = r /\ store[c].send = s
    BY DEF DataInv, Agreed
  <2>3. read[c] = [recv |-> r, send |-> s, flag |-> f]
    BY <1>2 DEF ReadStore
  <2> HIDE DEF r, s, f, read
  <2>4. store[c] \in Counters
    BY <1>1
  <2>5. store[c] = [recv |-> store[c].recv, send |-> store[c].send, flag |-> store[c].flag]
    BY <2>4 DEF Counters
  <2> QED  BY <2>1, <2>2, <2>3, <2>5
<1>4. read = [c \in Stations |-> read[c]]
  BY <1>2 DEF ReadStore
<1> HIDE DEF read
<1>5. store = [c \in Stations |-> store[c]]
  BY <1>1
<1>6. store = read
  BY <1>3, <1>4, <1>5
<1> QED  BY <1>6 DEF read

LEMMA DataIsRead == DataInv => ReadBackSame
<1> SUFFICES ASSUME DataInv PROVE ReadBackSame
  OBVIOUS
<1>1. /\ used = Positions(sentLog) /\ points = Len(sentLog) + Len(recvLog)
      /\ \A i \in 1..Len(sentLog) : sentLog[i].serial <= nrSent
      /\ setup.maxDeletes = 0 => nrSent \in {0} \cup {sentLog[i].serial : i \in 1..Len(sentLog)}
      /\ Passed(nextQso, used) /\ nextQso \in Nat \ {0}
  BY DEF DataInv, DataOK, Agreed
<1>2. ASSUME NEW p \in 1..Len(log), p \notin used
      PROVE  p >= nextQso /\ p >= FirstFree(Positions(sentLog))
  <2>1. p \in Nat \ {0}
    BY DEF DataInv, DataOK
  <2>2. p >= nextQso
    BY <1>1, <1>2, <2>1 DEF Passed
  <2>3. used \in SUBSET (Nat \ {0}) /\ IsFiniteSet(used)
    <3>1. Len(sentLog) \in Nat
      BY DEF DataInv, DataOK
    <3> QED  BY <1>1, <3>1, PositionsFinite DEF Positions, DataInv, DataOK
  <2>4. p >= FirstFree(used)
    BY <1>2, <2>1, <2>3, FirstFreeIs
  <2> QED  BY <1>1, <2>2, <2>4
<1> QED  BY <1>1, <1>2, StoreIsRead DEF ReadBackSame

(* What store_qtc() keeps up to date in memory is what readqtccalls() makes *)
(* of the files.                                                           *)
THEOREM ReadBack == Spec => []ReadBackSame
<1>1. Spec => []TypeInv
  BY InitTypes, NextTypes, PTL DEF Spec
<1>2. TypeInv => ReadBackSame
  BY DataIsRead DEF TypeInv
<1> QED  BY <1>1, <1>2, PTL

-----------------------------------------------------------------------------
(* Blocks that are received come from one station.                         *)

FromCall(r) == \A k \in 1..QtcLines : r.lines[k].text # "none" => r.lines[k].from = r.call

HasText(r) == \E k \in 1..QtcLines : r.lines[k].text # "none"

\* On a node that does not send, nothing else changes the call of the last
\* block, and the lines are of the station in the call field.
FromInv ==
    /\ FromOneStation
    /\ "send" \notin setup.dirs =>
           /\ FromCall(reclist)
           /\ window = "recv" \/ HasText(reclist) => prev = reclist.call

LEMMA OneDirection ==
    ASSUME DataOK, Cardinality(setup.dirs) = 1, "recv" \in setup.dirs
    PROVE  "send" \notin setup.dirs
<1>1. SUFFICES ASSUME "send" \in setup.dirs PROVE FALSE
  OBVIOUS
<1>2. setup.dirs \subseteq Directions
  BY WindowAssumption DEF DataOK, Setup
<1>3. setup.dirs = {"recv"} \cup {"send"}
  BY <1>1, <1>2 DEF Directions
<1>4. Cardinality({"recv"} \cup {"send"}) = Cardinality({"recv"}) + 1
  BY FS_Singleton, FS_AddElement
<1>5. Cardinality({"recv"}) = 1
  BY FS_Singleton
<1> QED  BY <1>3, <1>4, <1>5

LEMMA SameBlockFrom ==
    ASSUME NEW r \in RecList, NEW s, SameBlock(s, r)
    PROVE  FromCall(r) <=> FromCall(s)
  BY DEF SameBlock, FromCall

\* In the open window the call of the last block is the one in the field.
LEMMA FromInWindow ==
    ASSUME TypeInv, FromInv, window = "recv",
           setup' = setup, window' = window, recvLog' = recvLog,
           prev = reclist.call => prev' = reclist'.call,
           prev = reclist.call /\ FromCall(reclist) => FromCall(reclist')
    PROVE  FromInv'
<1>1. FromOneStation'
  BY DEF FromInv, FromOneStation, OneStation
<1> QED  BY <1>1 DEF FromInv

\* What other actions leave alone.
LEMMA FromElsewhere ==
    ASSUME FromInv, UNCHANGED <<setup, window, recvLog>>,
           "send" \notin setup.dirs => UNCHANGED <<prev, reclist>>
    PROVE  FromInv'
  BY DEF FromInv, FromOneStation, OneStation, FromCall, HasText

LEMMA FromTyped ==
    ASSUME NEW r \in RecList, NEW k \in 1..QtcLines, NEW new \in RecLine,
           new.text # "none" => new.from = r.call,
           FromCall(r)
    PROVE  /\ [r EXCEPT !.lines[k] = new] \in RecList
           /\ [r EXCEPT !.lines[k] = new].call = r.call
           /\ FromCall([r EXCEPT !.lines[k] = new])
<1> DEFINE lines == [r.lines EXCEPT ![k] = new]
           s == [r EXCEPT !.lines = lines]
<1>1. r.lines \in [1..QtcLines -> RecLine]
  BY DEF RecList, RecLine
<1>2. lines \in [1..QtcLines -> RecLine] /\ lines[k] = new
      /\ \A j \in (1..QtcLines) \ {k} : lines[j] = r.lines[j]
  BY <1>1
<1>3. [r EXCEPT !.lines[k] = new] = s
  BY DEF RecList
<1> HIDE DEF lines
<1>4. s \in RecList /\ s.call = r.call /\ s.lines = lines
  BY <1>2 DEF RecList, RecLine
<1> HIDE DEF s
<1>5. FromCall(s)
  BY <1>2, <1>4 DEF FromCall
<1> QED  BY <1>3, <1>4, <1>5

LEMMA FromNew == FromCall(NewRec) /\ ~HasText(NewRec)
  BY DEF NewRec, NewLine, FromCall, HasText

LEMMA FromOpen ==
    ASSUME TypeInv, FromInv, NEW dir \in Directions, NEW c \in setup.stations \cup {NoCall},
           Open(dir, c)
    PROVE  FromInv'
<1>1. setup' = setup /\ recvLog' = recvLog /\ window' = dir /\ dir \in setup.dirs
      /\ reclist \in RecList /\ c \in CallField
  BY CallsAre DEF Open, Idle, TypeInv, WinOK, DataInv, CallField
<1>2. FromOneStation'
  BY <1>1 DEF FromInv, FromOneStation, OneStation
<1>3. CASE PrepareForSend(c) /\ UNCHANGED reclist /\ dir = "send"
  BY <1>1, <1>2, <1>3 DEF FromInv
<1>4. CASE PrepareForRecv(c) /\ "send" \notin setup.dirs
  <2> DEFINE r   == IF c = NoCall THEN reclist ELSE [reclist EXCEPT !.call = c]
             fresh == r.call # prev \/ r.call = NoCall
             empty == [NewRec EXCEPT !.call = r.call]
             new == IF fresh THEN empty ELSE r
  <2>1. r \in RecList /\ r.lines = reclist.lines /\ r.call \in CallField
    BY <1>1 DEF RecList
  <2>2. reclist' = ShowAll(new) /\ prev' = new.call
    BY <1>4 DEF PrepareForRecv
  <2> HIDE DEF r
  <2>3. empty \in RecList /\ empty.call = r.call /\ empty.lines = NewRec.lines
    BY <2>1, NewRecIs DEF RecList
  <2> HIDE DEF empty
  <2>4. new \in RecList /\ FromCall(new)
    <3>1. CASE fresh
      BY <2>3, <3>1, FromNew DEF FromCall, HasText
    <3>2. CASE ~fresh
      <4>1. HasText(reclist) => reclist.call = r.call
        BY <1>4, <3>2 DEF FromInv
      <4>2. FromCall(r)
        BY <1>4, <2>1, <4>1 DEF FromInv, FromCall, HasText
      <4> QED  BY <2>1, <3>2, <4>2
    <3> QED  BY <3>1, <3>2
  <2> HIDE DEF new
  <2>5. SameBlock(reclist', new)
    BY <2>2, <2>4, ShowAllIs
  <2>6. FromCall(reclist') /\ prev' = reclist'.call
    BY <2>2, <2>4, <2>5, SameBlockFrom DEF SameBlock
  <2> QED  BY <1>1, <1>2, <2>6 DEF FromInv
<1>5. CASE PrepareForRecv(c) /\ "send" \in setup.dirs
  BY <1>1, <1>2, <1>5 DEF FromInv
<1> QED  BY <1>3, <1>4, <1>5 DEF Open

LEMMA FromEdit ==
    ASSUME TypeInv, FromInv, NEW c \in setup.stations \cup {NoCall, Partial}, EditCall(c)
    PROVE  FromInv'
<1>1. setup' = setup /\ recvLog' = recvLog /\ window' = window /\ reclist \in RecList
  BY DEF EditCall, Idle, TypeInv, WinOK
<1>2. CASE window = "send"
  <2>1. "send" \in setup.dirs
    BY <1>2 DEF TypeInv, WinOK
  <2> QED  BY <1>1, <2>1, FromElsewhere
<1>3. CASE window = "recv"
  <2> DEFINE new(k) == [reclist.lines[k] EXCEPT !.from = IF @ = reclist.call THEN c ELSE @]
             lines == [k \in 1..QtcLines |-> new(k)]
  <2>1. reclist' = [reclist EXCEPT !.call = c, !.lines = lines] /\ prev' = c
    BY <1>3 DEF EditCall
  <2>2. ASSUME NEW k \in 1..QtcLines
        PROVE  /\ new(k).text = reclist.lines[k].text
               /\ reclist.lines[k].from = reclist.call => new(k).from = c
    <3>1. reclist.lines[k] \in RecLine
      BY <1>1 DEF RecList, RecLine
    <3> QED  BY <3>1 DEF RecLine
  <2> HIDE DEF new
  <2>3. \A k \in 1..QtcLines : lines[k] = new(k)
    OBVIOUS
  <2> HIDE DEF lines
  <2>4. reclist'.call = c /\ reclist'.lines = lines
    BY <1>1, <2>1 DEF RecList
  <2>5. FromCall(reclist) => FromCall(reclist')
    BY <2>2, <2>3, <2>4 DEF FromCall
  <2> QED  BY <1>1, <1>3, <2>1, <2>4, <2>5, FromInWindow
<1> QED  BY <1>2, <1>3 DEF EditCall

\* Text comes from the station in the call field.
LEMMA FromText ==
    ASSUME TypeInv, FromInv,
           \/ \E t \in {"none", "part", "flawed", "full"}, q \in BOOLEAN : TypeInLine(t, q)
           \/ \E t \in {"part", "flawed", "full"} : ParseLine(t)
    PROVE  FromInv'
<1>1. /\ reclist \in RecList /\ reclist.call \in CallField /\ window = "recv"
      /\ UNCHANGED <<setup, window, recvLog, prev>>
  BY DEF TypeInv, WinOK, RecList, TypeInLine, ParseLine, Idle
<1>2. ASSUME NEW k \in 1..QtcLines, NEW t \in {"none", "part", "flawed", "full"}, NEW q \in BOOLEAN,
             reclist' = ShowStatus([reclist EXCEPT !.lines[k] = Typed(reclist.lines[k], t, q)], k),
             FromCall(reclist)
      PROVE  FromCall(reclist') /\ reclist'.call = reclist.call
  <2> DEFINE new == Typed(reclist.lines[k], t, q)
             r == [reclist EXCEPT !.lines[k] = new]
  <2>1. new \in RecLine /\ new.from = reclist.call
    <3> DEFINE l == reclist.lines[k]
    <3>1. l \in RecLine
      BY <1>1 DEF RecList, RecLine
    <3> HIDE DEF l
    <3>2. reclist.call \in CallField
      BY <1>1
    <3>3. Typed(l, t, q) \in RecLine
      BY <3>1, <3>2, TypedIs
    <3>4. Typed(l, t, q).from = reclist.call
      BY <3>1 DEF Typed, RecLine
    <3> QED  BY <3>3, <3>4 DEF l
  <2>2. reclist' = ShowStatus(r, k)
    BY <1>2
  <2> HIDE DEF new
  <2>3. r \in RecList /\ r.call = reclist.call /\ FromCall(r)
    BY <1>1, <1>2, <2>1, FromTyped
  <2> HIDE DEF r
  <2>4. SameBlock(reclist', r)
    BY <2>2, <2>3, ShowStatusIs
  <2> QED  BY <2>3, <2>4, SameBlockFrom DEF SameBlock
<1>3. ASSUME NEW k, NEW t \in {"none", "part", "flawed", "full"}, NEW q \in BOOLEAN,
             k \in 1..QtcLines,
             reclist' = ShowStatus([reclist EXCEPT !.lines[k] = Typed(reclist.lines[k], t, q)], k)
      PROVE  FromInv'
  <2>1. FromCall(reclist) => FromCall(reclist') /\ reclist'.call = reclist.call
    BY <1>2, <1>3
  <2>2. prev = reclist.call /\ FromCall(reclist) => FromCall(reclist') /\ prev' = reclist'.call
    BY <1>1, <2>1
  <2>3. FromOneStation'
    BY <1>1 DEF FromInv, FromOneStation, OneStation
  <2> QED  BY <1>1, <2>2, <2>3 DEF FromInv
<1>4. ASSUME NEW t \in {"none", "part", "flawed", "full"}, NEW q \in BOOLEAN, TypeInLine(t, q)
      PROVE  FromInv'
  <2>1. RecvLine(field) \in 1..QtcLines
    BY <1>4, Fields DEF TypeInLine
  <2> QED  BY <1>3, <1>4, <2>1 DEF TypeInLine
<1>5. ASSUME NEW t \in {"part", "flawed", "full"}, ParseLine(t) PROVE FromInv'
  <2> DEFINE k == NextParsed
  <2>1. k \in Nat /\ k > 0
    BY <1>5 DEF ParseLine, NextParsed, TypeInv, WinOK
  <2>2. CASE k > QtcLines
    <3>1. reclist' = reclist
      BY <1>5, <2>2 DEF ParseLine
    <3> QED  BY <1>1, <3>1, FromElsewhere
  <2>3. CASE ~(k > QtcLines)
    <3>1. k \in 1..QtcLines
      BY <2>1, <2>3, QtcAssumption
    <3>2. reclist' = ShowStatus([reclist EXCEPT !.lines[k] = Typed(@, t, t = "flawed")], k)
      BY <1>5, <2>3 DEF ParseLine
    <3> HIDE DEF k
    <3>3. reclist' = ShowStatus([reclist EXCEPT !.lines[k] = Typed(reclist.lines[k], t, t = "flawed")], k)
      BY <1>1, <3>1, <3>2 DEF RecList
    <3> QED  BY <1>3, <3>1, <3>3
  <2> QED  BY <2>2, <2>3
<1> QED  BY <1>4, <1>5

LEMMA FromFill ==
    ASSUME TypeInv, FromInv, FillTimes
    PROVE  FromInv'
<1> DEFINE k == RecvLine(field)
           line(j) == IF j > k /\ j <= reclist.count
                      THEN Filled(reclist.lines[j]) ELSE reclist.lines[j]
           lines == [j \in 1..QtcLines |-> line(j)]
<1>1. /\ reclist' = [reclist EXCEPT !.lines = lines] /\ window = "recv"
      /\ UNCHANGED <<setup, window, prev, recvLog>>
      /\ reclist \in RecList
  BY DEF FillTimes, Idle, TypeInv, WinOK
<1>2. ASSUME NEW j \in 1..QtcLines, FromCall(reclist), line(j).text # "none"
      PROVE  line(j).from = reclist.call
  <2>1. reclist.lines[j] \in RecLine /\ reclist.call \in CallField
    BY <1>1 DEF RecList, RecLine
  <2> QED  BY <1>2, <2>1, FilledIs DEF FromCall
<1> HIDE DEF line
<1>3. \A j \in 1..QtcLines : lines[j] = line(j)
  OBVIOUS
<1> HIDE DEF lines
<1>4. reclist'.call = reclist.call /\ reclist'.lines = lines
  BY <1>1 DEF RecList
<1>5. FromCall(reclist) => FromCall(reclist')
  BY <1>2, <1>3, <1>4 DEF FromCall
<1> QED  BY <1>1, <1>4, <1>5, FromInWindow

\* What changes the header or the cursor only.
LEMMA FromHeader ==
    ASSUME TypeInv, FromInv,
           \/ Move \/ HeaderEnter
           \/ \E n \in 0..QtcLines : TypeCount(n)
           \/ \E n \in 0..1 : EraseCount(n)
           \/ \E n \in 0..1 : TypeSerial(n)
           \/ \E n \in 1..QtcLines : ParseHeader(n)
    PROVE  FromInv'
<1>1. /\ UNCHANGED <<setup, window, prev, recvLog>> /\ window \in {"recv", "send"}
      /\ reclist \in RecList
  BY DEF Move, HeaderEnter, TypeCount, EraseCount, TypeSerial, ParseHeader, Idle, TypeInv, WinOK,
         WindowAssumption, Directions
<1>2. CASE window = "send"
  <2>1. "send" \in setup.dirs
    BY <1>2 DEF TypeInv, WinOK
  <2> QED  BY <1>1, <2>1, FromElsewhere
<1>3. CASE window = "recv"
  <2>1. reclist'.call = reclist.call /\ (FromCall(reclist) => FromCall(reclist'))
    <3>1. ASSUME SameBlock(reclist', reclist)
          PROVE  reclist'.call = reclist.call /\ (FromCall(reclist) => FromCall(reclist'))
      BY <1>1, <3>1, SameBlockFrom DEF SameBlock
    <3>2. ASSUME reclist'.call = reclist.call, reclist'.lines = reclist.lines
          PROVE  reclist'.call = reclist.call /\ (FromCall(reclist) => FromCall(reclist'))
      BY <3>2 DEF FromCall
    <3>3. CASE Move
      BY <1>1, <1>3, <3>1, <3>3, ShowFieldsIs DEF Move
    <3>4. CASE HeaderEnter
      BY <1>1, <3>1, <3>4, ShowStatusIs DEF HeaderEnter
    <3>5. ASSUME NEW n, TypeCount(n) \/ EraseCount(n) \/ TypeSerial(n) \/ ParseHeader(n)
          PROVE  reclist'.call = reclist.call /\ reclist'.lines = reclist.lines
      BY <1>1, <1>3, <3>5 DEF RecList, TypeCount, EraseCount, TypeSerial, ParseHeader
    <3> QED  BY <3>2, <3>3, <3>4, <3>5
  <2> QED  BY <1>1, <1>3, <2>1, FromInWindow
<1> QED  BY <1>1, <1>2, <1>3

(* Enter in a line: it stays a line of the station, and what is stored     *)
(* goes under the station the lines came from.                             *)
LEMMA FromStore ==
    ASSUME TypeInv, FromInv, NEW r \in RecList, NEW shown, SameBlock(shown, r),
           StoreIfComplete(r, shown), r.call = reclist.call, FromCall(reclist) => FromCall(r),
           window = "recv", "recv" \in setup.dirs, UNCHANGED <<setup, prev>>
    PROVE  FromInv'
<1>1. CASE SaveReceived(ReceivedLines(r)) /\ reclist' = NewRec /\ window' = "closed"
  <2> DEFINE lines == ReceivedLines(r)
  <2>1. /\ lines \in Seq(RecvLogLine) /\ recvLog \in Seq(RecvLogLine) /\ LongEnough(r) \subseteq 1..QtcLines
        /\ \A i \in 1..Len(lines) : \E j \in LongEnough(r) :
               lines[i].call = r.call /\ lines[i].from = r.lines[j].from
    BY ReceivedLinesAre DEF TypeInv, DataInv, DataOK
  <2>2. recvLog' = recvLog \o lines
    BY <1>1 DEF SaveReceived
  <2> HIDE DEF lines
  <2>3. ASSUME NEW i \in 1..Len(lines), FromCall(r) PROVE lines[i].from = lines[i].call
    <3>1. PICK j \in LongEnough(r) : lines[i].call = r.call /\ lines[i].from = r.lines[j].from
      BY <2>1
    <3>2. j \in 1..QtcLines /\ r.lines[j].text # "none"
      BY <2>1 DEF LongEnough
    <3> QED  BY <2>3, <3>1, <3>2 DEF FromCall
  <2>4. ASSUME OneStation, FromCall(r) PROVE OneStation'
    <3>1. ASSUME NEW i \in 1..Len(recvLog \o lines)
          PROVE  (recvLog \o lines)[i].from = (recvLog \o lines)[i].call
      <4>1. CASE i <= Len(recvLog)
        <5>1. i \in 1..Len(recvLog) /\ (recvLog \o lines)[i] = recvLog[i]
          BY <2>1, <4>1
        <5> QED  BY <2>4, <5>1 DEF OneStation
      <4>2. CASE ~(i <= Len(recvLog))
        <5> DEFINE m == i - Len(recvLog)
        <5>1. m \in 1..Len(lines) /\ (recvLog \o lines)[i] = lines[m]
          BY <2>1, <4>2
        <5> QED  BY <2>3, <2>4, <5>1
      <4> QED  BY <4>1, <4>2
    <3> QED  BY <2>2, <3>1 DEF OneStation
  <2>5. FromOneStation'
    <3> SUFFICES ASSUME Cardinality(setup.dirs) = 1 PROVE OneStation'
      BY DEF FromOneStation
    <3>1. "send" \notin setup.dirs
      BY OneDirection DEF TypeInv, DataInv
    <3>2. OneStation /\ FromCall(r)
      BY <3>1 DEF FromInv, FromOneStation
    <3> QED  BY <2>4, <3>2
  <2> QED  BY <1>1, <2>5, FromNew DEF FromInv
<1>2. CASE reclist' = shown /\ UNCHANGED <<recvLog, window>>
  <2>1. reclist'.call = reclist.call /\ (FromCall(reclist) => FromCall(reclist'))
    BY <1>2, SameBlockFrom DEF SameBlock
  <2> QED  BY <1>2, <2>1, FromInWindow
<1> QED  BY <1>1, <1>2 DEF StoreIfComplete

LEMMA FromEnter ==
    ASSUME TypeInv, FromInv, RecvEnter
    PROVE  FromInv'
<1> DEFINE k == RecvLine(field)
           ok == Accepted(reclist.lines[k])
           r  == IF ok THEN Confirm(reclist, k) ELSE reclist
           to == IF ok /\ k <= reclist.count THEN NextLine(field) ELSE field
<1>1. /\ field \in RecvFields /\ k \in 1..QtcLines /\ reclist \in RecList /\ window = "recv"
      /\ "recv" \in setup.dirs /\ UNCHANGED <<setup, prev>>
  BY Fields DEF TypeInv, WinOK, RecvEnter
<1>2. r \in RecList /\ r.call = reclist.call /\ (FromCall(reclist) => FromCall(r))
  <2>1. Confirmed(Confirm(reclist, k), reclist, k)
    BY <1>1, ConfirmIs
  <2> DEFINE c == Confirm(reclist, k)
  <2> HIDE DEF c
  <2>2. Confirmed(c, reclist, k)
    BY <2>1 DEF c
  <2> HIDE DEF k
  <2>3. c \in RecList /\ c.call = reclist.call
    BY <2>2 DEF Confirmed
  <2>4. ASSUME FromCall(reclist), NEW j \in 1..QtcLines, c.lines[j].text # "none"
        PROVE  c.lines[j].from = c.call
    BY <1>1, <2>2, <2>3, <2>4 DEF Confirmed, FromCall
  <2>5. FromCall(reclist) => FromCall(c)
    BY <2>4 DEF FromCall
  <2>6. r = c \/ r = reclist
    BY DEF c, k
  <2> QED  BY <1>1, <2>3, <2>5, <2>6
<1>3. StoreIfComplete(r, ShowFields(r, field, to))
  BY DEF RecvEnter
<1> HIDE DEF k, ok, r, to
<1>4. SameBlock(ShowFields(r, field, to), r)
  BY <1>2, ShowFieldsIs
<1> QED  BY <1>1, <1>2, <1>3, <1>4, FromStore

LEMMA FromOutside ==
    ASSUME TypeInv, FromInv, RecvEnterOutside
    PROVE  FromInv'
<1>1. /\ reclist \in RecList /\ window = "recv" /\ "recv" \in setup.dirs
      /\ UNCHANGED <<setup, prev>> /\ StoreIfComplete(reclist, reclist)
  BY DEF TypeInv, WinOK, RecvEnterOutside
<1>2. SameBlock(reclist, reclist)
  BY <1>1 DEF SameBlock
<1> QED  BY <1>1, <1>2, FromStore

LEMMA FromQuery ==
    ASSUME TypeInv, FromInv, QueryFull
    PROVE  FromInv'
<1>1. window = "recv" /\ UNCHANGED <<setup, window, recvLog, prev>>
  BY DEF QueryFull, Idle
<1>2. reclist'.call = reclist.call /\ (FromCall(reclist) => FromCall(reclist'))
  BY QueryIs DEF FromCall
<1> QED  BY <1>1, <1>2, FromInWindow

\* A block of one line of one call is of its own station, and what is left of
\* a log of such lines is.
LEMMA FromLines ==
    ASSUME TypeInv, FromInv, MainWindow \/ Lan
    PROVE  FromInv'
<1>1. recvLog \in Seq(RecvLogLine) /\ UNCHANGED <<setup, window, prev, reclist>>
  BY DEF TypeInv, DataInv, DataOK, MainWindow, Lan, winVars
<1>2. ASSUME NEW n \in 0..Len(recvLog), recvLog' = SubSeq(recvLog, 1, n) PROVE FromInv'
  <2>1. \A i \in 1..Len(recvLog') : i \in 1..Len(recvLog) /\ recvLog'[i] = recvLog[i]
    BY <1>1, <1>2
  <2>2. OneStation => OneStation'
    BY <2>1 DEF OneStation
  <2> QED  BY <1>1, <2>2 DEF FromInv, FromOneStation, FromCall, HasText
<1>3. ASSUME UNCHANGED recvLog PROVE FromInv'
  BY <1>1, <1>3, FromElsewhere
<1>4. ASSUME DeleteQso PROVE FromInv'
  <2>1. CASE recvLog' = recvLog
    BY <1>3, <2>1
  <2>2. CASE recvLog' = WithoutLast(recvLog, "call", Last(log).call)
    BY <1>1, <1>2, <2>2, WithoutLastIs
  <2> QED  BY <1>4, <2>1, <2>2 DEF DeleteQso
<1>5. ASSUME NEW c, RemoteReceived(c) PROVE FromInv'
  <2>1. recvLog' = recvLog \o <<[call |-> c, from |-> c, count |-> 1]>>
    BY <1>5 DEF RemoteReceived, SaveReceived
  <2> DEFINE l == [call |-> c, from |-> c, count |-> 1]
  <2>2. l.from = l.call
    OBVIOUS
  <2> HIDE DEF l
  <2>3. recvLog' = recvLog \o <<l>>
    BY <2>1 DEF l
  <2>4. \A i \in 1..Len(recvLog') :
            (i \in 1..Len(recvLog) /\ recvLog'[i] = recvLog[i]) \/ recvLog'[i] = l
    BY <1>1, <2>3
  <2>5. OneStation => OneStation'
    BY <2>2, <2>4 DEF OneStation
  <2> QED  BY <1>1, <2>5 DEF FromInv, FromOneStation, FromCall, HasText
<1> QED  BY <1>3, <1>4, <1>5 DEF MainWindow, LogQso, Lan, RemoteSent, SaveSent, RemoteMark

LEMMA FromNext == TypeInv /\ FromInv /\ [Next]_vars => FromInv'
<1> SUFFICES ASSUME TypeInv, FromInv, [Next]_vars PROVE FromInv'
  OBVIOUS
<1>1. ASSUME NEW dir \in Directions, NEW c \in setup.stations \cup {NoCall}, Open(dir, c)
      PROVE  FromInv'
  BY <1>1, FromOpen
<1>2. CASE Escape
  BY <1>2 DEF Escape, Idle, FromInv, FromOneStation, OneStation, FromCall, HasText
<1>3. ASSUME NEW c \in setup.stations \cup {NoCall, Partial}, EditCall(c) PROVE FromInv'
  BY <1>3, FromEdit
<1>4. CASE Move \/ HeaderEnter
  BY <1>4, FromHeader
<1>5. ASSUME NEW n, (n \in 0..QtcLines /\ TypeCount(n)) \/ (n \in 0..1 /\ EraseCount(n))
                    \/ (n \in 0..1 /\ TypeSerial(n)) \/ (n \in 1..QtcLines /\ ParseHeader(n))
      PROVE  FromInv'
  BY <1>5, FromHeader
<1>6. CASE SendEnter \/ SendEnterOutside \/ SendBlock \/ Unsend
  BY <1>6, FromElsewhere DEF SendEnter, SendEnterOutside, SendBlock, Unsend, Idle
<1>7. CASE Save
  <2>1. "send" \in setup.dirs /\ setup' = setup /\ recvLog' = recvLog
    BY <1>7 DEF Save, SaveSent, TypeInv, WinOK
  <2> QED  BY <2>1 DEF FromInv, FromOneStation, OneStation
<1>8. ASSUME \/ \E t \in {"none", "part", "flawed", "full"}, q \in BOOLEAN : TypeInLine(t, q)
             \/ \E t \in {"part", "flawed", "full"} : ParseLine(t)
      PROVE  FromInv'
  BY <1>8, FromText
<1>9. CASE FillTimes
  BY <1>9, FromFill
<1>10. CASE RecvEnter
  BY <1>10, FromEnter
<1>11. CASE ResetTerminal
  BY <1>11, FromElsewhere DEF ResetTerminal, Idle
<1>12. ASSUME NEW f, Mark(f) PROVE FromInv'
  BY <1>12, FromElsewhere DEF Mark, winVars
<1>13. CASE Restart
  <2>1. reclist' = NewRec /\ window' = "closed" /\ setup' = setup /\ recvLog' = recvLog
    BY <1>13 DEF Restart
  <2> QED  BY <2>1, FromNew DEF FromInv, FromOneStation, OneStation
<1>14. CASE MainWindow \/ Lan
  BY <1>14, FromLines
<1>15. CASE UNCHANGED vars
  BY <1>15, FromElsewhere DEF vars, dataVars, winVars
<1>16. CASE RecvEnterOutside \/ QueryFull
  BY <1>16, FromOutside, FromQuery
<1> QED  BY <1>1, <1>2, <1>3, <1>4, <1>5, <1>6, <1>7, <1>8, <1>9, <1>10, <1>11, <1>12, <1>13,
            <1>14, <1>15, <1>16 DEF Next

(* On a node that receives only, the lines of a stored block came from the *)
(* station they are stored under.                                          *)
THEOREM ReceivedFromOne == Spec => []FromOneStation
<1>1. Init => FromInv
  <2>1. Init => FromOneStation
    BY DEF Init, FromOneStation, OneStation
  <2>2. Init => FromCall(reclist) /\ ~HasText(reclist) /\ window = "closed"
    BY FromNew DEF Init
  <2> QED  BY <2>1, <2>2 DEF FromInv
<1>2. Spec => [](TypeInv /\ FromInv)
  BY <1>1, InitTypes, NextTypes, FromNext, PTL DEF Spec
<1>3. FromInv => FromOneStation
  BY DEF FromInv
<1> QED  BY <1>2, <1>3, PTL

-----------------------------------------------------------------------------
(* QSOs are on offer until they are given away.                            *)

\* A line of the list names the QSO at its position; the lines of the block and
\* those that were sent have a QSO.
ListOf(l, n) ==
    \A k \in 1..QtcLines :
        /\ l.lines[k].qso # NoQso => l.lines[k].qso = l.lines[k].pos /\ l.lines[k].pos \in 1..n
        /\ k <= l.count \/ l.lines[k].sent => l.lines[k].qso # NoQso

\* The log has the same numbers on all nodes, and nothing is taken out of it.
SameNumbers == setup.lan # "other" /\ setup.maxDeletes = 0 /\ "beyond" \notin setup.keys

OfferInv == SameNumbers =>
    /\ made = Len(log) /\ \A p \in 1..Len(log) : log[p].id = p
    /\ ListOf(qtclist, Len(log))
    /\ \A i \in 1..Len(sentLog) : sentLog[i].qso = sentLog[i].pos

LEMMA OfferSame ==
    ASSUME OfferInv, UNCHANGED <<setup, log, made, sentLog>>,
           SameNumbers => ListOf(qtclist', Len(log))
    PROVE  OfferInv'
  BY DEF OfferInv, SameNumbers, ListOf

LEMMA OfferGen ==
    ASSUME DataOK, qtclist \in SendList, OfferInv, SameNumbers, NEW call \in CallField, NEW nr
    PROVE  ListOf(GenQtcList(call, nr), Len(log))
<1> DEFINE g == GenQtcList(call, nr)
<1>1. /\ g \in SendList
      /\ \A k \in 1..g.count :
             g.lines[k].pos \in Offered(call) /\ ~g.lines[k].sent /\ g.lines[k].qso = log[g.lines[k].pos].id
      /\ \A k \in 1..QtcLines : k > g.count =>
             g.lines[k] \in {[EmptyLine EXCEPT !.pos = qtclist.lines[k].pos], qtclist.lines[k]}
  BY GenIs
<1> HIDE DEF g
<1>2. g.count \in 0..QtcLines
  BY <1>1 DEF SendList
<1>3. ASSUME NEW k \in 1..QtcLines
      PROVE  /\ g.lines[k].qso # NoQso => g.lines[k].qso = g.lines[k].pos /\ g.lines[k].pos \in 1..Len(log)
             /\ k <= g.count \/ g.lines[k].sent => g.lines[k].qso # NoQso
  <2>1. CASE k <= g.count
    <3>1. k \in 1..g.count
      BY <1>2, <2>1, QtcAssumption
    <3>2. g.lines[k].pos \in 1..Len(log) /\ g.lines[k].qso = log[g.lines[k].pos].id
      BY <1>1, <3>1 DEF Offered
    <3>3. g.lines[k].qso = g.lines[k].pos
      BY <3>2 DEF OfferInv
    <3> QED  BY <3>2, <3>3 DEF NoQso
  <2>2. CASE ~(k <= g.count)
    <3>1. k > g.count
      BY <1>2, <2>2, QtcAssumption
    <3>2. CASE g.lines[k] = [EmptyLine EXCEPT !.pos = qtclist.lines[k].pos]
      <4>1. g.lines[k].qso = NoQso /\ g.lines[k].sent = FALSE
        BY <3>2 DEF EmptyLine
      <4> QED  BY <2>2, <4>1
    <3>3. CASE g.lines[k] = qtclist.lines[k]
      BY <2>2, <3>3 DEF OfferInv, ListOf
    <3> QED  BY <1>1, <3>1, <3>2, <3>3
  <2> QED  BY <2>1, <2>2
<1>4. ListOf(g, Len(log))
  BY <1>3 DEF ListOf
<1> QED  BY <1>4 DEF g

\* A list with the same lines and no more of them in the block.
LEMMA OfferFewer ==
    ASSUME NEW l, NEW m, NEW n, ListOf(m, n), m.count \in 0..QtcLines, l.count \in 0..QtcLines,
           l.lines = m.lines, l.count <= m.count
    PROVE  ListOf(l, n)
<1>1. \A k \in 1..QtcLines : k <= l.count => k <= m.count
  BY QtcAssumption
<1> QED  BY <1>1 DEF ListOf

LEMMA OfferEmpty == \A n : ListOf(EmptyList, n)
  BY QtcAssumption DEF ListOf, EmptyList, EmptyLine

LEMMA OfferHeader ==
    ASSUME TypeInv, OfferInv,
           \/ \E dir \in Directions, c \in setup.stations \cup {NoCall} : Open(dir, c)
           \/ \E c \in setup.stations \cup {NoCall, Partial} : EditCall(c)
           \/ \E n \in 0..QtcLines : TypeCount(n)
           \/ \E n \in 0..1 : EraseCount(n)
    PROVE  OfferInv'
<1>1. UNCHANGED <<setup, log, made, sentLog>> /\ qtclist \in SendList /\ DataOK
  BY DEF Open, EditCall, TypeCount, EraseCount, Idle, TypeInv, WinOK, DataInv
<1>2. \/ qtclist' = qtclist
      \/ \E c \in CallField : \E nr : qtclist' = GenQtcList(c, nr)
      \/ \E c \in CallField : qtclist' = [qtclist EXCEPT !.call = c]
      \/ \E n \in 0..QtcLines : n <= qtclist.count /\ qtclist' = [qtclist EXCEPT !.count = n]
  <2>1. ASSUME NEW dir, NEW c \in setup.stations \cup {NoCall}, Open(dir, c)
        PROVE  \/ qtclist' = qtclist
               \/ \E d \in CallField : \E nr : qtclist' = GenQtcList(d, nr)
               \/ \E d \in CallField : qtclist' = [qtclist EXCEPT !.call = d]
    <3>1. qtclist' = qtclist \/ PrepareForSend(c)
      BY <2>1 DEF Open
    <3>2. (IF c = NoCall THEN qtclist.call ELSE c) \in CallField
      BY <1>1, CallsAre DEF SendList, CallField
    <3> QED  BY <3>1, <3>2 DEF PrepareForSend
  <2>2. ASSUME NEW c \in setup.stations \cup {NoCall, Partial}, EditCall(c)
        PROVE  \/ qtclist' = qtclist
               \/ \E d \in CallField : \E nr : qtclist' = GenQtcList(d, nr)
               \/ \E d \in CallField : qtclist' = [qtclist EXCEPT !.call = d]
    <3>1. c \in CallField
      BY <1>1, CallsAre DEF CallField
    <3> QED  BY <2>2, <3>1 DEF EditCall
  <2>3. ASSUME NEW n \in 0..QtcLines, TypeCount(n)
        PROVE  \/ qtclist' = qtclist
               \/ \E d \in CallField : \E nr : qtclist' = GenQtcList(d, nr)
    <3>1. qtclist.call \in CallField
      BY <1>1 DEF SendList
    <3> QED  BY <2>3, <3>1 DEF TypeCount
  <2>4. ASSUME NEW n \in 0..1, EraseCount(n)
        PROVE  \/ qtclist' = qtclist
               \/ \E m \in 0..QtcLines : m <= qtclist.count /\ qtclist' = [qtclist EXCEPT !.count = m]
    <3>1. qtclist' = qtclist \/ (n <= qtclist.count /\ qtclist' = [qtclist EXCEPT !.count = n])
      BY <1>1, <2>4, QtcAssumption DEF EraseCount, SendList
    <3>2. n \in 0..QtcLines
      BY QtcAssumption
    <3> QED  BY <3>1, <3>2
  <2> QED  BY <2>1, <2>2, <2>3, <2>4
<1>3. ASSUME SameNumbers PROVE ListOf(qtclist', Len(log))
  <2>1. ListOf(qtclist, Len(log))
    BY <1>3 DEF OfferInv
  <2>2. ASSUME NEW c \in CallField, NEW nr, qtclist' = GenQtcList(c, nr)
        PROVE  ListOf(qtclist', Len(log))
    BY <1>1, <1>3, <2>2, OfferGen
  <2>3. ASSUME NEW c \in CallField, qtclist' = [qtclist EXCEPT !.call = c]
        PROVE  ListOf(qtclist', Len(log))
    <3>1. /\ qtclist'.lines = qtclist.lines /\ qtclist'.count = qtclist.count
          /\ qtclist.count \in 0..QtcLines /\ qtclist.count <= qtclist.count
      BY <1>1, <2>3, QtcAssumption DEF SendList
    <3> QED  BY <2>1, <3>1, OfferFewer
  <2>4. ASSUME NEW n \in 0..QtcLines, n <= qtclist.count, qtclist' = [qtclist EXCEPT !.count = n]
        PROVE  ListOf(qtclist', Len(log))
    <3>1. qtclist'.lines = qtclist.lines /\ qtclist'.count = n /\ qtclist.count \in 0..QtcLines
      BY <1>1, <2>4 DEF SendList
    <3> QED  BY <2>1, <2>4, <3>1, OfferFewer
  <2> QED  BY <1>2, <2>1, <2>2, <2>3, <2>4
<1> QED  BY <1>1, <1>3, OfferSame

LEMMA OfferSend ==
    ASSUME TypeInv, OfferInv, SendEnter \/ SendEnterOutside \/ SendBlock \/ Unsend
    PROVE  OfferInv'
<1>1. /\ UNCHANGED <<setup, log, made, sentLog>>
      /\ qtclist \in SendList /\ qtclist.lines \in [1..QtcLines -> ListLine]
      /\ qtclist.count \in 0..QtcLines
  BY DEF SendEnter, SendEnterOutside, SendBlock, Unsend, Idle, TypeInv, WinOK, SendList, ListLine
<1>2. ASSUME NEW l, l.count = qtclist.count, SameNumbers,
             \A k \in 1..QtcLines :
                 /\ l.lines[k].qso = qtclist.lines[k].qso /\ l.lines[k].pos = qtclist.lines[k].pos
                 /\ l.lines[k].sent => qtclist.lines[k].sent \/ k <= qtclist.count
      PROVE  ListOf(l, Len(log))
  <2>1. ListOf(qtclist, Len(log))
    BY <1>2 DEF OfferInv
  <2> QED  BY <1>2, <2>1 DEF ListOf
<1>3. ASSUME SendEnter, SameNumbers PROVE ListOf(qtclist', Len(log))
  <2> DEFINE k == SendLine(field)
             l == SendLineSent(qtclist, k)
  <2>1. k \in 1..QtcLines /\ k <= qtclist.count /\ qtclist' = l
    BY <1>3, Fields DEF SendEnter, SameNumbers
  <2>2. /\ SameLines(l, qtclist)
        /\ \A j \in 1..QtcLines : j # k => l.lines[j] = qtclist.lines[j]
    BY <1>1, <2>1, LineSentIs
  <2> HIDE DEF k, l
  <2>3. l.count = qtclist.count
    BY <2>2 DEF SameLines
  <2>4. ASSUME NEW j \in 1..QtcLines
        PROVE  /\ l.lines[j].qso = qtclist.lines[j].qso /\ l.lines[j].pos = qtclist.lines[j].pos
               /\ l.lines[j].sent => qtclist.lines[j].sent \/ j <= qtclist.count
    BY <2>1, <2>2 DEF SameLines
  <2> QED  BY <1>2, <1>3, <2>1, <2>3, <2>4
<1>4. ASSUME SendEnterOutside, SameNumbers PROVE ListOf(qtclist', Len(log))
  <2>1. qtclist'.count = qtclist.count /\ qtclist'.lines = qtclist.lines
    BY <1>1, <1>4 DEF SendEnterOutside, SendList
  <2> QED  BY <1>2, <1>4, <2>1
<1>5. ASSUME SendBlock, SameNumbers PROVE ListOf(qtclist', Len(log))
  <2> DEFINE line(k) == IF k <= qtclist.count
                        THEN [qtclist.lines[k] EXCEPT !.sent = TRUE, !.flag = TRUE]
                        ELSE qtclist.lines[k]
             lines == [k \in 1..QtcLines |-> line(k)]
             count == qtclist.count
  <2>1. qtclist' = [qtclist EXCEPT !.total = count, !.lines = lines]
    BY <1>5 DEF SendBlock
  <2>2. ASSUME NEW k \in 1..QtcLines
        PROVE  /\ line(k).qso = qtclist.lines[k].qso /\ line(k).pos = qtclist.lines[k].pos
               /\ line(k).sent => qtclist.lines[k].sent \/ k <= qtclist.count
    <3>1. qtclist.lines[k] \in ListLine
      BY <1>1
    <3> QED  BY <3>1 DEF ListLine
  <2> HIDE DEF line
  <2>3. \A k \in 1..QtcLines : lines[k] = line(k)
    OBVIOUS
  <2> HIDE DEF lines, count
  <2>4. qtclist'.count = qtclist.count /\ qtclist'.lines = lines
    BY <1>1, <2>1 DEF SendList
  <2> QED  BY <1>2, <1>5, <2>2, <2>3, <2>4
<1>6. ASSUME Unsend, SameNumbers PROVE ListOf(qtclist', Len(log))
  <2> DEFINE k == SendLine(field)
             new == [[qtclist.lines[k] EXCEPT !.sent = FALSE] EXCEPT !.flag = FALSE]
             lines == [qtclist.lines EXCEPT ![k] = new]
             total == qtclist.total - 1
  <2>1. k \in 1..QtcLines
    BY <1>6, Fields DEF Unsend
  <2>2. qtclist' = [qtclist EXCEPT !.total = total, !.lines = lines]
    BY <1>1, <1>6, <2>1 DEF Unsend, SendList, ListLine
  <2> HIDE DEF k
  <2>3. new.qso = qtclist.lines[k].qso /\ new.pos = qtclist.lines[k].pos /\ ~new.sent
    BY <1>1, <2>1 DEF ListLine
  <2> HIDE DEF new
  <2>4. \A j \in 1..QtcLines : lines[j] = IF j = k THEN new ELSE qtclist.lines[j]
    BY <1>1, <2>1
  <2> HIDE DEF lines, total
  <2>5. qtclist'.count = qtclist.count /\ qtclist'.lines = lines
    BY <1>1, <2>2 DEF SendList
  <2> QED  BY <1>2, <1>6, <2>3, <2>4, <2>5
<1> QED  BY <1>1, <1>3, <1>4, <1>5, <1>6, OfferSame

LEMMA OfferSave ==
    ASSUME TypeInv, OfferInv, Save
    PROVE  OfferInv'
<1>1. /\ sentLog' = sentLog \o SentLines /\ UNCHANGED <<setup, log, made>>
      /\ qtclist \in SendList /\ sentLog \in Seq(SentLine)
      /\ SentLines \in Seq(SentLine) /\ Len(SentLines) = Cardinality(Ready)
      /\ InOrder(Ready) \in [1..Cardinality(Ready) -> Ready]
      /\ \A i \in 1..Cardinality(Ready) :
             /\ SentLines[i].qso = qtclist.lines[InOrder(Ready)[i]].qso
             /\ SentLines[i].pos = qtclist.lines[InOrder(Ready)[i]].pos
  <2>1. qtclist \in SendList /\ qtclist.serial > 0
    BY DEF Save, TypeInv, WinOK
  <2>2. sentLog' = sentLog \o SentLines /\ UNCHANGED <<setup, log, made>> /\ sentLog \in Seq(SentLine)
    BY DEF Save, SaveSent, TypeInv, DataInv, DataOK
  <2>3. /\ SentLines \in Seq(SentLine) /\ Len(SentLines) = Cardinality(Ready)
        /\ InOrder(Ready) \in [1..Cardinality(Ready) -> Ready]
    BY <2>1, SentLinesAre
  <2>4. ASSUME NEW i \in 1..Cardinality(Ready)
        PROVE  /\ SentLines[i].qso = qtclist.lines[InOrder(Ready)[i]].qso
               /\ SentLines[i].pos = qtclist.lines[InOrder(Ready)[i]].pos
    BY <2>1, SentLinesAre
  <2> QED  BY <2>1, <2>2, <2>3, <2>4
<1> SUFFICES ASSUME SameNumbers PROVE OfferInv'
  BY <1>1 DEF OfferInv, SameNumbers
<1>2. \A k \in Ready : qtclist.lines[k].qso = qtclist.lines[k].pos
  BY DEF OfferInv, ListOf, Ready
<1>3. \A i \in 1..Len(SentLines) : SentLines[i].qso = SentLines[i].pos
  BY <1>1, <1>2
<1> DEFINE lines == SentLines
<1> HIDE DEF lines
<1>4. lines \in Seq(SentLine) /\ sentLog' = sentLog \o lines
      /\ \A i \in 1..Len(lines) : lines[i].qso = lines[i].pos
  BY <1>1, <1>3 DEF lines
<1>5. \A i \in 1..Len(sentLog) : sentLog[i].qso = sentLog[i].pos
  BY DEF OfferInv
<1>6. ASSUME NEW i \in 1..Len(sentLog \o lines)
      PROVE  (sentLog \o lines)[i].qso = (sentLog \o lines)[i].pos
  <2>1. CASE i <= Len(sentLog)
    <3>1. i \in 1..Len(sentLog) /\ (sentLog \o lines)[i] = sentLog[i]
      BY <1>1, <1>4, <2>1
    <3> QED  BY <1>5, <3>1
  <2>2. CASE ~(i <= Len(sentLog))
    <3> DEFINE m == i - Len(sentLog)
    <3>1. m \in 1..Len(lines) /\ (sentLog \o lines)[i] = lines[m]
      BY <1>1, <1>4, <2>2
    <3> QED  BY <1>4, <3>1
  <2> QED  BY <2>1, <2>2
<1>7. ListOf(qtclist', Len(log))
  <2> DEFINE ls == [k \in 1..QtcLines |-> [EmptyLine EXCEPT !.pos = qtclist.lines[k].pos]]
  <2>1. qtclist'.count = 0 /\ qtclist'.lines = ls
    BY DEF Save, EmptyList
  <2>2. \A k \in 1..QtcLines : ls[k].qso = NoQso /\ ls[k].sent = FALSE
    BY DEF EmptyLine
  <2> HIDE DEF ls
  <2> QED  BY <2>1, <2>2, QtcAssumption DEF ListOf
<1> QED  BY <1>1, <1>4, <1>6, <1>7 DEF OfferInv, ListOf

LEMMA OfferMain ==
    ASSUME TypeInv, OfferInv, MainWindow
    PROVE  OfferInv'
<1> SUFFICES ASSUME SameNumbers PROVE OfferInv'
  BY DEF MainWindow, OfferInv, SameNumbers
<1>1. UNCHANGED <<setup, qtclist>> /\ log \in Seq(LogLine) /\ made = Len(log)
      /\ ListOf(qtclist, Len(log)) /\ \A p \in 1..Len(log) : log[p].id = p
  BY DEF MainWindow, TypeInv, DataInv, DataOK, OfferInv
<1>2. CASE DeleteQso
  <2>1. deleted \in Nat /\ deleted < 0
    BY <1>2 DEF DeleteQso, SameNumbers, TypeInv, DataInv, DataOK
  <2> QED  BY <2>1
<1>3. ASSUME NEW c \in setup.stations, LogQso(c) PROVE OfferInv'
  <2> DEFINE l == [id |-> made + 1, call |-> c]
  <2>1. log' = Append(log, l) /\ made' = made + 1 /\ sentLog' = sentLog
    BY <1>3 DEF LogQso
  <2>2. l.id = Len(log) + 1
    BY <1>1
  <2> HIDE DEF l
  <2>3. Len(log') = Len(log) + 1 /\ made' = Len(log')
    BY <1>1, <2>1
  <2>4. \A p \in 1..Len(log') : log'[p].id = p
    BY <1>1, <2>1, <2>2
  <2>5. ListOf(qtclist', Len(log'))
    <3>1. \A p \in 1..Len(log) : p \in 1..Len(log')
      BY <1>1, <2>3
    <3> QED  BY <1>1, <3>1 DEF ListOf
  <2> QED  BY <2>1, <2>3, <2>4, <2>5 DEF OfferInv
<1> QED  BY <1>2, <1>3 DEF MainWindow

LEMMA OfferLan ==
    ASSUME TypeInv, OfferInv, Lan
    PROVE  OfferInv'
<1> SUFFICES ASSUME SameNumbers PROVE OfferInv'
  BY DEF Lan, OfferInv, SameNumbers
<1>1. UNCHANGED <<setup, qtclist, log, made>>
  BY DEF Lan, RemoteSent, RemoteReceived, RemoteMark
<1>2. CASE UNCHANGED sentLog
  BY <1>1, <1>2, OfferSame DEF OfferInv
<1>3. ASSUME NEW pos \in 1..Len(log), NEW c,
             RemoteSent(pos, IF setup.lan = "same" THEN log[pos].id ELSE NoQso, c)
      PROVE  OfferInv'
  <2>1. setup.lan = "same"
    BY WindowAssumption DEF Lan, SameNumbers, TypeInv, DataInv, DataOK, Setup
  <2> DEFINE l == [qso |-> log[pos].id, pos |-> pos, to |-> c, serial |-> nrSent + 1, count |-> 1]
  <2>2. sentLog' = sentLog \o <<l>>
    BY <1>3, <2>1 DEF RemoteSent, SaveSent
  <2>3. l.qso = l.pos
    BY DEF OfferInv
  <2> HIDE DEF l
  <2>4. sentLog \in Seq(SentLine)
    BY DEF TypeInv, DataInv, DataOK
  <2>5. \A i \in 1..Len(sentLog') : (i \in 1..Len(sentLog) /\ sentLog'[i] = sentLog[i]) \/ sentLog'[i] = l
    BY <2>2, <2>4
  <2>6. \A i \in 1..Len(sentLog') : sentLog'[i].qso = sentLog'[i].pos
    BY <2>3, <2>5 DEF OfferInv
  <2> QED  BY <1>1, <2>6 DEF OfferInv, ListOf
<1> QED  BY <1>2, <1>3 DEF Lan, RemoteReceived, SaveReceived, RemoteMark

LEMMA OfferNext == TypeInv /\ OfferInv /\ [Next]_vars => OfferInv'
<1> SUFFICES ASSUME TypeInv, OfferInv, [Next]_vars PROVE OfferInv'
  OBVIOUS
<1>1. ASSUME UNCHANGED <<setup, log, made, sentLog, qtclist>> PROVE OfferInv'
  BY <1>1, OfferSame DEF OfferInv
<1>2. ASSUME \/ \E dir \in Directions, c \in setup.stations \cup {NoCall} : Open(dir, c)
             \/ \E c \in setup.stations \cup {NoCall, Partial} : EditCall(c)
             \/ \E n \in 0..QtcLines : TypeCount(n)
             \/ \E n \in 0..1 : EraseCount(n)
      PROVE  OfferInv'
  BY <1>2, OfferHeader
<1>3. CASE Escape \/ Move \/ HeaderEnter \/ QueryFull \/ FillTimes \/ ResetTerminal
  BY <1>1, <1>3 DEF Escape, Move, HeaderEnter, QueryFull, FillTimes, ResetTerminal, Idle
<1>4. CASE SendEnter \/ SendEnterOutside \/ SendBlock \/ Unsend
  BY <1>4, OfferSend
<1>5. CASE Save
  BY <1>5, OfferSave
<1>6. ASSUME NEW n, TypeSerial(n) \/ ParseHeader(n) \/ Mark(n) \/ ParseLine(n) PROVE OfferInv'
  BY <1>1, <1>6 DEF TypeSerial, ParseHeader, Mark, ParseLine, Idle
<1>7. ASSUME NEW t, NEW q, TypeInLine(t, q) PROVE OfferInv'
  BY <1>1, <1>7 DEF TypeInLine, Idle
<1>8. CASE RecvEnter \/ RecvEnterOutside
  BY <1>1, <1>8 DEF RecvEnter, RecvEnterOutside, StoreIfComplete, SaveReceived
<1>9. CASE Restart
  <2>1. UNCHANGED <<setup, log, made, sentLog>> /\ qtclist' = EmptyList
    BY <1>9 DEF Restart
  <2> QED  BY <2>1, OfferSame, OfferEmpty
<1>10. CASE MainWindow
  BY <1>10, OfferMain
<1>11. CASE Lan
  BY <1>11, OfferLan
<1>12. CASE UNCHANGED vars
  BY <1>1, <1>12 DEF vars, dataVars
<1> QED  BY <1>2, <1>3, <1>4, <1>5, <1>6, <1>7, <1>8, <1>9, <1>10, <1>11, <1>12 DEF Next

LEMMA OfferInit == Init => OfferInv
<1>1. Init => made = Len(log) /\ Len(log) = 0 /\ Len(sentLog) = 0
  BY DEF Init
<1>2. Init => ListOf(qtclist, Len(log))
  BY OfferEmpty DEF Init
<1> QED  BY <1>1, <1>2 DEF OfferInv

LEMMA OfferIs == DataInv /\ OfferInv => OfferedUntilGiven
<1> SUFFICES ASSUME DataInv, OfferInv, SameNumbers, NEW p \in 1..Len(log)
             PROVE  (p >= nextQso /\ p \notin used) <=>
                        ~\E i \in 1..Len(sentLog) : sentLog[i].qso = log[p].id
  BY DEF OfferedUntilGiven, SameNumbers
<1>1. log[p].id = p /\ \A i \in 1..Len(sentLog) : sentLog[i].qso = sentLog[i].pos
  BY DEF OfferInv
<1>2. p \in used <=> \E i \in 1..Len(sentLog) : sentLog[i].qso = log[p].id
  BY <1>1 DEF DataInv, Agreed, Positions
<1>3. p \notin used => p >= nextQso
  <2>1. p \in Nat \ {0} /\ nextQso \in Nat \ {0} /\ Passed(nextQso, used)
    BY DEF DataInv, DataOK, Agreed
  <2> QED  BY <2>1 DEF Passed
<1> QED  BY <1>2, <1>3

(* A QSO is on offer as QTC until it is given away, by this node or by one  *)
(* with the same log.                                                      *)
THEOREM OnOffer == Spec => []OfferedUntilGiven
<1>1. Spec => [](TypeInv /\ OfferInv)
  BY OfferInit, InitTypes, NextTypes, OfferNext, PTL DEF Spec
<1>2. TypeInv /\ OfferInv => OfferedUntilGiven
  BY OfferIs DEF TypeInv
<1> QED  BY <1>1, <1>2, PTL

-----------------------------------------------------------------------------
(* What was confirmed is stored.                                           *)

Sure(r) == {j \in 1..QtcLines : r.lines[j].confirmed}

\* As many lines as are counted were confirmed; each of them is long enough,
\* and where a line counts each time it is not accepted again.
SureOf(r) ==
    /\ r.confirmed = Cardinality(Sure(r))
    /\ \A j \in Sure(r) : r.lines[j].text \in {"flawed", "full"} /\ (setup.digi => Locked(r.lines[j]))

\* The operator does not change lines that were confirmed.
Careful == setup.keys \cap {"edit", "fill"} = {}

ConfirmInv == Careful => SureOf(reclist)

LEMMA SureFinite ==
    ASSUME NEW r
    PROVE  /\ Sure(r) \in SUBSET (1..QtcLines) /\ IsFiniteSet(Sure(r)) /\ Cardinality(Sure(r)) \in Nat
<1>1. IsFiniteSet(1..QtcLines)
  BY QtcAssumption, FS_Interval
<1>2. Sure(r) \in SUBSET (1..QtcLines)
  BY DEF Sure
<1> QED  BY <1>1, <1>2, FS_Subset, FS_CardinalityType

LEMMA SureNew == Sure(NewRec) = {} /\ SureOf(NewRec)
<1>1. Sure(NewRec) = {} /\ NewRec.confirmed = 0
  BY DEF Sure, NewRec, NewLine
<1> QED  BY <1>1, FS_EmptySet DEF SureOf

LEMMA SureSame ==
    ASSUME NEW r, NEW s, SureOf(r), s.confirmed = r.confirmed,
           \A j \in 1..QtcLines :
               /\ s.lines[j].confirmed = r.lines[j].confirmed
               /\ r.lines[j].confirmed => s.lines[j].text = r.lines[j].text
                                          /\ (Locked(r.lines[j]) => Locked(s.lines[j]))
    PROVE  SureOf(s)
<1>1. Sure(s) = Sure(r)
  BY DEF Sure
<1>2. ASSUME NEW j \in Sure(s) PROVE s.lines[j].text \in {"flawed", "full"} /\ (setup.digi => Locked(s.lines[j]))
  <2>1. j \in Sure(r) /\ j \in 1..QtcLines /\ r.lines[j].confirmed
    BY <1>1 DEF Sure
  <2> QED  BY <2>1 DEF SureOf
<1> QED  BY <1>1, <1>2 DEF SureOf

LEMMA SureBlock ==
    ASSUME NEW r, NEW s, SureOf(r), SameBlock(s, r)
    PROVE  SureOf(s)
  BY SureSame DEF SameBlock

(* A line that is accepted and confirmed is counted when it was not before. *)
LEMMA SureConfirmed ==
    ASSUME NEW r \in RecList, NEW k \in 1..QtcLines, SureOf(r), Accepted(r.lines[k]),
           ~(setup.digi /\ setup.lazy), NEW s, Confirmed(s, r, k)
    PROVE  /\ SureOf(s)
           /\ Sure(s) = Sure(r) \cup (IF k <= r.count THEN {k} ELSE {})
<1>1. /\ s.confirmed = IF k <= r.count /\ (setup.digi \/ ~r.lines[k].confirmed)
                       THEN r.confirmed + 1 ELSE r.confirmed
      /\ \A j \in (1..QtcLines) \ {k} :
             /\ s.lines[j].text = r.lines[j].text /\ s.lines[j].confirmed = r.lines[j].confirmed
             /\ Locked(r.lines[j]) => Locked(s.lines[j])
      /\ s.lines[k].text \in {"flawed", "full"} /\ Locked(s.lines[k])
      /\ s.lines[k].confirmed = (r.lines[k].confirmed \/ k <= r.count)
  BY DEF Confirmed
<1>2. Sure(s) = Sure(r) \cup (IF k <= r.count THEN {k} ELSE {})
  BY <1>1 DEF Sure
<1>3. r.lines[k].confirmed => k \in Sure(r)
  BY DEF Sure
<1>4. setup.digi => ~r.lines[k].confirmed
  <2> SUFFICES ASSUME setup.digi, r.lines[k].confirmed PROVE FALSE
    OBVIOUS
  <2>1. Locked(r.lines[k])
    BY <1>3 DEF SureOf
  <2>2. r.lines[k].status = 0
    BY DEF Accepted
  <2> QED  BY <2>1, <2>2 DEF Locked
<1>5. s.confirmed = Cardinality(Sure(s))
  <2>1. CASE k <= r.count /\ ~r.lines[k].confirmed
    <3>1. Sure(s) = Sure(r) \cup {k} /\ k \notin Sure(r)
      BY <1>2, <2>1 DEF Sure
    <3>2. Cardinality(Sure(r) \cup {k}) = Cardinality(Sure(r)) + 1
      BY <3>1, SureFinite, FS_AddElement
    <3> QED  BY <1>1, <2>1, <3>1, <3>2 DEF SureOf
  <2>2. CASE ~(k <= r.count /\ ~r.lines[k].confirmed)
    <3>1. Sure(s) = Sure(r)
      BY <1>2, <1>3, <2>2
    <3>2. s.confirmed = r.confirmed
      BY <1>1, <1>4, <2>2
    <3> QED  BY <3>1, <3>2 DEF SureOf
  <2> QED  BY <2>1, <2>2
<1>6. ASSUME NEW j \in Sure(s) PROVE s.lines[j].text \in {"flawed", "full"} /\ (setup.digi => Locked(s.lines[j]))
  <2>1. CASE j = k
    BY <1>1, <2>1
  <2>2. CASE j # k
    <3>1. j \in Sure(r) /\ j \in (1..QtcLines) \ {k}
      BY <1>2, <2>2 DEF Sure
    <3> QED  BY <1>1, <3>1 DEF SureOf
  <2> QED  BY <2>1, <2>2
<1> QED  BY <1>2, <1>5, <1>6 DEF SureOf

LEMMA ConfirmKept ==
    ASSUME ConfirmInv, setup' = setup, SureOf(reclist) => SureOf(reclist')
    PROVE  ConfirmInv'
<1>1. ASSUME SureOf(reclist') PROVE SureOf(reclist)'
  BY <1>1 DEF SureOf, Sure, Locked
<1> QED  BY <1>1 DEF ConfirmInv, Careful

LEMMA ConfirmOpen ==
    ASSUME TypeInv, ConfirmInv, NEW dir, NEW c \in setup.stations \cup {NoCall}, Open(dir, c)
    PROVE  ConfirmInv'
<1>1. setup' = setup /\ reclist \in RecList /\ c \in CallField
  BY CallsAre DEF Open, TypeInv, WinOK, DataInv, CallField
<1>2. CASE UNCHANGED reclist
  BY <1>1, <1>2, ConfirmKept
<1>3. CASE PrepareForRecv(c)
  <2> DEFINE r   == IF c = NoCall THEN reclist ELSE [reclist EXCEPT !.call = c]
             fresh == r.call # prev \/ r.call = NoCall
             empty == [NewRec EXCEPT !.call = r.call]
             new == IF fresh THEN empty ELSE r
  <2>1. /\ r \in RecList /\ r.lines = reclist.lines /\ r.call \in CallField
        /\ r.confirmed = reclist.confirmed
    BY <1>1 DEF RecList
  <2>2. reclist' = ShowAll(new)
    BY <1>3 DEF PrepareForRecv
  <2> HIDE DEF r
  <2>3. empty \in RecList /\ empty.lines = NewRec.lines /\ empty.confirmed = NewRec.confirmed
    BY <2>1, NewRecIs DEF RecList
  <2> HIDE DEF empty
  <2>4. new \in RecList
    BY <2>1, <2>3
  <2>5. SureOf(empty)
    BY <2>3, SureNew, SureSame
  <2>6. SureOf(reclist) => SureOf(r)
    BY <2>1, SureSame
  <2>7. SureOf(reclist) => SureOf(new)
    BY <2>5, <2>6
  <2> HIDE DEF new
  <2>8. SameBlock(reclist', new)
    BY <2>2, <2>4, ShowAllIs
  <2> QED  BY <1>1, <2>7, <2>8, SureBlock, ConfirmKept
<1> QED  BY <1>2, <1>3 DEF Open

LEMMA ConfirmHeader ==
    ASSUME TypeInv, ConfirmInv,
           \/ Move \/ HeaderEnter
           \/ \E c \in setup.stations \cup {NoCall, Partial} : EditCall(c)
           \/ \E n \in 0..QtcLines : TypeCount(n)
           \/ \E n \in 0..1 : EraseCount(n)
           \/ \E n \in 0..1 : TypeSerial(n)
           \/ \E n \in 1..QtcLines : ParseHeader(n)
    PROVE  ConfirmInv'
<1>1. setup' = setup /\ reclist \in RecList
  BY DEF Move, HeaderEnter, EditCall, TypeCount, EraseCount, TypeSerial, ParseHeader, TypeInv, WinOK
<1>2. ASSUME SameBlock(reclist', reclist) PROVE SureOf(reclist) => SureOf(reclist')
  BY <1>2, SureBlock
<1>3. CASE Move \/ HeaderEnter
  <2>1. reclist' = reclist \/ SameBlock(reclist', reclist)
    BY <1>1, <1>3, ShowFieldsIs, ShowStatusIs DEF Move, HeaderEnter
  <2> QED  BY <1>1, <1>2, <2>1, ConfirmKept
<1>4. ASSUME NEW n, TypeCount(n) \/ EraseCount(n) \/ TypeSerial(n) \/ ParseHeader(n)
      PROVE  ConfirmInv'
  <2>1. reclist'.lines = reclist.lines /\ reclist'.confirmed = reclist.confirmed
    BY <1>1, <1>4 DEF RecList, TypeCount, EraseCount, TypeSerial, ParseHeader
  <2>2. SureOf(reclist) => SureOf(reclist')
    BY <2>1, SureSame
  <2> QED  BY <1>1, <2>2, ConfirmKept
<1>5. ASSUME NEW c, EditCall(c) PROVE ConfirmInv'
  <2>1. CASE reclist' = reclist
    BY <1>1, <2>1, ConfirmKept
  <2>2. CASE reclist' # reclist
    <3> DEFINE new(k) == [reclist.lines[k] EXCEPT !.from = IF @ = reclist.call THEN c ELSE @]
               lines == [k \in 1..QtcLines |-> new(k)]
    <3>1. reclist' = [reclist EXCEPT !.call = c, !.lines = lines]
      BY <1>5, <2>2 DEF EditCall
    <3>2. ASSUME NEW k \in 1..QtcLines
          PROVE  /\ new(k).text = reclist.lines[k].text /\ new(k).status = reclist.lines[k].status
                 /\ new(k).confirmed = reclist.lines[k].confirmed
      <4>1. reclist.lines[k] \in RecLine
        BY <1>1 DEF RecList, RecLine
      <4> QED  BY <4>1 DEF RecLine
    <3> HIDE DEF new
    <3>3. \A k \in 1..QtcLines : lines[k] = new(k)
      OBVIOUS
    <3> HIDE DEF lines
    <3>4. reclist'.confirmed = reclist.confirmed /\ reclist'.lines = lines
      BY <1>1, <3>1 DEF RecList
    <3>5. \A k \in 1..QtcLines :
              /\ reclist'.lines[k].text = reclist.lines[k].text
              /\ reclist'.lines[k].confirmed = reclist.lines[k].confirmed
              /\ Locked(reclist.lines[k]) => Locked(reclist'.lines[k])
      BY <3>2, <3>3, <3>4 DEF Locked
    <3>6. SureOf(reclist) => SureOf(reclist')
      BY <3>4, <3>5, SureSame
    <3> QED  BY <1>1, <3>6, ConfirmKept
  <2> QED  BY <2>1, <2>2
<1> QED  BY <1>3, <1>4, <1>5

LEMMA ConfirmText ==
    ASSUME TypeInv, ConfirmInv,
           \/ \E t \in {"none", "part", "flawed", "full"}, q \in BOOLEAN : TypeInLine(t, q)
           \/ \E t \in {"part", "flawed", "full"} : ParseLine(t)
    PROVE  ConfirmInv'
<1>1. reclist \in RecList /\ reclist.call \in CallField /\ setup' = setup
  BY DEF TypeInv, WinOK, RecList, TypeInLine, ParseLine
<1>2. ASSUME NEW k, NEW t \in {"none", "part", "flawed", "full"}, NEW q \in BOOLEAN,
             k \in 1..QtcLines, Careful => ~reclist.lines[k].confirmed,
             reclist' = ShowStatus([reclist EXCEPT !.lines[k] = Typed(reclist.lines[k], t, q)], k)
      PROVE  ConfirmInv'
  <2> DEFINE l == reclist.lines[k]
             new == Typed(l, t, q)
             lines == [reclist.lines EXCEPT ![k] = new]
             r == [reclist EXCEPT !.lines = lines]
  <2>1. l \in RecLine /\ reclist.lines \in [1..QtcLines -> RecLine]
    BY <1>1, <1>2 DEF RecList, RecLine
  <2>2. new \in RecLine /\ new.confirmed = l.confirmed
    <3> HIDE DEF l
    <3>1. Typed(l, t, q) \in RecLine
      BY <1>1, <2>1, TypedIs
    <3>2. Typed(l, t, q).confirmed = l.confirmed
      BY <2>1 DEF Typed, RecLine
    <3> QED  BY <3>1, <3>2
  <2>3. reclist' = ShowStatus(r, k)
    BY <1>1, <1>2 DEF RecList
  <2> HIDE DEF new
  <2>4. lines \in [1..QtcLines -> RecLine] /\ lines[k] = new
        /\ \A j \in 1..QtcLines : j # k => lines[j] = reclist.lines[j]
    BY <1>2, <2>1, <2>2
  <2> HIDE DEF lines
  <2>5. r \in RecList /\ r.lines = lines /\ r.confirmed = reclist.confirmed
    BY <1>1, <2>4 DEF RecList, RecLine
  <2> HIDE DEF r
  <2>6. ASSUME Careful, SureOf(reclist) PROVE SureOf(r)
    <3>1. ASSUME NEW j \in 1..QtcLines
          PROVE  /\ r.lines[j].confirmed = reclist.lines[j].confirmed
                 /\ reclist.lines[j].confirmed =>
                        r.lines[j].text = reclist.lines[j].text
                        /\ (Locked(reclist.lines[j]) => Locked(r.lines[j]))
      BY <1>2, <2>2, <2>4, <2>5, <2>6
    <3> QED  BY <2>5, <2>6, <3>1, SureSame
  <2>7. SameBlock(reclist', r)
    BY <2>3, <2>5, ShowStatusIs
  <2>8. Careful /\ SureOf(reclist) => SureOf(reclist')
    BY <2>6, <2>7, SureBlock
  <2>9. CASE Careful
    BY <1>1, <2>8, <2>9, ConfirmKept
  <2>10. CASE ~Careful
    BY <1>1, <2>10 DEF ConfirmInv, Careful
  <2> QED  BY <2>9, <2>10
<1>3. ASSUME NEW t \in {"none", "part", "flawed", "full"}, NEW q \in BOOLEAN, TypeInLine(t, q)
      PROVE  ConfirmInv'
  <2>1. RecvLine(field) \in 1..QtcLines
    BY <1>3, Fields DEF TypeInLine
  <2>2. Careful => ~reclist.lines[RecvLine(field)].confirmed
    BY <1>3 DEF TypeInLine, Careful
  <2> QED  BY <1>2, <1>3, <2>1, <2>2 DEF TypeInLine
<1>4. ASSUME NEW t \in {"part", "flawed", "full"}, ParseLine(t) PROVE ConfirmInv'
  <2> DEFINE k == NextParsed
  <2>1. k \in Nat /\ k > 0
    BY <1>4 DEF ParseLine, NextParsed, TypeInv, WinOK
  <2>2. CASE k > QtcLines
    <3>1. reclist' = reclist
      BY <1>4, <2>2 DEF ParseLine
    <3> QED  BY <1>1, <3>1, ConfirmKept
  <2>3. CASE ~(k > QtcLines)
    <3>1. k \in 1..QtcLines
      BY <2>1, <2>3, QtcAssumption
    <3>2. /\ reclist' = ShowStatus([reclist EXCEPT !.lines[k] = Typed(@, t, t = "flawed")], k)
          /\ Careful => ~reclist.lines[k].confirmed
      BY <1>4, <2>3 DEF ParseLine, Careful
    <3> HIDE DEF k
    <3>3. reclist' = ShowStatus([reclist EXCEPT !.lines[k] = Typed(reclist.lines[k], t, t = "flawed")], k)
      BY <1>1, <3>1, <3>2 DEF RecList
    <3> QED  BY <1>2, <3>1, <3>2, <3>3
  <2> QED  BY <2>2, <2>3
<1> QED  BY <1>3, <1>4

(* Enter in a line keeps the count; when a block is stored, each line that  *)
(* was confirmed is among those that are long enough.                      *)
LEMMA ConfirmStore ==
    ASSUME TypeInv, ConfirmInv, NEW r \in RecList, NEW shown, SameBlock(shown, r), NEW done,
           StoreIfComplete(r, shown), SureOf(reclist) => SureOf(r) /\ Sure(r) = done, setup' = setup
    PROVE  /\ ConfirmInv'
           /\ Careful /\ window # window' =>
                  r.count <= Cardinality(done) /\ Cardinality(done) <= Len(recvLog') - Len(recvLog)
<1>1. CASE /\ SaveReceived(ReceivedLines(r)) /\ reclist' = NewRec
           /\ r.count > 0 /\ r.confirmed = r.count
  <2>1. ConfirmInv'
    BY <1>1, SureNew, ConfirmKept
  <2>2. Len(recvLog') - Len(recvLog) = Cardinality(LongEnough(r))
    <3> DEFINE lines == ReceivedLines(r)
    <3>0. recvLog \in Seq(RecvLogLine)
      BY DEF TypeInv, DataInv, DataOK
    <3>1. lines \in Seq(RecvLogLine) /\ Len(lines) = Cardinality(LongEnough(r))
      BY ReceivedLinesAre
    <3>2. recvLog' = recvLog \o lines
      BY <1>1 DEF SaveReceived
    <3> HIDE DEF lines
    <3>3. Len(recvLog') = Len(recvLog) + Len(lines) /\ Len(lines) \in Nat /\ Len(recvLog) \in Nat
      BY <3>0, <3>1, <3>2
    <3> QED  BY <3>1, <3>3
  <2>3. ASSUME Careful
        PROVE  /\ r.count <= Cardinality(done)
               /\ Cardinality(done) <= Len(recvLog') - Len(recvLog)
    <3>1. SureOf(r) /\ Sure(r) = done
      BY <2>3 DEF ConfirmInv
    <3>2. Cardinality(done) = r.count
      BY <1>1, <3>1 DEF SureOf
    <3>3. done \subseteq LongEnough(r)
      BY <3>1 DEF SureOf, Sure, LongEnough
    <3>4. IsFiniteSet(LongEnough(r))
      BY ReceivedLinesAre
    <3>5. Cardinality(done) <= Cardinality(LongEnough(r))
      BY <3>3, <3>4, FS_Subset
    <3>6. r.count \in Int
      BY DEF RecList
    <3> QED  BY <2>2, <3>2, <3>5, <3>6
  <2> QED  BY <2>1, <2>3
<1>2. CASE reclist' = shown /\ UNCHANGED window
  <2>1. SureOf(reclist) => SureOf(reclist')
    BY <1>2, SureBlock
  <2>2. ConfirmInv'
    BY <2>1, ConfirmKept
  <2> QED  BY <1>2, <2>2
<1> QED  BY <1>1, <1>2 DEF StoreIfComplete

LEMMA ConfirmEnter ==
    ASSUME TypeInv, ConfirmInv, RecvEnter
    PROVE  /\ ConfirmInv'
           /\ LET k    == RecvLine(field)
                  done == Sure(reclist)
                            \cup (IF k <= reclist.count /\ Accepted(reclist.lines[k]) THEN {k} ELSE {})
              IN  Careful /\ window # window' =>
                      /\ reclist.count <= Cardinality(done)
                      /\ Cardinality(done) <= Len(recvLog') - Len(recvLog)
<1> DEFINE k == RecvLine(field)
           ok == Accepted(reclist.lines[k])
           r  == IF ok THEN Confirm(reclist, k) ELSE reclist
           to == IF ok /\ k <= reclist.count THEN NextLine(field) ELSE field
           done == Sure(reclist) \cup (IF k <= reclist.count /\ ok THEN {k} ELSE {})
<1>1. /\ k \in 1..QtcLines /\ reclist \in RecList /\ setup' = setup /\ ~(setup.digi /\ setup.lazy)
      /\ recvLog \in Seq(RecvLogLine)
  BY Fields, WindowAssumption DEF TypeInv, WinOK, RecvEnter, DataInv, DataOK
<1>2. Confirmed(Confirm(reclist, k), reclist, k)
  BY <1>1, ConfirmIs
<1>3. r \in RecList /\ r.count = reclist.count
  BY <1>1, <1>2 DEF Confirmed
<1>4. SureOf(reclist) => SureOf(r) /\ Sure(r) = done
  <2>1. CASE ok
    <3> DEFINE s == Confirm(reclist, k)
    <3>1. r = s
      BY <2>1
    <3>2. Confirmed(s, reclist, k)
      BY <1>2
    <3> HIDE DEF s, r
    <3>3. SureOf(reclist) => SureOf(s) /\ Sure(s) = done
      BY <1>1, <2>1, <3>2, SureConfirmed
    <3> QED  BY <3>1, <3>3
  <2>2. CASE ~ok
    BY <2>2
  <2> QED  BY <2>1, <2>2
<1>5. StoreIfComplete(r, ShowFields(r, field, to))
  BY DEF RecvEnter
<1> HIDE DEF k, ok, r, to, done
<1>6. SameBlock(ShowFields(r, field, to), r)
  BY <1>3, ShowFieldsIs
<1>7. /\ ConfirmInv'
      /\ Careful /\ window # window' =>
             r.count <= Cardinality(done) /\ Cardinality(done) <= Len(recvLog') - Len(recvLog)
  BY <1>1, <1>3, <1>4, <1>5, <1>6, ConfirmStore
<1> QED  BY <1>3, <1>7 DEF k, ok, done

(* Enter behind the last line confirms nothing. *)
LEMMA ConfirmOutside ==
    ASSUME TypeInv, ConfirmInv, RecvEnterOutside
    PROVE  /\ ConfirmInv'
           /\ LET k    == RecvLine(field)
                  done == Sure(reclist)
                            \cup (IF k <= reclist.count /\ Accepted(reclist.lines[k]) THEN {k} ELSE {})
              IN  Careful /\ window # window' =>
                      /\ reclist.count <= Cardinality(done)
                      /\ Cardinality(done) <= Len(recvLog') - Len(recvLog)
<1> DEFINE k == RecvLine(field)
           done == Sure(reclist) \cup (IF k <= reclist.count /\ Accepted(reclist.lines[k]) THEN {k} ELSE {})
<1>1. /\ reclist \in RecList /\ setup' = setup /\ StoreIfComplete(reclist, reclist)
      /\ reclist.count <= QtcLines /\ SameBlock(reclist, reclist)
  BY DEF TypeInv, WinOK, RecList, RecvEnterOutside, SameBlock
<1>2. k \in Int /\ k > QtcLines
  <2>1. field \in Int /\ field > 3 * QtcLines + 2 /\ QtcLines \in Nat \ {0}
    BY Fields DEF RecvEnterOutside, TypeInv, WinOK
  <2>2. \A q \in Nat \ {0} : \A f \in Int : f > 3 * q + 2 =>
            (f - 3) \div 3 + 1 \in Int /\ (f - 3) \div 3 + 1 > q
    OBVIOUS
  <2> QED  BY <2>1, <2>2 DEF RecvLine
<1>3. done = Sure(reclist)
  <2>1. reclist.count \in Int /\ QtcLines \in Int
    BY <1>1, QtcAssumption DEF RecList
  <2> QED  BY <1>1, <1>2, <2>1
<1> HIDE DEF done
<1>4. /\ ConfirmInv'
      /\ Careful /\ window # window' =>
             reclist.count <= Cardinality(done) /\ Cardinality(done) <= Len(recvLog') - Len(recvLog)
  BY <1>1, <1>3, ConfirmStore
<1> QED  BY <1>4 DEF done

LEMMA ConfirmQuery ==
    ASSUME TypeInv, ConfirmInv, QueryFull
    PROVE  ConfirmInv'
<1>1. setup' = setup /\ (Careful => ~reclist.lines[RecvLine(field)].confirmed)
  BY DEF QueryFull, Careful
<1>2. CASE Careful
  <2>1. SureOf(reclist) => SureOf(reclist')
    <3>1. \A j \in 1..QtcLines :
              /\ reclist'.lines[j].confirmed = reclist.lines[j].confirmed
              /\ reclist.lines[j].confirmed =>
                     reclist'.lines[j].text = reclist.lines[j].text
                     /\ (Locked(reclist.lines[j]) => Locked(reclist'.lines[j]))
      BY <1>1, <1>2, QueryIs
    <3>2. reclist'.confirmed = reclist.confirmed
      BY QueryIs
    <3> QED  BY <3>1, <3>2, SureSame
  <2> QED  BY <1>1, <2>1, ConfirmKept
<1>3. CASE ~Careful
  BY <1>1, <1>3 DEF ConfirmInv, Careful
<1> QED  BY <1>2, <1>3

LEMMA ConfirmNext == TypeInv /\ ConfirmInv /\ [Next]_vars => ConfirmInv'
<1> SUFFICES ASSUME TypeInv, ConfirmInv, [Next]_vars PROVE ConfirmInv'
  OBVIOUS
<1>1. ASSUME UNCHANGED <<setup, reclist>> PROVE ConfirmInv'
  BY <1>1, ConfirmKept
<1>2. ASSUME NEW dir, NEW c \in setup.stations \cup {NoCall}, Open(dir, c) PROVE ConfirmInv'
  BY <1>2, ConfirmOpen
<1>3. ASSUME \/ Move \/ HeaderEnter
             \/ \E c \in setup.stations \cup {NoCall, Partial} : EditCall(c)
             \/ \E n \in 0..QtcLines : TypeCount(n)
             \/ \E n \in 0..1 : EraseCount(n)
             \/ \E n \in 0..1 : TypeSerial(n)
             \/ \E n \in 1..QtcLines : ParseHeader(n)
      PROVE  ConfirmInv'
  BY <1>3, ConfirmHeader
<1>4. CASE Escape \/ SendEnter \/ SendEnterOutside \/ SendBlock \/ Unsend \/ Save \/ ResetTerminal
  BY <1>1, <1>4 DEF Escape, SendEnter, SendEnterOutside, SendBlock, Unsend, Save, ResetTerminal
<1>5. ASSUME \/ \E t \in {"none", "part", "flawed", "full"}, q \in BOOLEAN : TypeInLine(t, q)
             \/ \E t \in {"part", "flawed", "full"} : ParseLine(t)
      PROVE  ConfirmInv'
  BY <1>5, ConfirmText
<1>6. CASE FillTimes
  BY <1>6 DEF FillTimes, ConfirmInv, Careful
<1>7. CASE RecvEnter \/ RecvEnterOutside \/ QueryFull
  BY <1>7, ConfirmEnter, ConfirmOutside, ConfirmQuery
<1>8. ASSUME NEW f, Mark(f) PROVE ConfirmInv'
  BY <1>1, <1>8 DEF Mark, winVars
<1>9. CASE Restart
  <2>1. setup' = setup /\ reclist' = NewRec
    BY <1>9 DEF Restart
  <2> QED  BY <2>1, SureNew, ConfirmKept
<1>10. CASE MainWindow \/ Lan \/ UNCHANGED vars
  BY <1>1, <1>10 DEF MainWindow, Lan, vars, winVars
<1> QED  BY <1>2, <1>3, <1>4, <1>5, <1>6, <1>7, <1>8, <1>9, <1>10 DEF Next

\* Only Enter in a line closes the window and adds to what was received.
LEMMA StoredByEnter ==
    ASSUME TypeInv, Next, window # window', Len(recvLog') > Len(recvLog)
    PROVE  RecvEnter \/ RecvEnterOutside
<1>1. Len(recvLog) \in Nat
  BY DEF TypeInv, DataInv, DataOK
<1>2. ~(Len(recvLog) > Len(recvLog))
  BY <1>1
<1>3. recvLog' # recvLog
  BY <1>2
<1>4. CASE \/ \E dir \in Directions, c \in setup.stations \cup {NoCall} : Open(dir, c)
           \/ Escape \/ Save \/ Restart
  BY <1>3, <1>4 DEF Open, Escape, Save, SaveSent, Restart, Idle
<1> QED  BY <1>4 DEF Next, Move, EditCall, TypeCount, EraseCount, TypeSerial, SendEnter, SendEnterOutside,
            SendBlock, Unsend, TypeInLine, QueryFull, FillTimes, HeaderEnter, ParseHeader, ParseLine, ResetTerminal,
            Mark, MainWindow, Lan, winVars

LEMMA StoredStep ==
    ASSUME TypeInv, ConfirmInv, Next, Careful, window # window', Len(recvLog') > Len(recvLog)
    PROVE  LET k    == RecvLine(field)
               done == {j \in 1..QtcLines : reclist.lines[j].confirmed}
                         \cup (IF k <= reclist.count /\ Accepted(reclist.lines[k]) THEN {k} ELSE {})
               new  == Len(recvLog') - Len(recvLog)
           IN  reclist.count <= Cardinality(done) /\ Cardinality(done) <= new
<1>1. RecvEnter \/ RecvEnterOutside
  BY StoredByEnter
<1> QED  BY <1>1, ConfirmEnter, ConfirmOutside DEF Sure

(* What was confirmed with "R" is in the block that is stored, and a block  *)
(* is not stored before as many lines were confirmed as were announced.    *)
THEOREM StoredAsConfirmed == Spec => ConfirmedIsStored
<1>1. Init => ConfirmInv
  BY SureNew DEF Init, ConfirmInv
<1>2. Spec => [](TypeInv /\ ConfirmInv)
  BY <1>1, InitTypes, NextTypes, ConfirmNext, PTL DEF Spec
<1>3. TypeInv /\ ConfirmInv /\ [Next]_vars =>
          [ (setup.keys \cap {"edit", "fill"} = {} /\ window # window' /\ Len(recvLog') > Len(recvLog)) =>
                LET k    == RecvLine(field)
                    done == {j \in 1..QtcLines : reclist.lines[j].confirmed}
                              \cup (IF k <= reclist.count /\ Accepted(reclist.lines[k]) THEN {k} ELSE {})
                    new  == Len(recvLog') - Len(recvLog)
                IN  reclist.count <= Cardinality(done) /\ Cardinality(done) <= new ]_vars
  BY StoredStep DEF Careful
<1> QED  BY <1>2, <1>3, PTL DEF Spec, ConfirmedIsStored

-----------------------------------------------------------------------------
(* The ledger: what a plain operator sends is given once.                  *)

\* Whom a block may be for: a station, or nobody yet.
Receivers == Calls \cup {NoCall}

NoneSent(l) == \A k \in 1..QtcLines : ~l.lines[k].sent

\* Lines that were sent are of the block, and are written; the count says so.
Marked(l) ==
    /\ \A k \in 1..QtcLines : l.lines[k].sent => k <= l.count /\ l.lines[k].flag
    /\ l.total > 0 => ~NoneSent(l)

\* The block has QSOs of others that were not given away, each of them once, and
\* not more than the station may still have.
Allowed(l) ==
    /\ \A k \in 1..l.count :
           /\ l.lines[k].pos \notin used /\ log[l.lines[k].pos].call # l.call
           /\ \A j \in 1..(k - 1) : l.lines[j].pos < l.lines[k].pos
    /\ l.call \in Receivers => l.count <= QtcLines - store[l.call].send

LedgerInv == Plain =>
    /\ prev = qtclist.call /\ qtclist.call # Partial /\ field <= LastSend /\ recvLog = <<>>
    /\ window = "closed" => NoneSent(qtclist)
    /\ Marked(qtclist) /\ Allowed(qtclist)
    /\ \A c \in Receivers : store[c].send <= QtcLines

LEMMA PlainIs ==
    ASSUME TypeInv, Plain
    PROVE  SameNumbers /\ window \in {"closed", "send"}
  BY DEF Plain, SameNumbers, TypeInv, WinOK

LEMMA MarkedSame ==
    ASSUME NEW l \in SendList, NEW m \in SendList, SameLines(l, m), Allowed(m)
    PROVE  Allowed(l)
<1>1. l.count = m.count /\ l.call = m.call /\ m.count \in 0..QtcLines
  BY DEF SameLines, SendList
<1>2. \A k \in 1..m.count : k \in 1..QtcLines /\ \A j \in 1..(k - 1) : j \in 1..QtcLines
  BY <1>1, QtcAssumption
<1>3. ASSUME NEW k \in 1..m.count
      PROVE  /\ l.lines[k].pos \notin used /\ log[l.lines[k].pos].call # l.call
             /\ \A j \in 1..(k - 1) : l.lines[j].pos < l.lines[k].pos
  <2>1. l.lines[k].pos = m.lines[k].pos
    BY <1>2 DEF SameLines
  <2>2. \A j \in 1..(k - 1) : l.lines[j].pos = m.lines[j].pos
    BY <1>2 DEF SameLines
  <2> QED  BY <1>1, <2>1, <2>2 DEF Allowed
<1> QED  BY <1>1, <1>3 DEF Allowed

\* What a block may have when nothing was received.
LEMMA StillFree ==
    ASSUME DataInv, recvLog = <<>>, \A c \in Receivers : store[c].send <= QtcLines,
           NEW call \in CallField, call # Partial
    PROVE  /\ QtcLines - Total(store, call) \in 0..QtcLines
           /\ call \in Receivers => QtcLines - Total(store, call) = QtcLines - store[call].send
<1>1. call \in Receivers
  BY DEF CallField, Receivers
<1>2. call \in Receivers => /\ QtcLines - Total(store, call) \in 0..QtcLines
                            /\ QtcLines - Total(store, call) = QtcLines - store[call].send
  <2> SUFFICES ASSUME call \in Receivers
               PROVE  /\ QtcLines - Total(store, call) \in 0..QtcLines
                      /\ QtcLines - Total(store, call) = QtcLines - store[call].send
    OBVIOUS
  <2>2. {i \in 1..Len(recvLog) : recvLog[i].call = call} = {}
    OBVIOUS
  <2>3. store[call].recv = 0
    <3>1. call \in Stations
      BY DEF Stations, CallField, Receivers
    <3>2. store[call].recv = Cardinality({i \in 1..Len(recvLog) : recvLog[i].call = call})
      BY <3>1 DEF DataInv, Agreed
    <3> QED  BY <2>2, <3>2, FS_EmptySet
  <2>4. store[call].send \in Nat /\ store[call].send <= QtcLines
    <3>1. store[call] \in Counters
      BY DEF DataInv, DataOK, CallField, Receivers
    <3> QED  BY <3>1 DEF Counters
  <2> QED  BY <2>3, <2>4, QtcAssumption DEF Total
<1> QED  BY <1>1, <1>2

LEMMA LedgerGen ==
    ASSUME TypeInv, NoneSent(qtclist), recvLog = <<>>,
           \A c \in Receivers : store[c].send <= QtcLines,
           NEW call \in CallField, call # Partial, NEW g,
           g = GenQtcList(call, QtcLines - Total(store, call))
    PROVE  g \in SendList /\ g.call = call /\ Marked(g) /\ Allowed(g)
<1> DEFINE nr == QtcLines - Total(store, call)
<1>1. nr \in 0..QtcLines /\ (call \in Receivers => nr = QtcLines - store[call].send)
  BY StillFree DEF TypeInv
<1> HIDE DEF nr
<1>2. g = GenQtcList(call, nr)
  BY DEF nr
<1>3. /\ g \in SendList /\ g.call = call /\ g.total = 0 /\ g.count <= nr
      /\ \A k \in 1..g.count : g.lines[k].pos \in Offered(call) /\ ~g.lines[k].sent
      /\ \A j, k \in 1..g.count : j < k => g.lines[j].pos < g.lines[k].pos
      /\ \A k \in 1..QtcLines : k > g.count =>
             g.lines[k] \in {[EmptyLine EXCEPT !.pos = qtclist.lines[k].pos], qtclist.lines[k]}
  <2>1. DataOK /\ qtclist \in SendList
    BY DEF TypeInv, DataInv, WinOK
  <2> QED  BY <1>1, <1>2, <2>1, GenIs
<1>4. g.count \in 0..QtcLines
  BY <1>3 DEF SendList
<1>5. ASSUME NEW k \in 1..QtcLines PROVE ~g.lines[k].sent
  <2>1. CASE k <= g.count
    <3>1. k \in 1..g.count
      BY <1>4, <2>1, QtcAssumption
    <3> QED  BY <1>3, <3>1
  <2>2. CASE k > g.count
    <3>1. CASE g.lines[k] = [EmptyLine EXCEPT !.pos = qtclist.lines[k].pos]
      BY <3>1 DEF EmptyLine
    <3>2. CASE g.lines[k] = qtclist.lines[k]
      BY <3>2 DEF NoneSent
    <3> QED  BY <1>3, <2>2, <3>1, <3>2
  <2> QED  BY <1>4, <2>1, <2>2, QtcAssumption
<1>6. Marked(g)
  BY <1>3, <1>5 DEF Marked
<1>7. ASSUME NEW k \in 1..g.count
      PROVE  /\ g.lines[k].pos \notin used /\ log[g.lines[k].pos].call # g.call
             /\ \A j \in 1..(k - 1) : g.lines[j].pos < g.lines[k].pos
  <2>1. g.lines[k].pos \notin used /\ log[g.lines[k].pos].call # g.call
    <3>1. /\ g.lines[k].pos \in 1..Len(log) /\ g.lines[k].pos \notin used
          /\ ~BeginsWith(log[g.lines[k].pos].call, call)
      BY <1>3 DEF Offered
    <3>2. log[g.lines[k].pos].call \in Calls
      <4>1. log[g.lines[k].pos] \in LogLine
        BY <3>1 DEF TypeInv, DataInv, DataOK
      <4> QED  BY <4>1 DEF LogLine
    <3> QED  BY <1>3, <3>1, <3>2, QtcAssumption DEF BeginsWith
  <2>2. \A j \in 1..(k - 1) : j \in 1..g.count /\ j < k
    BY <1>4, QtcAssumption
  <2> QED  BY <1>3, <2>1, <2>2
<1>8. Allowed(g)
  BY <1>1, <1>3, <1>7 DEF Allowed
<1> QED  BY <1>3, <1>6, <1>8

LEMMA LedgerOpen ==
    ASSUME TypeInv, LedgerInv, NEW dir, NEW c \in setup.stations \cup {NoCall}, Open(dir, c)
    PROVE  LedgerInv'
<1> SUFFICES ASSUME Plain PROVE LedgerInv'
  BY DEF Open, LedgerInv, Plain
<1>1. /\ UNCHANGED <<setup, log, used, store, recvLog>> /\ window = "closed" /\ PrepareForSend(c)
      /\ window' = "send"
  BY DEF Open, Idle, Plain
<1>2. prev = qtclist.call /\ qtclist.call # Partial /\ NoneSent(qtclist) /\ recvLog = <<>> /\ field <= LastSend
      /\ Marked(qtclist) /\ Allowed(qtclist) /\ \A d \in Receivers : store[d].send <= QtcLines
  BY <1>1 DEF LedgerInv
<1> DEFINE l == IF c = NoCall THEN qtclist.call ELSE c
<1>3. l \in CallField /\ qtclist \in SendList
  BY CallsAre DEF TypeInv, WinOK, DataInv, SendList, CallField
<1>4. /\ prev' = l
      /\ \/ qtclist' = GenQtcList(l, QtcLines - Total(store, l)) /\ field' = 0
         \/ qtclist' = [qtclist EXCEPT !.call = l] /\ field' = field /\ l = prev
  BY <1>1 DEF PrepareForSend
<1>5. l # Partial
  BY <1>2, CallsAre, QtcAssumption DEF TypeInv, DataInv
<1> HIDE DEF l
<1>6. qtclist'.call = l /\ Marked(qtclist') /\ Allowed(qtclist') /\ field' <= LastSend
  <2>1. CASE qtclist' = GenQtcList(l, QtcLines - Total(store, l)) /\ field' = 0
    <3>1. field' <= LastSend
      BY <2>1, Fields
    <3> QED  BY <1>2, <1>3, <1>5, <2>1, <3>1, LedgerGen
  <2>2. CASE qtclist' = [qtclist EXCEPT !.call = l] /\ field' = field /\ l = prev
    <3>1. qtclist' = qtclist
      BY <1>2, <1>3, <2>2 DEF SendList
    <3> QED  BY <1>2, <2>2, <3>1
  <2> QED  BY <1>4, <2>1, <2>2
<1>7. Marked(qtclist)' /\ Allowed(qtclist)'
  BY <1>1, <1>6 DEF Marked, Allowed, NoneSent
<1> QED  BY <1>1, <1>2, <1>4, <1>5, <1>6, <1>7 DEF LedgerInv, LastSend

\* A list that changed its marks only.
LEMMA LedgerMarks ==
    ASSUME TypeInv, LedgerInv, Plain, UNCHANGED <<setup, window, prev, log, used, store, recvLog>>,
           window = "send", SameLines(qtclist', qtclist), Marked(qtclist'), field' <= LastSend
    PROVE  LedgerInv'
<1>1. qtclist' \in SendList /\ qtclist \in SendList /\ qtclist'.call = qtclist.call
  BY DEF TypeInv, WinOK, SameLines
<1>2. Allowed(qtclist')
  BY <1>1, MarkedSame DEF LedgerInv
<1>3. Marked(qtclist)' /\ Allowed(qtclist)'
  BY <1>2 DEF Marked, Allowed, NoneSent
<1> QED  BY <1>1, <1>3 DEF LedgerInv, LastSend

LEMMA LedgerSend ==
    ASSUME TypeInv, LedgerInv, SendEnter \/ SendEnterOutside \/ SendBlock \/ Unsend
    PROVE  LedgerInv'
<1>1. UNCHANGED <<setup, window, prev, log, used, store, recvLog>> /\ window = "send"
  BY DEF SendEnter, SendEnterOutside, SendBlock, Unsend, Idle
<1> SUFFICES ASSUME Plain PROVE LedgerInv'
  BY <1>1 DEF LedgerInv, Plain
<1>2. /\ qtclist \in SendList /\ qtclist.lines \in [1..QtcLines -> ListLine]
      /\ qtclist.count \in 0..QtcLines /\ qtclist.total \in Int
      /\ field \in Nat /\ field <= LastSend /\ Marked(qtclist)
  BY DEF TypeInv, WinOK, SendList, ListLine, LedgerInv
<1>3. CASE SendEnter
  <2> DEFINE k == SendLine(field)
             l == SendLineSent(qtclist, k)
  <2>1. k \in 1..QtcLines /\ k <= qtclist.count /\ qtclist' = l
    BY <1>3, Fields DEF SendEnter, Plain
  <2>2. field' <= LastSend
    BY <1>2, <1>3, Fields DEF SendEnter, SendLine
  <2>3. /\ SameLines(l, qtclist)
        /\ \A j \in 1..QtcLines : j # k => l.lines[j] = qtclist.lines[j]
        /\ l.lines[k].sent /\ l.lines[k].flag
    BY <1>2, <2>1, LineSentIs
  <2> HIDE DEF k, l
  <2>4. Marked(l)
    <3>1. l.count = qtclist.count
      BY <2>3 DEF SameLines
    <3>2. ~NoneSent(l)
      BY <2>1, <2>3 DEF NoneSent
    <3>3. \A j \in 1..QtcLines : l.lines[j].sent => j <= l.count /\ l.lines[j].flag
      BY <1>2, <2>1, <2>3, <3>1 DEF Marked
    <3> QED  BY <3>2, <3>3 DEF Marked
  <2> QED  BY <1>1, <2>1, <2>2, <2>3, <2>4, LedgerMarks
<1>4. CASE SendEnterOutside
  BY <1>2, <1>4, Fields DEF SendEnterOutside
<1>5. CASE SendBlock
  <2> DEFINE line(k) == IF k <= qtclist.count
                        THEN [qtclist.lines[k] EXCEPT !.sent = TRUE, !.flag = TRUE]
                        ELSE qtclist.lines[k]
             lines == [k \in 1..QtcLines |-> line(k)]
             count == qtclist.count
  <2>1. qtclist' = [qtclist EXCEPT !.total = count, !.lines = lines] /\ field' = field
    BY <1>5 DEF SendBlock
  <2>2. ASSUME NEW k \in 1..QtcLines
        PROVE  /\ line(k) \in ListLine
               /\ line(k).qso = qtclist.lines[k].qso /\ line(k).pos = qtclist.lines[k].pos
               /\ k <= qtclist.count => line(k).sent /\ line(k).flag
               /\ ~(k <= qtclist.count) => line(k) = qtclist.lines[k]
    <3> DEFINE m == qtclist.lines[k]
    <3>1. m \in ListLine
      BY <1>2
    <3> HIDE DEF m
    <3>2. [[m EXCEPT !.sent = TRUE] EXCEPT !.flag = TRUE] \in ListLine
      BY <3>1 DEF ListLine
    <3>3. LET n == [[m EXCEPT !.sent = TRUE] EXCEPT !.flag = TRUE]
          IN  n.qso = m.qso /\ n.pos = m.pos /\ n.sent /\ n.flag
      BY <3>1 DEF ListLine
    <3> QED  BY <3>1, <3>2, <3>3 DEF m
  <2> HIDE DEF line
  <2>3. lines \in [1..QtcLines -> ListLine] /\ \A k \in 1..QtcLines : lines[k] = line(k)
    BY <2>2
  <2> HIDE DEF lines
  <2>4. count = qtclist.count /\ count \in 0..QtcLines /\ count \in Int
    BY <1>2, QtcAssumption
  <2> HIDE DEF count
  <2>5. /\ qtclist' \in SendList /\ qtclist'.count = qtclist.count /\ qtclist'.call = qtclist.call
        /\ qtclist'.serial = qtclist.serial /\ qtclist'.lines = lines /\ qtclist'.total = count
    BY <1>2, <2>1, <2>3, <2>4 DEF SendList, ListLine
  <2>6. SameLines(qtclist', qtclist)
    BY <2>2, <2>3, <2>5 DEF SameLines
  <2>7. Marked(qtclist')
    <3>1. \A k \in 1..QtcLines : qtclist'.lines[k].sent => k <= qtclist'.count /\ qtclist'.lines[k].flag
      BY <1>2, <2>2, <2>3, <2>5 DEF Marked
    <3>2. qtclist'.total > 0 => 1 \in 1..QtcLines /\ 1 <= qtclist.count
      BY <2>4, <2>5, QtcAssumption
    <3>3. qtclist'.total > 0 => ~NoneSent(qtclist')
      BY <2>2, <2>3, <2>5, <3>2 DEF NoneSent
    <3> QED  BY <3>1, <3>3 DEF Marked
  <2> QED  BY <1>1, <1>2, <2>1, <2>6, <2>7, LedgerMarks
<1>6. CASE Unsend
  BY <1>6 DEF Unsend, Plain
<1> QED  BY <1>3, <1>4, <1>5, <1>6

LEMMA SameCount ==
    ASSUME DataInv, DataInv', sentLog' = sentLog, NEW c \in Receivers
    PROVE  store'[c].send = store[c].send
<1>1. c \in Stations
  BY DEF Stations, CallField, Receivers
<1>2. store[c].send = Cardinality({i \in 1..Len(sentLog) : sentLog[i].to = c})
  BY <1>1 DEF DataInv, Agreed
<1>3. store'[c].send = Cardinality({i \in 1..Len(sentLog') : sentLog'[i].to = c})
  BY <1>1 DEF DataInv, Agreed
<1> QED  BY <1>2, <1>3

\* What neither changes the list nor what was sent.
LEMMA LedgerSame ==
    ASSUME TypeInv, TypeInv', LedgerInv, setup' = setup,
           Plain => /\ UNCHANGED <<prev, qtclist, sentLog, recvLog>> /\ field' <= LastSend
                    /\ used' = used
                    /\ \A p \in 1..Len(log) : log'[p].call = log[p].call
                    /\ window' = "closed" => window = "closed" \/ NoneSent(qtclist),
           OfferInv
    PROVE  LedgerInv'
<1> SUFFICES ASSUME Plain PROVE LedgerInv'
  BY DEF LedgerInv, Plain
<1>1. \A c \in Receivers : store'[c].send = store[c].send
  BY SameCount DEF TypeInv
<1>2. Allowed(qtclist)'
  <2>1. qtclist.count \in 0..QtcLines /\ Allowed(qtclist) /\ ListOf(qtclist, Len(log))
    BY PlainIs DEF TypeInv, WinOK, SendList, LedgerInv, OfferInv
  <2>2. ASSUME NEW k \in 1..qtclist.count PROVE log'[qtclist.lines[k].pos].call = log[qtclist.lines[k].pos].call
    <3>1. k \in 1..QtcLines /\ k <= qtclist.count
      BY <2>1, QtcAssumption
    <3>2. qtclist.lines[k].pos \in 1..Len(log)
      BY <2>1, <3>1 DEF ListOf
    <3> QED  BY <3>2
  <2> QED  BY <1>1, <2>1, <2>2 DEF Allowed
<1>3. Marked(qtclist)'
  BY DEF LedgerInv, Marked, NoneSent
<1>4. NoneSent(qtclist) => NoneSent(qtclist)'
  BY DEF NoneSent
<1> QED  BY <1>1, <1>2, <1>3, <1>4 DEF LedgerInv, LastSend

\* What Ctrl-S writes.
NewLines(lines) ==
    /\ lines \in Seq(SentLine) /\ Len(lines) \in 1..qtclist.count
    /\ \A i \in 1..Len(lines) :
           /\ lines[i].to = qtclist.call /\ lines[i].qso = lines[i].pos
           /\ lines[i].pos \in 1..Len(log) /\ lines[i].pos \notin used
           /\ log[lines[i].pos].call # qtclist.call
    /\ \A i, j \in 1..Len(lines) : i < j => lines[i].pos < lines[j].pos

LEMMA SaveIs ==
    ASSUME TypeInv, OfferInv, LedgerInv, Plain, Save
    PROVE  NewLines(SentLines) /\ sentLog' = sentLog \o SentLines
<1>1. /\ qtclist \in SendList /\ qtclist.serial > 0 /\ qtclist.count \in 0..QtcLines
      /\ qtclist.count > 0 /\ qtclist.total = qtclist.count
      /\ sentLog' = sentLog \o SentLines
  BY DEF Save, SaveSent, TypeInv, WinOK, SendList
<1>2. Marked(qtclist) /\ Allowed(qtclist) /\ ListOf(qtclist, Len(log))
  BY PlainIs DEF LedgerInv, OfferInv
<1> DEFINE n == Cardinality(Ready)
           ks == InOrder(Ready)
<1>3. /\ n \in Nat /\ Ready \in SUBSET (1..QtcLines) /\ IsFiniteSet(Ready)
      /\ ks \in [1..n -> Ready] /\ Increasing(ks, n)
      /\ SentLines \in Seq(SentLine) /\ Len(SentLines) = n
      /\ \A i \in 1..n : /\ SentLines[i].qso = qtclist.lines[ks[i]].qso
                         /\ SentLines[i].pos = qtclist.lines[ks[i]].pos
                         /\ SentLines[i].to = qtclist.call
  BY <1>1, SentLinesAre
<1>4. Ready \subseteq 1..qtclist.count
  BY <1>1, <1>2 DEF Ready, Marked
<1>5. Ready # {}
  <2>1. PICK k \in 1..QtcLines : qtclist.lines[k].sent
    BY <1>1, <1>2 DEF Marked, NoneSent
  <2> QED  BY <1>2, <2>1 DEF Marked, Ready
<1> HIDE DEF n, ks
<1>6. n \in 1..qtclist.count
  <2>1. IsFiniteSet(1..qtclist.count) /\ Cardinality(1..qtclist.count) = qtclist.count
    <3>1. qtclist.count \in Nat
      BY <1>1, QtcAssumption DEF SendList
    <3> QED  BY <3>1, FS_Interval, SMTT(25)
  <2>2. n <= qtclist.count
    BY <1>4, <2>1, FS_Subset DEF n
  <2>3. n # 0
    BY <1>3, <1>5, FS_EmptySet DEF n
  <2> QED  BY <1>1, <1>3, <2>2, <2>3, QtcAssumption
<1> DEFINE lines == SentLines
<1> HIDE DEF lines
<1>7. /\ lines \in Seq(SentLine) /\ Len(lines) = n
      /\ \A i \in 1..n : /\ lines[i].qso = qtclist.lines[ks[i]].qso
                         /\ lines[i].pos = qtclist.lines[ks[i]].pos
                         /\ lines[i].to = qtclist.call
  BY <1>3 DEF lines
<1>8. \A i \in 1..n : ks[i] \in 1..qtclist.count /\ ks[i] \in 1..QtcLines
  BY <1>3, <1>4
<1>9. ASSUME NEW i \in 1..n
      PROVE  /\ lines[i].qso = lines[i].pos /\ lines[i].pos \in 1..Len(log) /\ lines[i].pos \notin used
             /\ log[lines[i].pos].call # qtclist.call
  <2>1. ks[i] <= qtclist.count
    BY <1>1, <1>8
  <2>2. /\ qtclist.lines[ks[i]].qso = qtclist.lines[ks[i]].pos
        /\ qtclist.lines[ks[i]].pos \in 1..Len(log)
    BY <1>2, <1>8, <2>1 DEF ListOf
  <2>3. /\ qtclist.lines[ks[i]].pos \notin used
        /\ log[qtclist.lines[ks[i]].pos].call # qtclist.call
    BY <1>2, <1>8 DEF Allowed
  <2> QED  BY <1>7, <2>2, <2>3
<1>10. ASSUME NEW i \in 1..n, NEW j \in 1..n, i < j PROVE lines[i].pos < lines[j].pos
  <2>1. ks[i] < ks[j]
    BY <1>3, <1>10 DEF Increasing
  <2>2. ks[i] \in 1..(ks[j] - 1)
    BY <1>1, <1>8, <2>1
  <2>3. qtclist.lines[ks[i]].pos < qtclist.lines[ks[j]].pos
    BY <1>2, <1>8, <2>2 DEF Allowed
  <2> QED  BY <1>7, <2>3
<1>11. NewLines(lines)
  BY <1>6, <1>7, <1>9, <1>10 DEF NewLines
<1> QED  BY <1>1, <1>11 DEF lines

\* How many lines a station has after Ctrl-S.
LEMMA SaveCounts ==
    ASSUME TypeInv, NEW lines, NewLines(lines), NEW c \in Receivers
    PROVE  /\ Cardinality({i \in 1..Len(sentLog \o lines) : (sentLog \o lines)[i].to = c}) \in Nat
           /\ Cardinality({i \in 1..Len(sentLog \o lines) : (sentLog \o lines)[i].to = c})
                  <= IF c = qtclist.call THEN store[c].send + qtclist.count ELSE store[c].send
<1> DEFINE a == Len(sentLog)
           b == Len(lines)
           sent == sentLog \o lines
           S == {i \in 1..a : sentLog[i].to = c}
           U == {i \in 1..b : lines[i].to = c}
           T == {i \in 1..Len(sent) : sent[i].to = c}
<1>1. sentLog \in Seq(SentLine) /\ lines \in Seq(SentLine) /\ a \in Nat /\ b \in Nat
      /\ b <= qtclist.count /\ qtclist.count \in 0..QtcLines
  BY QtcAssumption DEF TypeInv, DataInv, DataOK, NewLines, WinOK, SendList
<1>2. Len(sent) = a + b /\ (\A i \in 1..a : sent[i] = sentLog[i])
      /\ \A i \in 1..b : sent[a + i] = lines[i]
  BY <1>1
<1>3. store[c].send = Cardinality(S)
  BY DEF TypeInv, DataInv, Agreed, Stations, CallField, Receivers
<1>4. U \subseteq 1..b /\ (c # qtclist.call => U = {})
  BY DEF NewLines
<1> HIDE DEF a, b, sent
<1>5. InParts(T, S, U, a, b)
  BY <1>1, <1>2 DEF InParts
<1> HIDE DEF S, U, T
<1>6. /\ Cardinality(S) \in Nat /\ Cardinality(U) \in Nat
      /\ Cardinality(T) = Cardinality(S) + Cardinality(U)
  BY <1>1, <1>5, CountInParts
<1>7. Cardinality(U) <= b /\ (c # qtclist.call => Cardinality(U) = 0)
  <2>1. IsFiniteSet(1..b) /\ Cardinality(1..b) = b
    BY <1>1, FS_Interval
  <2>2. Cardinality(U) <= Cardinality(1..b)
    BY <1>4, <2>1, FS_Subset
  <2>3. c # qtclist.call => Cardinality(U) = 0
    BY <1>4, FS_EmptySet
  <2> QED  BY <2>1, <2>2, <2>3
<1>8. /\ Cardinality(T) \in Nat
      /\ Cardinality(T) <= IF c = qtclist.call THEN store[c].send + qtclist.count ELSE store[c].send
  BY <1>1, <1>3, <1>6, <1>7, QtcAssumption
<1> QED  BY <1>8 DEF T, sent

LEMMA LedgerSave ==
    ASSUME TypeInv, TypeInv', OfferInv, LedgerInv, Save
    PROVE  LedgerInv'
<1> SUFFICES ASSUME Plain PROVE LedgerInv'
  BY DEF LedgerInv, Plain, Save
<1>1. /\ NewLines(SentLines) /\ sentLog' = sentLog \o SentLines
      /\ setup' = setup /\ prev' = NoCall /\ field' = field /\ recvLog' = recvLog
      /\ qtclist'.call = NoCall /\ qtclist'.count = 0 /\ qtclist'.total = 0
  BY SaveIs DEF Save, SaveSent, EmptyList
<1>2. NoneSent(qtclist')
  <2> DEFINE ls == [k \in 1..QtcLines |-> [EmptyLine EXCEPT !.pos = qtclist.lines[k].pos]]
  <2>1. qtclist'.lines = ls
    BY DEF Save, EmptyList
  <2>2. \A k \in 1..QtcLines : ls[k].sent = FALSE
    BY DEF EmptyLine
  <2> HIDE DEF ls
  <2> QED  BY <2>1, <2>2 DEF NoneSent
<1>3. NoneSent(qtclist)' /\ Marked(qtclist)'
  BY <1>1, <1>2, QtcAssumption DEF NoneSent, Marked
<1>4. ASSUME NEW c \in Receivers PROVE store'[c].send <= QtcLines
  <2> DEFINE lines == SentLines
             n == Cardinality({i \in 1..Len(sentLog \o lines) : (sentLog \o lines)[i].to = c})
  <2> HIDE DEF lines
  <2>1. NewLines(lines) /\ sentLog' = sentLog \o lines
    BY <1>1 DEF lines
  <2>2. n \in Nat /\ n <= IF c = qtclist.call THEN store[c].send + qtclist.count ELSE store[c].send
    BY <2>1, SaveCounts
  <2>3. store'[c].send = n
    <3>1. c \in Stations
      BY DEF Stations, CallField, Receivers
    <3>2. store'[c].send = Cardinality({i \in 1..Len(sentLog') : sentLog'[i].to = c})
      BY <3>1 DEF TypeInv, DataInv, Agreed
    <3> QED  BY <2>1, <3>2
  <2> HIDE DEF n
  <2>4. /\ store[c].send \in Nat /\ store[c].send <= QtcLines
        /\ c = qtclist.call => qtclist.count <= QtcLines - store[c].send
        /\ qtclist.count \in 0..QtcLines
    <3>1. store[c] \in Counters
      BY DEF TypeInv, DataInv, DataOK, CallField, Receivers
    <3> QED  BY <3>1 DEF Counters, LedgerInv, Allowed, TypeInv, WinOK, SendList
  <2> QED  BY <2>2, <2>3, <2>4, QtcAssumption
<1>5. Allowed(qtclist)'
  <2>1. store'[NoCall].send \in Nat /\ store'[NoCall].send <= QtcLines
    <3>1. store'[NoCall] \in Counters
      BY DEF TypeInv, DataInv, DataOK, CallField
    <3> QED  BY <1>4, <3>1 DEF Counters, Receivers
  <2>2. qtclist'.count <= QtcLines - store'[NoCall].send /\ 1..qtclist'.count = {}
    BY <1>1, <2>1, QtcAssumption
  <2> QED  BY <1>1, <2>2 DEF Allowed
<1> QED  BY <1>1, <1>3, <1>4, <1>5, QtcAssumption DEF LedgerInv, LastSend

LEMMA LedgerNext == TypeInv /\ TypeInv' /\ OfferInv /\ LedgerInv /\ [Next]_vars => LedgerInv'
<1> SUFFICES ASSUME TypeInv, TypeInv', OfferInv, LedgerInv, [Next]_vars PROVE LedgerInv'
  OBVIOUS
<1>1. field \in Nat /\ (Plain => field <= LastSend /\ window \in {"closed", "send"})
  BY PlainIs, Fields DEF LedgerInv, TypeInv, WinOK
<1>2. ASSUME NEW dir \in Directions, NEW c \in setup.stations \cup {NoCall}, Open(dir, c)
      PROVE  LedgerInv'
  BY <1>2, LedgerOpen
<1>3. CASE Escape
  <2>1. /\ setup' = setup /\ UNCHANGED <<prev, field, qtclist, sentLog, recvLog, used, log>>
        /\ Plain => NoneSent(qtclist)
    BY <1>1, <1>3 DEF Escape, Idle, Plain, NoneSent
  <2> QED  BY <1>1, <2>1, LedgerSame
<1>4. CASE Move
  <2>1. /\ setup' = setup /\ UNCHANGED <<prev, qtclist, sentLog, recvLog, used, log, window>>
        /\ Plain => field' \in {SendUp, SendDown, SendTab}
    BY <1>1, <1>4 DEF Move, Idle
  <2>2. Plain => SendUp <= LastSend /\ SendDown <= LastSend /\ SendTab <= LastSend
    BY <1>1, Fields DEF SendUp, SendDown, SendTab
  <2> QED  BY <2>1, <2>2, LedgerSame
<1>5. ASSUME NEW n, TypeCount(n) \/ EraseCount(n) \/ TypeSerial(n) \/ EditCall(n)
                    \/ ParseHeader(n) \/ ParseLine(n)
      PROVE  LedgerInv'
  <2>1. setup' = setup /\ ~Plain
    BY <1>1, <1>5 DEF TypeCount, EraseCount, TypeSerial, EditCall, ParseHeader, ParseLine, Plain
  <2> QED  BY <2>1 DEF LedgerInv, Plain
<1>6. CASE SendEnter \/ SendEnterOutside \/ SendBlock \/ Unsend
  BY <1>6, LedgerSend
<1>7. CASE Save
  BY <1>7, LedgerSave
<1>8. ASSUME \/ QueryFull \/ FillTimes \/ RecvEnter \/ RecvEnterOutside \/ HeaderEnter \/ ResetTerminal \/ Lan
             \/ \E t, q : TypeInLine(t, q)
      PROVE  LedgerInv'
  <2>1. setup' = setup /\ ~Plain
    BY <1>1, <1>8 DEF QueryFull, FillTimes, RecvEnter, RecvEnterOutside, HeaderEnter, ResetTerminal,
       Lan, TypeInLine, Plain
  <2> QED  BY <2>1 DEF LedgerInv, Plain
<1>9. ASSUME NEW f, Mark(f) PROVE LedgerInv'
  <2>1. /\ setup' = setup
        /\ UNCHANGED <<prev, field, qtclist, sentLog, recvLog, used, log, window>>
    BY <1>9 DEF Mark, winVars
  <2> QED  BY <1>1, <2>1, LedgerSame
<1>10. CASE Restart
  <2> SUFFICES ASSUME Plain PROVE LedgerInv'
    BY <1>10 DEF LedgerInv, Plain, Restart
  <2>1. /\ setup' = setup /\ prev' = NoCall /\ field' = 0 /\ qtclist' = EmptyList
        /\ sentLog' = sentLog /\ recvLog' = recvLog
    BY <1>10 DEF Restart
  <2>2. EmptyList.call = NoCall /\ EmptyList.count = 0 /\ EmptyList.total = 0 /\ NoneSent(EmptyList)
    BY DEF EmptyList, EmptyLine, NoneSent
  <2>3. Marked(qtclist)' /\ NoneSent(qtclist)'
    BY <2>1, <2>2, QtcAssumption DEF Marked, NoneSent
  <2>4. \A c \in Receivers : store'[c].send = store[c].send
    BY <2>1, SameCount DEF TypeInv
  <2>5. 0 <= LastSend
    BY Fields
  <2>6. \A c \in Receivers : store'[c].send \in Nat /\ store'[c].send <= QtcLines
    <3>1. \A c \in Receivers : store'[c] \in Counters
      BY DEF TypeInv, DataInv, DataOK, CallField, Receivers
    <3> QED  BY <2>1, <2>4, <3>1 DEF LedgerInv, Plain, Counters
  <2>7. Allowed(qtclist)'
    <3>1. NoCall \in Receivers
      BY DEF Receivers
    <3>2. qtclist'.count <= QtcLines - store'[NoCall].send /\ 1..qtclist'.count = {}
      BY <2>1, <2>2, <2>6, <3>1, QtcAssumption
    <3> QED  BY <2>1, <2>2, <3>2 DEF Allowed
  <2> QED  BY <2>1, <2>2, <2>3, <2>5, <2>6, <2>7, QtcAssumption DEF LedgerInv, LastSend
<1>11. CASE MainWindow
  <2>1. ASSUME Plain
        PROVE  /\ UNCHANGED <<prev, qtclist, sentLog, recvLog, used, field, window>>
               /\ \A p \in 1..Len(log) : log'[p].call = log[p].call
    <3>1. ~DeleteQso
      <4>1. deleted \in Nat /\ (DeleteQso => deleted < 0)
        BY <2>1 DEF DeleteQso, Plain, TypeInv, DataInv, DataOK
      <4> QED  BY <4>1
    <3>2. PICK c : LogQso(c)
      BY <1>11, <3>1 DEF MainWindow
    <3>3. log \in Seq(LogLine) /\ log' = Append(log, [id |-> made + 1, call |-> c])
      BY <3>2 DEF LogQso, TypeInv, DataInv, DataOK
    <3>4. \A p \in 1..Len(log) : log'[p] = log[p]
      BY <3>3
    <3> QED  BY <1>11, <3>2, <3>4 DEF MainWindow, LogQso
  <2>2. setup' = setup
    BY <1>11 DEF MainWindow
  <2> QED  BY <1>1, <2>1, <2>2, LedgerSame
<1>12. CASE UNCHANGED vars
  <2>1. /\ setup' = setup
        /\ UNCHANGED <<prev, field, qtclist, sentLog, recvLog, used, log, window>>
    BY <1>12 DEF vars, dataVars, winVars
  <2> QED  BY <1>1, <2>1, LedgerSame
<1> QED  BY <1>2, <1>3, <1>4, <1>5, <1>6, <1>7, <1>8, <1>9, <1>10, <1>11, <1>12 DEF Next

LEMMA LedgerInit == Init => LedgerInv
<1> SUFFICES ASSUME Init, Plain PROVE LedgerInv
  BY DEF LedgerInv
<1>1. /\ prev = NoCall /\ field = 0 /\ qtclist = EmptyList /\ recvLog = <<>> /\ store = EmptyStore
  BY DEF Init
<1>2. EmptyList.call = NoCall /\ EmptyList.count = 0 /\ EmptyList.total = 0 /\ NoneSent(EmptyList)
  BY DEF EmptyList, EmptyLine, NoneSent
<1>3. Marked(EmptyList) /\ Allowed(EmptyList)
  <2>1. 1..EmptyList.count = {} /\ ~(EmptyList.total > 0)
    BY <1>2, QtcAssumption
  <2>2. Marked(EmptyList)
    BY <1>2, <2>1 DEF Marked, NoneSent
  <2>3. EmptyList.count <= QtcLines - store[NoCall].send
    BY <1>1, <1>2, QtcAssumption DEF EmptyStore, CallField
  <2> QED  BY <1>2, <2>1, <2>2, <2>3 DEF Allowed
<1>4. \A c \in Receivers : store[c].send <= QtcLines
  BY <1>1, QtcAssumption DEF EmptyStore, CallField, Receivers
<1>5. 0 <= LastSend
  BY Fields
<1>6. NoCall # Partial
  BY QtcAssumption
<1> QED  BY <1>1, <1>2, <1>3, <1>4, <1>5, <1>6 DEF LedgerInv

\* Lines that were sent, in the words of the ledger.
Gifts(sent) == [i \in 1..Len(sent) |-> [qso |-> sent[i].qso, to |-> sent[i].to]]

LEMMA SameCardinality == \A S : Ledger!Cardinality(S) = Cardinality(S)
  BY DEF Ledger!Cardinality, Cardinality

(* Ctrl-S gives a block.                                                   *)
LEMMA SaveGives ==
    ASSUME TypeInv, TypeInv', OfferInv, LedgerInv, Plain, Save
    PROVE  Ledger!Give
<1> DEFINE lines == SentLines
           n == Len(lines)
           g == Gifts(sentLog)
           h == Gifts(sentLog \o lines)
<1>1. NewLines(lines) /\ sentLog' = sentLog \o lines
  BY SaveIs
<1>2. setup' = setup /\ Plain' /\ log' = log
  BY DEF Save, Plain
<1>3. /\ sentLog \in Seq(SentLine) /\ lines \in Seq(SentLine) /\ Len(sentLog) \in Nat
      /\ Len(log) \in Nat /\ n \in 1..qtclist.count /\ qtclist.count \in 0..QtcLines
  <2>1. sentLog \in Seq(SentLine) /\ log \in Seq(LogLine) /\ qtclist.count \in 0..QtcLines
    BY DEF TypeInv, DataInv, DataOK, WinOK, SendList
  <2>2. lines \in Seq(SentLine) /\ n \in 1..qtclist.count
    BY <1>1 DEF NewLines
  <2> QED  BY <2>1, <2>2
<1> HIDE DEF lines
<1>4. /\ Len(g) = Len(sentLog) /\ Len(h) = Len(sentLog) + n
      /\ \A i \in 1..Len(sentLog) : h[i] = g[i] /\ g[i].qso = sentLog[i].qso
      /\ \A i \in 1..n : h[Len(sentLog) + i].qso = lines[i].qso /\ h[Len(sentLog) + i].to = lines[i].to
  BY <1>3 DEF Gifts
<1>5. \E m \in 1..QtcLines : Len(h) = Len(g) + m
  <2>1. n \in 1..QtcLines
    BY <1>3, QtcAssumption
  <2> QED  BY <1>4, <2>1
<1>6. SubSeq(h, 1, Len(g)) = g
  BY <1>3, <1>4 DEF Gifts
<1>7. ASSUME NEW i \in (Len(g) + 1)..Len(h)
      PROVE  /\ h[i].to = h[Len(h)].to
             /\ \E q \in 1..Len(log) : log[q].id = h[i].qso /\ log[q].call # h[i].to
             /\ \A j \in 1..(i - 1) : h[j].qso # h[i].qso
  <2> DEFINE m == i - Len(sentLog)
  <2>1. m \in 1..n /\ i = Len(sentLog) + m /\ n \in 1..n /\ Len(h) = Len(sentLog) + n
    BY <1>3, <1>4, QtcAssumption
  <2> HIDE DEF m, g, h
  <2>2. h[i].qso = lines[m].qso /\ h[i].to = qtclist.call /\ h[Len(h)].to = qtclist.call
    <3>1. h[i].qso = lines[m].qso /\ h[i].to = lines[m].to /\ h[Len(h)].to = lines[n].to
      BY <1>4, <2>1
    <3> QED  BY <1>1, <2>1, <3>1 DEF NewLines
  <2>3. /\ lines[m].qso = lines[m].pos /\ lines[m].pos \in 1..Len(log) /\ lines[m].pos \notin used
        /\ log[lines[m].pos].call # qtclist.call
    BY <1>1, <2>1 DEF NewLines
  <2>4. log[lines[m].pos].id = lines[m].pos
    BY <2>3, PlainIs DEF OfferInv
  <2>5. ASSUME NEW j \in 1..(i - 1) PROVE h[j].qso # h[i].qso
    <3>1. CASE j <= Len(sentLog)
      <4>1. j \in 1..Len(sentLog)
        BY <1>3, <3>1
      <4>2. h[j].qso = sentLog[j].pos
        BY <1>4, <4>1, PlainIs DEF OfferInv
      <4>3. sentLog[j].pos \in used
        BY <4>1 DEF TypeInv, DataInv, Agreed, Positions
      <4> QED  BY <2>2, <2>3, <4>2, <4>3
    <3>2. CASE ~(j <= Len(sentLog))
      <4> DEFINE k == j - Len(sentLog)
      <4>1. k \in 1..n /\ j = Len(sentLog) + k /\ k < m
        BY <1>3, <2>1, <3>2, QtcAssumption
      <4> HIDE DEF k
      <4>2. h[j].qso = lines[k].pos
        <5>1. h[j].qso = lines[k].qso
          BY <1>4, <4>1
        <5> QED  BY <1>1, <4>1, <5>1 DEF NewLines
      <4>3. lines[k].pos < lines[m].pos
        BY <1>1, <2>1, <4>1 DEF NewLines
      <4>4. lines[k].pos \in Nat /\ lines[m].pos \in Nat
        <5>1. lines[k].pos \in 1..Len(log) /\ lines[m].pos \in 1..Len(log)
          BY <1>1, <2>1, <4>1 DEF NewLines
        <5> QED  BY <1>3, <5>1
      <4> QED  BY <2>2, <2>3, <4>2, <4>3, <4>4
    <3> QED  BY <3>1, <3>2
  <2> QED  BY <2>2, <2>3, <2>4, <2>5
<1>8. ASSUME NEW c \in Calls PROVE Cardinality(Ledger!GivenTo(h, c)) <= QtcLines
  <2> DEFINE T == {i \in 1..Len(sentLog \o lines) : (sentLog \o lines)[i].to = c}
  <2>1. Ledger!GivenTo(h, c) = T
    <3>1. Len(h) = Len(sentLog \o lines)
      BY <1>3, <1>4
    <3>2. \A i \in 1..Len(sentLog \o lines) : h[i].to = (sentLog \o lines)[i].to
      BY DEF Gifts
    <3> QED  BY <3>1, <3>2 DEF Ledger!GivenTo
  <2>2. Cardinality(T) \in Nat
        /\ Cardinality(T) <= IF c = qtclist.call THEN store[c].send + qtclist.count ELSE store[c].send
    BY <1>1, SaveCounts DEF Receivers
  <2> HIDE DEF T
  <2>3. /\ store[c].send \in Nat /\ store[c].send <= QtcLines
        /\ c = qtclist.call => qtclist.count <= QtcLines - store[c].send
    <3>1. store[c] \in Counters
      BY DEF TypeInv, DataInv, DataOK, CallField, Receivers
    <3> QED  BY <3>1 DEF Counters, LedgerInv, Allowed, Receivers
  <2> QED  BY <1>3, <2>1, <2>2, <2>3, QtcAssumption
<1> HIDE DEF g, h
<1>9. Qsos = log /\ Qsos' = log /\ Given = g /\ Given' = h
  BY <1>1, <1>2 DEF g, h, Gifts, Qsos, Given
<1>10. \A c \in Calls : Ledger!Cardinality(Ledger!GivenTo(h, c)) <= QtcLines
  BY <1>8, SameCardinality
<1> QED  BY <1>5, <1>6, <1>7, <1>9, <1>10 DEF Ledger!Give

LEMMA LedgerStep ==
    TypeInv /\ TypeInv' /\ OfferInv /\ LedgerInv /\ [Next]_vars => [Ledger!Next]_<<Qsos, Given>>
<1> SUFFICES ASSUME TypeInv, TypeInv', OfferInv, LedgerInv, [Next]_vars
             PROVE  [Ledger!Next]_<<Qsos, Given>>
  OBVIOUS
<1>1. ASSUME UNCHANGED <<setup, log, sentLog>> PROVE UNCHANGED <<Qsos, Given>>
  BY <1>1 DEF Qsos, Given, Plain
<1>2. ASSUME setup' = setup, ~Plain PROVE UNCHANGED <<Qsos, Given>>
  BY <1>2 DEF Qsos, Given, Plain
<1>3. CASE Save
  <2>1. CASE Plain
    BY <1>3, <2>1, SaveGives DEF Ledger!Next
  <2>2. CASE ~Plain
    BY <1>2, <1>3, <2>2 DEF Save
  <2> QED  BY <2>1, <2>2
<1>4. CASE MainWindow
  <2>1. setup' = setup
    BY <1>4 DEF MainWindow
  <2>2. CASE ~Plain
    BY <1>2, <2>1, <2>2
  <2>3. ASSUME Plain, NEW c \in setup.stations, LogQso(c) PROVE Ledger!Next
    <3>1. c \in Calls
      BY CallsAre DEF TypeInv, DataInv
    <3>2. /\ log' = Append(log, [id |-> Len(log) + 1, call |-> c]) /\ sentLog' = sentLog
      BY <2>3, PlainIs DEF LogQso, OfferInv
    <3>3. Qsos = log /\ Qsos' = Append(Qsos, [id |-> Len(Qsos) + 1, call |-> c]) /\ Given' = Given
      BY <2>1, <2>3, <3>2 DEF Qsos, Given, Plain
    <3> QED  BY <3>1, <3>3 DEF Ledger!Next, Ledger!Log
  <2>4. ~DeleteQso \/ ~Plain
    <3>1. deleted \in Nat /\ (DeleteQso /\ Plain => deleted < 0)
      BY DEF DeleteQso, Plain, TypeInv, DataInv, DataOK
    <3> QED  BY <3>1
  <2> QED  BY <1>4, <2>2, <2>3, <2>4 DEF MainWindow
<1>5. CASE Lan
  BY <1>2, <1>5 DEF Lan, Plain
<1>6. CASE RecvEnter \/ RecvEnterOutside \/ Restart
  BY <1>1, <1>6 DEF RecvEnter, RecvEnterOutside, StoreIfComplete, SaveReceived, Restart
<1>7. ASSUME NEW f, Mark(f) PROVE UNCHANGED <<Qsos, Given>>
  BY <1>1, <1>7 DEF Mark
<1>8. ASSUME NEW n, NEW q,
             \/ Escape \/ Move \/ SendEnter \/ SendEnterOutside \/ SendBlock \/ Unsend
             \/ QueryFull \/ FillTimes \/ HeaderEnter \/ ResetTerminal
             \/ Open(n, q) \/ EditCall(n) \/ TypeCount(n) \/ EraseCount(n) \/ TypeSerial(n)
             \/ TypeInLine(n, q) \/ ParseHeader(n) \/ ParseLine(n)
      PROVE  UNCHANGED <<Qsos, Given>>
  <2>1. UNCHANGED <<setup, Idle>>
    BY <1>8 DEF Escape, Move, SendEnter, SendEnterOutside, SendBlock, Unsend, QueryFull, FillTimes,
       HeaderEnter, ResetTerminal, Open, EditCall, TypeCount, EraseCount, TypeSerial, TypeInLine, ParseHeader, ParseLine
  <2> QED  BY <1>1, <2>1 DEF Idle
<1>9. CASE UNCHANGED vars
  BY <1>1, <1>9 DEF vars, dataVars
<1> QED  BY <1>3, <1>4, <1>5, <1>6, <1>7, <1>8, <1>9 DEF Next

(* The window, the generated lists and the files keep the ledger: a QSO is  *)
(* given away once, never to its own station, and no station gets more than *)
(* a block's length, across restarts and blocks left unfinished.           *)
THEOREM Refinement == Spec => LedgerKept
<1>1. Init => Ledger!Init
  <2>1. Init => Qsos = <<>> /\ Given = <<>>
    <3> SUFFICES ASSUME Init PROVE Qsos = <<>> /\ Given = <<>>
      OBVIOUS
    <3>1. log = <<>> /\ sentLog = <<>> /\ 1..Len(sentLog) = {}
      BY DEF Init
    <3>2. [i \in 1..Len(sentLog) |-> [qso |-> sentLog[i].qso, to |-> sentLog[i].to]] = <<>>
      BY <3>1
    <3> QED  BY <3>1, <3>2 DEF Qsos, Given
  <2> QED  BY <2>1 DEF Ledger!Init
<1>2. Spec => [](TypeInv /\ OfferInv /\ LedgerInv)
  BY InitTypes, OfferInit, LedgerInit, NextTypes, OfferNext, LedgerNext, PTL DEF Spec
<1> QED  BY <1>1, <1>2, LedgerStep, PTL DEF Spec, LedgerKept, Ledger!Spec
=============================================================================
