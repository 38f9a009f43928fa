----------------------------- MODULE Files_proofs -----------------------------
(***************************************************************************)
(* What holds of the files that Tlf reads and writes as a whole: the log   *)
(* as a Cabrillo file, logcfg.dat, whose lines may come in any order, the  *)
(* header fields that both files set, and both files read again by :CFG.   *)
(***************************************************************************)
EXTENDS Cabrillo, Config, FiniteSetTheorems, SequenceTheorems, WellFoundedInduction, TLAPS

-----------------------------------------------------------------------------
(* The logs while the contest is on.                                       *)

\* What the lines of the logs and of the file are.
AllModes == UNION {x.modes : x \in Setups}

Contact  == [kind : {"qso"}, call : Calls, time : Nat, mode : AllModes,
             wide : UNION {x.wide : x \in Setups}]
Entries  == Contact \cup {Note}
Qtcs     == [kind : Directions, nr : Nat, time : Nat, mode : AllModes \cup {"DG"}, to : Calls,
             wide : UNION {x.wide : x \in Setups}, pos : Nat, of : (Calls \X Nat) \cup {<<>>}]
Line     == Contact \cup Qtcs \cup {[kind |-> "error"]}

\* What readcabrillo() has at hand: a QTC belongs to a contact, and has a number.
Found == [pos : Nat, nr : Nat]

Readers == [line : Nat, qsonr : Nat, ok : BOOLEAN, head : [Directions -> Nat],
            read : [Directions -> Nat], nr : [Directions -> Nat]]

Imports == [line : Nat, log : Seq(Line), used : SUBSET Nat, from : Nat,
            send : Seq(Found), recv : Seq(Found)]

\* A record at hand is one of its log.
HeadsInLogs(r) == \A d \in Directions : IF r.head[d] = None THEN r.nr[d] = 0
                                       ELSE r.head[d] \in DOMAIN qtcs[d]

\* The types, and that write_cabrillo() starts from the beginning of the logs.
TypeInv ==
    /\ setup \in Setups /\ clock \in Nat /\ log \in Seq(Entries)
    /\ qtcs \in [Directions -> Seq(Qtcs)]
    /\ \A d \in Directions : \A k \in DOMAIN qtcs[d] : qtcs[d][k].kind = d
    /\ phase \in {"contest", "export", "exported", "import", "imported"}
    /\ reader \in Readers /\ HeadsInLogs(reader)
    /\ phase = "contest" => reader = AtStart
    /\ out \in Seq(Line)
    /\ imported \in Imports

\* Without notes and deletions the log has contacts only, in the order of their times.
ContactsInv ==
    \A n \in DOMAIN log : /\ log[n] \in Contact /\ log[n].time <= clock
                          /\ \A m \in 1 .. n : log[m].time <= log[n].time

\* A QTC lies between the contact with its number and the next one.
QtcInv ==
    \A d \in Directions : \A k \in DOMAIN qtcs[d] :
        LET q == qtcs[d][k] IN
        /\ q.nr \in DOMAIN log /\ q.time <= clock
        /\ \A j \in 1 .. k : qtcs[d][j].nr <= q.nr /\ qtcs[d][j].time <= q.time
        /\ \A m \in DOMAIN log : IF m <= q.nr THEN log[m].time <= q.time
                                              ELSE q.time <= log[m].time

\* With a minute for each, strictly.
SlowInv ==
    /\ \A m, n \in DOMAIN log : m < n => log[m].time < log[n].time
    /\ \A d \in Directions : \A k \in DOMAIN qtcs[d] : \A m \in DOMAIN log :
           log[m].time # qtcs[d][k].time

\* QTCs sent quote contacts before them, each another one.
QuoteInv ==
    \A k \in DOMAIN qtcs["send"] :
        LET q == qtcs["send"][k] IN
        /\ q.pos \in 1 .. q.nr /\ q.of = <<log[q.pos].call, log[q.pos].time>>
        /\ \A j \in DOMAIN qtcs["send"] : qtcs["send"][j].pos = q.pos => j = k

\* What the merge relies on as long as nothing spoils the numbers.
OrderInv == Simple => ContactsInv /\ QtcInv /\ QuoteInv /\ (setup.slow => SlowInv)

-----------------------------------------------------------------------------
(* The merge.                                                              *)

\* The QTCs of a direction that are in the file.
Copied(d) == IF reader.head[d] = None THEN reader.read[d] ELSE reader.read[d] - 1

\* The record at hand is the last one read.
AtHand(r, d) ==
    /\ r.read[d] \in 0 .. Len(qtcs[d])
    /\ IF r.head[d] = None THEN r.nr[d] = 0
       ELSE r.head[d] = r.read[d] /\ r.nr[d] = qtcs[d][r.head[d]].nr

\* The contacts up to the reader's line are in the file, in any log.
CopyInv ==
    /\ reader.line \in 0 .. Len(log)
    /\ OfKind(out, "qso") = OfKind(SubSeq(log, 1, reader.line), "qso")

\* A QTC at hand has the number of the contact just written or of a later one; so none
\* is ever passed over, and the end of a log is reached only when all are written.
HeadsInv ==
    /\ reader.qsonr = reader.line
    /\ \A d \in Directions :
        /\ AtHand(reader, d)
        /\ IF reader.head[d] = None
           THEN reader.read[d] = IF reader.line = 0 THEN 0 ELSE Len(qtcs[d])
           ELSE reader.line # 0 /\ reader.nr[d] >= reader.line

\* The QTCs that are still to come.
Pending(d) == {k \in DOMAIN qtcs[d] : k > Copied(d)}

\* What is in the file is in order, and not younger than what is not.
SortedInv ==
    /\ \A j \in DOMAIN out :
        /\ out[j].kind # "error"
        /\ \A i \in 1 .. j : out[i].time <= out[j].time
        /\ \A m \in DOMAIN log : m > reader.line => out[j].time <= log[m].time
        /\ \A d \in Directions : \A k \in Pending(d) : out[j].time <= qtcs[d][k].time
    /\ Len(OfKind(out, "qso")) = reader.line
    /\ \A d \in Directions :
        /\ Len(OfKind(out, d)) = Copied(d)
        /\ \A c \in 1 .. Copied(d) : OfKind(out, d)[c] = PrepareLine(qtcs[d][c])

\* How many of the first n lines of the file are of that kind.
Count(kind, n) == Len(OfKind(SubSeq(out, 1, n), kind))

\* With a minute for each, every QTC follows the contact with its number.
PlaceInv ==
    \A j \in DOMAIN out :
        LET c == Count(out[j].kind, j) IN
        IF out[j].kind = "qso" THEN c \in DOMAIN log /\ out[j] = log[c]
        ELSE /\ c \in DOMAIN qtcs[out[j].kind] /\ out[j] = PrepareLine(qtcs[out[j].kind][c])
             /\ out[j].nr = Count("qso", j)

\* What is in the file at every moment of the merge ...
MergeInv ==
    phase # "contest" /\ reader.ok =>
        /\ CopyInv
        /\ Simple => HeadsInv /\ SortedInv /\ (setup.slow => PlaceInv)

\* ... and at its end: all of the log, and all of the QTCs.
EndInv ==
    phase \notin {"contest", "export"} /\ reader.ok =>
        /\ OfKind(SubSeq(log, 1, reader.line), "qso") = OfKind(log, "qso")
        /\ Simple => reader.line = Len(log) /\ \A d \in Directions : Copied(d) = Len(qtcs[d])

-----------------------------------------------------------------------------
(* The import.                                                             *)

\* The logs that the lines read so far give: the contacts as they were, and each QTC with
\* its number; the contacts in use are those of the QTCs sent, and all before the first
\* that the search looks at are in use.
ImportInv ==
    phase \in {"import", "imported"} /\ reader.ok /\ Simple /\ setup.slow =>
        LET i == imported IN
        /\ i.line \in 0 .. Len(out) /\ (phase = "imported" => i.line = Len(out))
        /\ i.log = SubSeq(log, 1, Count("qso", i.line))
        /\ Count("qso", i.line) \in 0 .. Len(log)
        /\ \A d \in Directions : /\ Len(i[d]) = Count(d, i.line)
                                 /\ \A k \in 1 .. Len(i[d]) : i[d][k].nr = qtcs[d][k].nr
        /\ \A k \in 1 .. Len(i.send) : i.send[k].pos = qtcs["send"][k].pos
        /\ i.used = {i.send[k].pos : k \in 1 .. Len(i.send)}
        /\ i.from \in Nat \ {0} /\ 1 .. i.from - 1 \subseteq i.used

(* A set that has 0, and with each number the next one, has them all: the   *)
(* least number that it lacks would have a predecessor.                     *)
LEMMA SetInduction ==
    ASSUME NEW S, 0 \in S, \A n \in Nat : n \in S => n + 1 \in S
    PROVE  Nat \subseteq S
<1> DEFINE T == Nat \ S
           R == OpToRel(<, Nat)
<1> SUFFICES ASSUME T # {} PROVE FALSE
  OBVIOUS
<1>1. IsWellFoundedOn(R, Nat)
  BY NatLessThanWellFounded
<1>2. \A m, n \in Nat : m < n => <<m, n>> \in R
  BY DEF OpToRel
<1> HIDE DEF R
<1>3. PICK n \in T : \A m \in T : <<m, n>> \notin R
  BY <1>1, WFMin
<1>4. n # 0 /\ n \in Nat /\ n - 1 \in Nat /\ n - 1 < n
  BY <1>3
<1>5. <<n - 1, n>> \in R
  BY <1>2, <1>4
<1>6. n - 1 \in S /\ (n - 1) + 1 = n
  BY <1>3, <1>4, <1>5
<1> QED  BY <1>3, <1>4, <1>6

-----------------------------------------------------------------------------
(* The lines of one kind.                                                  *)

\* f[i] has the lines of that kind among the first i.
Selects(f, list, kind, n) ==
    f = [i \in 0 .. n |->
            IF i = 0 THEN <<>>
            ELSE IF list[i].kind = kind THEN Append(f[i - 1], list[i]) ELSE f[i - 1]]

(* There is such a function for any number of lines. *)
LEMMA SelectionExists ==
    ASSUME NEW list, NEW kind, NEW n \in Nat
    PROVE  \E f : Selects(f, list, kind, n)
<1> DEFINE S == {k \in Nat : \E f : Selects(f, list, kind, k)}
<1>1. 0 \in S
  <2>1. Selects([i \in 0 .. 0 |-> <<>>], list, kind, 0)
    BY DEF Selects
  <2> QED  BY <2>1
<1>2. ASSUME NEW k \in Nat, k \in S
      PROVE  k + 1 \in S
  <2>1. PICK f : Selects(f, list, kind, k)
    BY <1>2
  <2> DEFINE last == IF list[k + 1].kind = kind THEN Append(f[k], list[k + 1]) ELSE f[k]
             g == [i \in 0 .. k + 1 |-> IF i = k + 1 THEN last ELSE f[i]]
  <2> HIDE DEF last
  <2>2. \A i \in 0 .. k : g[i] = f[i]
    OBVIOUS
  <2>3. \A i \in 0 .. k + 1 :
           g[i] = IF i = 0 THEN <<>>
                  ELSE IF list[i].kind = kind THEN Append(g[i - 1], list[i]) ELSE g[i - 1]
    <3> TAKE i \in 0 .. k + 1
    <3>1. CASE i = k + 1
      BY <2>2, <3>1 DEF last
    <3>2. CASE i \in 0 .. k
      <4>1. i # 0 => i - 1 \in 0 .. k
        BY <3>2
      <4>2. f[i] = IF i = 0 THEN <<>>
                   ELSE IF list[i].kind = kind THEN Append(f[i - 1], list[i]) ELSE f[i - 1]
        BY <2>1, <3>2 DEF Selects
      <4> HIDE DEF g
      <4> QED  BY <2>2, <3>2, <4>1, <4>2
    <3> QED  BY <3>1, <3>2
  <2>4. Selects(g, list, kind, k + 1)
    BY <2>3 DEF Selects
  <2> HIDE DEF g
  <2> QED  BY <2>4
<1> HIDE DEF S
<1>3. Nat \subseteq S
  BY <1>1, <1>2, SetInduction
<1> QED  BY <1>3 DEF S

(* OfKind() is the value of it for all lines. *)
LEMMA SelectionIs ==
    ASSUME NEW list, NEW kind, Len(list) \in Nat
    PROVE  \E f : Selects(f, list, kind, Len(list)) /\ OfKind(list, kind) = f[Len(list)]
<1>1. \E f : Selects(f, list, kind, Len(list))
  BY SelectionExists
<1> DEFINE of == CHOOSE f : Selects(f, list, kind, Len(list))
<1>2. Selects(of, list, kind, Len(list))
  BY <1>1
<1>3. OfKind(list, kind) = of[Len(list)]
  BY DEF OfKind, Selects
<1> HIDE DEF of
<1> QED  BY <1>2, <1>3

(* From one line to the next. *)
LEMMA SelectStep ==
    ASSUME NEW f, NEW list, NEW kind, NEW n \in Nat, Selects(f, list, kind, n),
           NEW k \in Nat, k < n
    PROVE  f[k + 1] = IF list[k + 1].kind = kind THEN Append(f[k], list[k + 1]) ELSE f[k]
<1>1. k + 1 \in 0 .. n /\ k + 1 # 0 /\ (k + 1) - 1 = k
  OBVIOUS
<1> QED  BY <1>1 DEF Selects

(* It does not depend on the lines that follow. *)
LEMMA SelectionLocal ==
    ASSUME NEW f, NEW list, NEW kind, NEW n \in Nat, Selects(f, list, kind, n),
           NEW g, NEW more, NEW m \in Nat, Selects(g, more, kind, m), n <= m,
           \A i \in 1 .. n : more[i] = list[i]
    PROVE  g[n] = f[n]
<1> DEFINE S == {k \in Nat : k <= n => g[k] = f[k]}
<1>1. 0 \in S
  BY DEF Selects
<1>2. ASSUME NEW k \in Nat, k \in S
      PROVE  k + 1 \in S
  <2> SUFFICES ASSUME k + 1 <= n PROVE g[k + 1] = f[k + 1]
    OBVIOUS
  <2>1. g[k] = f[k] /\ more[k + 1] = list[k + 1]
    BY <1>2
  <2>2. f[k + 1] = IF list[k + 1].kind = kind THEN Append(f[k], list[k + 1]) ELSE f[k]
    BY SelectStep
  <2>3. g[k + 1] = IF more[k + 1].kind = kind THEN Append(g[k], more[k + 1]) ELSE g[k]
    BY SelectStep
  <2> QED  BY <2>1, <2>2, <2>3
<1> HIDE DEF S
<1>3. n \in S
  BY <1>1, <1>2, SetInduction
<1> QED  BY <1>3 DEF S

(* The values of OfKind() that the steps of the merge need. *)
LEMMA NoLines == \A kind : OfKind(<<>>, kind) = <<>>
<1> TAKE kind
<1>1. Len(<<>>) = 0
  OBVIOUS
<1>2. PICK f : Selects(f, <<>>, kind, 0) /\ OfKind(<<>>, kind) = f[0]
  BY <1>1, SelectionIs
<1> QED  BY <1>2 DEF Selects

(* A line is appended. *)
LEMMA OneMore ==
    ASSUME NEW S, NEW list \in Seq(S), NEW e \in S, NEW kind
    PROVE  OfKind(Append(list, e), kind) =
               IF e.kind = kind THEN Append(OfKind(list, kind), e) ELSE OfKind(list, kind)
<1> DEFINE n == Len(list)
           more == Append(list, e)
<1>1. n \in Nat /\ Len(more) = n + 1 /\ more[n + 1] = e /\ \A i \in 1 .. n : more[i] = list[i]
  BY AppendProperties, LenProperties
<1> HIDE DEF more
<1>2. PICK f : Selects(f, list, kind, n) /\ OfKind(list, kind) = f[n]
  BY <1>1, SelectionIs
<1>3. PICK g : Selects(g, more, kind, n + 1) /\ OfKind(more, kind) = g[n + 1]
  BY <1>1, SelectionIs
<1> HIDE DEF n
<1>4. g[n] = f[n]
  BY <1>1, <1>2, <1>3, SelectionLocal
<1>5. g[n + 1] = IF more[n + 1].kind = kind THEN Append(g[n], more[n + 1]) ELSE g[n]
  BY <1>1, <1>3, SelectStep
<1> QED  BY <1>1, <1>2, <1>3, <1>4, <1>5 DEF more

(* What is selected are lines. *)
LEMMA SelectionType ==
    ASSUME NEW S, NEW list \in Seq(S), NEW kind
    PROVE  OfKind(list, kind) \in Seq(S)
<1> DEFINE n == Len(list)
<1>1. n \in Nat /\ \A i \in 1 .. n : list[i] \in S
  BY LenProperties, ElementOfSeq
<1>2. PICK f : Selects(f, list, kind, n) /\ OfKind(list, kind) = f[n]
  BY <1>1, SelectionIs
<1> HIDE DEF n
<1> DEFINE N == {k \in Nat : k <= n => f[k] \in Seq(S)}
<1>3. 0 \in N
  BY <1>2 DEF Selects
<1>4. ASSUME NEW k \in Nat, k \in N
      PROVE  k + 1 \in N
  <2> SUFFICES ASSUME k + 1 <= n PROVE f[k + 1] \in Seq(S)
    OBVIOUS
  <2>1. f[k] \in Seq(S) /\ list[k + 1] \in S
    BY <1>1, <1>4
  <2>2. f[k + 1] = IF list[k + 1].kind = kind THEN Append(f[k], list[k + 1]) ELSE f[k]
    BY <1>1, <1>2, SelectStep
  <2> QED  BY <2>1, <2>2, AppendProperties
<1> HIDE DEF N
<1>5. n \in N
  BY <1>1, <1>3, <1>4, SetInduction
<1> QED  BY <1>1, <1>2, <1>5 DEF N

(* The first lines of a file, and of one that grows. *)
LEMMA FirstLines ==
    ASSUME NEW S, NEW list \in Seq(S)
    PROVE  /\ SubSeq(list, 1, 0) = <<>>
           /\ SubSeq(list, 1, Len(list)) = list
           /\ \A n \in 0 .. Len(list) : SubSeq(list, 1, n) \in Seq(S)
           /\ \A n \in Nat : n < Len(list) =>
                  SubSeq(list, 1, n + 1) = Append(SubSeq(list, 1, n), list[n + 1])
           /\ \A e \in S : \A n \in 0 .. Len(list) :
                  SubSeq(Append(list, e), 1, n) = SubSeq(list, 1, n)
OBVIOUS

(* One line further on. *)
LEMMA PrefixStep ==
    ASSUME NEW S, NEW list \in Seq(S), NEW kind, NEW n \in Nat, n < Len(list)
    PROVE  OfKind(SubSeq(list, 1, n + 1), kind) =
               IF list[n + 1].kind = kind
               THEN Append(OfKind(SubSeq(list, 1, n), kind), list[n + 1])
               ELSE OfKind(SubSeq(list, 1, n), kind)
<1>1. list[n + 1] \in S /\ SubSeq(list, 1, n) \in Seq(S)
  <2>1. Len(list) \in Nat /\ n \in 0 .. Len(list) /\ n + 1 \in 1 .. Len(list)
    BY LenProperties
  <2>2. list[n + 1] \in S
    BY <2>1, ElementOfSeq
  <2> QED  BY <2>1, <2>2, FirstLines
<1>2. SubSeq(list, 1, n + 1) = Append(SubSeq(list, 1, n), list[n + 1])
  BY FirstLines
<1> DEFINE first == SubSeq(list, 1, n)
           next == list[n + 1]
<1>3. first \in Seq(S) /\ next \in S
  BY <1>1
<1> HIDE DEF first, next
<1>4. OfKind(Append(first, next), kind) =
          IF next.kind = kind THEN Append(OfKind(first, kind), next) ELSE OfKind(first, kind)
  BY <1>3, OneMore
<1> QED  BY <1>2, <1>4 DEF first, next

(* Lines of other kinds do not count. *)
LEMMA OthersSkipped ==
    ASSUME NEW S, NEW list \in Seq(S), NEW kind, NEW a \in Nat, NEW b \in Nat,
           a <= b, b <= Len(list), \A i \in a + 1 .. b : list[i].kind # kind
    PROVE  OfKind(SubSeq(list, 1, b), kind) = OfKind(SubSeq(list, 1, a), kind)
<1> DEFINE same(n) == OfKind(SubSeq(list, 1, n), kind) = OfKind(SubSeq(list, 1, a), kind)
           N == {n \in Nat : a + n <= b => same(a + n)}
<1>0. Len(list) \in Nat
  BY LenProperties
<1>1. 0 \in N
  OBVIOUS
<1>2. ASSUME NEW n \in Nat, n \in N
      PROVE  n + 1 \in N
  <2> SUFFICES ASSUME a + (n + 1) <= b PROVE same(a + (n + 1))
    OBVIOUS
  <2>1. same(a + n) /\ list[a + n + 1].kind # kind /\ a + n \in Nat /\ a + n < Len(list)
    BY <1>0, <1>2
  <2>2. OfKind(SubSeq(list, 1, (a + n) + 1), kind) = OfKind(SubSeq(list, 1, a + n), kind)
    BY <2>1, PrefixStep
  <2>3. a + (n + 1) = (a + n) + 1
    OBVIOUS
  <2> QED  BY <2>1, <2>2, <2>3
<1> HIDE DEF N
<1>3. b - a \in N
  BY <1>1, <1>2, SetInduction
<1>4. a + (b - a) = b
  OBVIOUS
<1> HIDE DEF same
<1>5. same(b)
  BY <1>3, <1>4 DEF N
<1> QED  BY <1>5 DEF same

-----------------------------------------------------------------------------
(* Positions.                                                              *)

(* The least and the greatest number of a set, as Min and Max choose them. *)
LEMMA LeastOf ==
    ASSUME NEW S, S \subseteq Nat, S # {}
    PROVE  Min(S) \in S /\ \A n \in S : Min(S) <= n
<1> DEFINE R == OpToRel(<, Nat)
<1>1. IsWellFoundedOn(R, Nat)
  BY NatLessThanWellFounded
<1>2. \A m, n \in Nat : m < n => <<m, n>> \in R
  BY DEF OpToRel
<1> HIDE DEF R
<1>3. PICK n \in S : \A m \in S : <<m, n>> \notin R
  BY <1>1, WFMin
<1>4. \A m \in S : n <= m
  <2> TAKE m \in S
  <2>1. m \in Nat /\ n \in Nat /\ <<m, n>> \notin R
    BY <1>3
  <2>2. ~(m < n)
    BY <1>2, <2>1
  <2> QED  BY <2>1, <2>2
<1> QED  BY <1>3, <1>4 DEF Min

(* The greatest one, of a bounded set. *)
LEMMA GreatestOf ==
    ASSUME NEW S, NEW n \in Nat, S \subseteq 0 .. n, S # {}
    PROVE  Max(S) \in S
<1> DEFINE T == {n - m : m \in S}
<1>1. T \subseteq Nat /\ T # {}
  <2>1. \A m \in S : m \in 0 .. n /\ n - m \in Nat
    OBVIOUS
  <2> QED  BY <2>1
<1>2. Min(T) \in T /\ \A k \in T : Min(T) <= k
  BY <1>1, LeastOf
<1>3. PICK m \in S : Min(T) = n - m
  BY <1>2
<1>4. \A k \in S : k <= m
  <2> TAKE k \in S
  <2>1. n - m <= n - k
    BY <1>2, <1>3
  <2> QED  BY <2>1
<1> QED  BY <1>4 DEF Max

(* get_next_record() skips notes only. *)
LEMMA NextQsoIs ==
    ASSUME NEW line \in Nat, Len(log) \in Nat
    PROVE  /\ NextQso(line) # 0 =>
                  /\ NextQso(line) \in line + 1 .. Len(log)
                  /\ log[NextQso(line)].kind = "qso"
                  /\ \A i \in line + 1 .. NextQso(line) - 1 : log[i].kind # "qso"
           /\ NextQso(line) = 0 => \A i \in line + 1 .. Len(log) : log[i].kind # "qso"
<1> DEFINE I == {i \in line + 1 .. Len(log) : IsQso(log[i])}
<1>1. NextQso(line) = IF I # {} THEN Min(I) ELSE 0
  BY DEF NextQso, SelectInSubSeq
<1>2. I \subseteq Nat /\ 0 \notin I
  OBVIOUS
<1>3. CASE I = {}
  BY <1>1, <1>3 DEF IsQso
<1>4. CASE I # {}
  <2>1. NextQso(line) \in I /\ \A i \in I : NextQso(line) <= i
    BY <1>1, <1>2, <1>4, LeastOf
  <2> QED  BY <1>2, <2>1 DEF IsQso
<1> QED  BY <1>3, <1>4

-----------------------------------------------------------------------------
(* Types.                                                                  *)

(* The types hold at the start, ... *)
LEMMA InitTypeInv == Init => TypeInv
<1> SUFFICES ASSUME Init PROVE TypeInv
  OBVIOUS
<1>1. AtStart \in Readers /\ HeadsInLogs(AtStart)
  BY DEF AtStart, Readers, HeadsInLogs, None
<1>2. NoLogs \in Imports
  BY DEF NoLogs, Imports
<1>3. qtcs \in [Directions -> Seq(Qtcs)] /\ \A d \in Directions : DOMAIN qtcs[d] = {}
  BY DEF Init
<1>4. /\ setup \in Setups /\ clock \in Nat /\ log \in Seq(Entries) /\ out \in Seq(Line)
      /\ phase = "contest" /\ reader = AtStart /\ imported = NoLogs
  BY DEF Init
<1> QED  BY <1>1, <1>2, <1>3, <1>4 DEF TypeInv

(* ... for a reader that has fetched a record, ... *)
LEMMA FetchType ==
    ASSUME NEW r \in Readers, HeadsInLogs(r), NEW d \in Directions,
           qtcs \in [Directions -> Seq(Qtcs)]
    PROVE  Fetch(r, d) \in Readers /\ HeadsInLogs(Fetch(r, d))
<1> DEFINE next == r.read[d] + 1
<1>1. CASE r.head[d] # None \/ next > Len(qtcs[d])
  BY <1>1 DEF Fetch
<1>2. CASE r.head[d] = None /\ next <= Len(qtcs[d])
  <2>1. qtcs[d] \in Seq(Qtcs) /\ next \in Nat /\ next \in 1 .. Len(qtcs[d])
    BY <1>2, LenProperties DEF Readers
  <2>2. qtcs[d][next].nr \in Nat /\ next \in DOMAIN qtcs[d]
    <3>1. qtcs[d][next] \in Qtcs
      BY <2>1, ElementOfSeq
    <3> QED  BY <2>1, <3>1, LenProperties DEF Qtcs
  <2>3. Len(qtcs[d]) \in Nat
    BY <2>1, LenProperties
  <2>4. ~(r.head[d] # None \/ next > Len(qtcs[d]))
    BY <1>2, <2>1, <2>3
  <2> DEFINE q == qtcs[d][next].nr
  <2>5. Fetch(r, d) = [r EXCEPT !.head[d] = next, !.read[d] = next, !.nr[d] = q]
    BY <2>4 DEF Fetch
  <2> HIDE DEF next, q
  <2>6. Fetch(r, d) \in Readers
    <3>1. /\ [r.head EXCEPT ![d] = next] \in [Directions -> Nat]
          /\ [r.read EXCEPT ![d] = next] \in [Directions -> Nat]
          /\ [r.nr EXCEPT ![d] = q] \in [Directions -> Nat]
      BY <2>1, <2>2 DEF Readers, q
    <3>2. Fetch(r, d) = [r EXCEPT !.head = [r.head EXCEPT ![d] = next],
                                  !.read = [r.read EXCEPT ![d] = next],
                                  !.nr = [r.nr EXCEPT ![d] = q]]
      BY <2>5
    <3> QED  BY <3>1, <3>2 DEF Readers
  <2>7. \A e \in Directions : Fetch(r, d).head[e] = IF e = d THEN next ELSE r.head[e]
    BY <2>5 DEF Readers
  <2>8. \A e \in Directions : e # d => Fetch(r, d).nr[e] = r.nr[e]
    BY <2>5 DEF Readers
  <2>9. next # None
    BY <2>1 DEF None
  <2> QED  BY <2>2, <2>6, <2>7, <2>8, <2>9 DEF HeadsInLogs
<1>3. Len(qtcs[d]) \in Nat /\ next \in Nat
  BY LenProperties DEF Readers
<1> QED  BY <1>1, <1>2, <1>3

(* ... for a line as it is written, ... *)
LEMMA PrepareType ==
    ASSUME NEW l \in Line, l.kind # "error"
    PROVE  PrepareLine(l) \in Line /\ PrepareLine(l).kind = l.kind
<1>1. CASE l \in Contact
  BY <1>1 DEF PrepareLine, ModeRead, Line, Contact
<1>2. CASE l \in Qtcs
  BY <1>2 DEF PrepareLine, ModeRead, Line, Qtcs
<1>3. l \in Contact \/ l \in Qtcs
  BY DEF Line
<1> QED  BY <1>1, <1>2, <1>3

(* ... and after every step. *)
LEMMA NextTypeInv == TypeInv /\ [Next]_vars => TypeInv'
<1> SUFFICES ASSUME TypeInv, [Next]_vars PROVE TypeInv'
  OBVIOUS
<1>0. /\ setup \in Setups /\ clock \in Nat /\ log \in Seq(Entries) /\ Len(log) \in Nat
      /\ qtcs \in [Directions -> Seq(Qtcs)]
      /\ reader \in Readers /\ HeadsInLogs(reader) /\ out \in Seq(Line) /\ Len(out) \in Nat
      /\ "send" \in Directions /\ "recv" \in Directions
  BY LenProperties DEF TypeInv, Directions
<1>1. CASE Tick
  BY <1>1 DEF Tick, TypeInv, HeadsInLogs
<1>2. CASE LogQso
  <2>1. PICK call \in Calls, mode \in setup.modes, wide \in setup.wide :
            log' = Append(log, [kind |-> "qso", call |-> call, time |-> clock, mode |-> mode,
                                wide |-> wide])
    BY <1>2 DEF LogQso
  <2>2. mode \in AllModes /\ wide \in UNION {x.wide : x \in Setups}
    BY <1>0 DEF AllModes
  <2>3. log' \in Seq(Entries)
    BY <1>0, <2>1, <2>2, AppendProperties DEF Entries, Contact
  <2> QED  BY <1>2, <2>3 DEF LogQso, TypeInv, HeadsInLogs
<1>3. CASE LogNote
  <2>1. log' \in Seq(Entries)
    BY <1>0, <1>3, AppendProperties DEF LogNote, Entries
  <2> QED  BY <1>3, <2>1 DEF LogNote, TypeInv, HeadsInLogs
<1>4. CASE DeleteQso
  <2>1. log' \in Seq(Entries)
    <3>1. Len(log) # 0
      BY <1>0, <1>4, EmptySeq DEF DeleteQso
    <3>2. Front(log) = SubSeq(log, 1, Len(log) - 1) /\ Len(log) - 1 \in 0 .. Len(log)
      BY <1>0, <3>1 DEF Front
    <3> QED  BY <1>0, <1>4, <3>2, FirstLines DEF DeleteQso
  <2>2. ASSUME NEW list \in Seq(Qtcs), NEW call
        PROVE  \E n \in 0 .. Len(list) : Without(list, call) = SubSeq(list, 1, n)
    <3> DEFINE others == {n \in DOMAIN list : list[n].to # call}
    <3>1. Len(list) \in Nat /\ DOMAIN list = 1 .. Len(list)
      BY LenProperties
    <3>2. others \cup {0} \subseteq 0 .. Len(list) /\ others \cup {0} # {}
      BY <3>1
    <3> HIDE DEF others
    <3>3. Max(others \cup {0}) \in 0 .. Len(list)
      BY <3>1, <3>2, GreatestOf
    <3> QED  BY <3>3 DEF Without, others
  <2>3. /\ qtcs' \in [Directions -> Seq(Qtcs)]
        /\ \A d \in Directions : \A k \in DOMAIN qtcs'[d] : qtcs'[d][k].kind = d
    <3>1. CASE UNCHANGED qtcs
      BY <3>1 DEF TypeInv
    <3>2. CASE qtcs' = [d \in Directions |-> Without(qtcs[d], Last(log).call)]
      <4>1. ASSUME NEW d \in Directions
            PROVE  /\ qtcs'[d] \in Seq(Qtcs)
                   /\ \A k \in DOMAIN qtcs'[d] : qtcs'[d][k].kind = d
        <5>1. qtcs[d] \in Seq(Qtcs) /\ Len(qtcs[d]) \in Nat
          BY <1>0, LenProperties
        <5>2. PICK n \in 0 .. Len(qtcs[d]) : qtcs'[d] = SubSeq(qtcs[d], 1, n)
          BY <2>2, <3>2, <5>1
        <5>3. \A k \in 1 .. Len(qtcs[d]) : qtcs[d][k].kind = d
          BY <5>1, LenProperties DEF TypeInv
        <5> DEFINE list == qtcs[d]
        <5>4. list \in Seq(Qtcs) /\ qtcs'[d] = SubSeq(list, 1, n) /\ n \in 0 .. Len(list)
          BY <5>1, <5>2
        <5> HIDE DEF list
        <5>5. /\ SubSeq(list, 1, n) \in Seq(Qtcs) /\ DOMAIN SubSeq(list, 1, n) = 1 .. n
              /\ \A k \in 1 .. n : SubSeq(list, 1, n)[k] = list[k]
          BY <5>4
        <5> QED  BY <5>1, <5>3, <5>4, <5>5 DEF list
      <4> QED  BY <3>2, <4>1
    <3> QED  BY <1>4, <3>1, <3>2 DEF DeleteQso
  <2>4. phase = "contest" /\ reader' = AtStart /\ \A d \in Directions : AtStart.head[d] = None
    BY <1>4 DEF DeleteQso, TypeInv, AtStart
  <2> QED  BY <1>4, <2>1, <2>3, <2>4 DEF DeleteQso, TypeInv, HeadsInLogs
<1>5. CASE \E d \in Directions : LogQtc(d)
  <2>1. PICK d \in Directions : LogQtc(d)
    BY <1>5
  <2>2. PICK mode \in setup.modes, wide \in setup.wide, to \in Calls,
             p \in (IF d = "recv" THEN {None} ELSE DOMAIN log) :
           /\ d = "send" => IsQso(log[p])
           /\ qtcs' = [qtcs EXCEPT ![d] = Append(@,
                          [kind |-> d, nr |-> Len(log), time |-> clock, mode |-> mode,
                           wide |-> wide, to |-> to, pos |-> p,
                           of |-> IF d = "send" THEN <<log[p].call, log[p].time>> ELSE <<>>])]
    BY <2>1 DEF LogQtc
  <2>3. p \in Nat /\ mode \in AllModes /\ wide \in UNION {x.wide : x \in Setups}
    BY <1>0, <2>2, LenProperties DEF None, AllModes
  <2>4. (IF d = "send" THEN <<log[p].call, log[p].time>> ELSE <<>>) \in (Calls \X Nat) \cup {<<>>}
    <3>1. CASE d = "send"
      <4>1. log[p] \in Entries
        BY <1>0, <2>2, <3>1, LenProperties, ElementOfSeq
      <4>2. log[p] \in Contact
        BY <2>2, <3>1, <4>1 DEF Entries, Note, IsQso
      <4> QED  BY <3>1, <4>2 DEF Contact
    <3> QED  BY <3>1
  <2> DEFINE q == [kind |-> d, nr |-> Len(log), time |-> clock, mode |-> mode, wide |-> wide,
                   to |-> to, pos |-> p,
                   of |-> IF d = "send" THEN <<log[p].call, log[p].time>> ELSE <<>>]
  <2>5. q \in Qtcs /\ q.kind = d
    BY <1>0, <2>3, <2>4 DEF Qtcs
  <2>6. qtcs' = [qtcs EXCEPT ![d] = Append(qtcs[d], q)]
    BY <2>2
  <2> HIDE DEF q
  <2>7. /\ Append(qtcs[d], q) \in Seq(Qtcs)
        /\ DOMAIN qtcs[d] \subseteq DOMAIN Append(qtcs[d], q)
        /\ \A k \in DOMAIN Append(qtcs[d], q) : Append(qtcs[d], q)[k].kind = d
    <3> DEFINE list == qtcs[d]
    <3>1. list \in Seq(Qtcs) /\ \A k \in DOMAIN list : list[k].kind = d
      BY <1>0 DEF TypeInv
    <3> HIDE DEF list
    <3>2. /\ Append(list, q) \in Seq(Qtcs) /\ DOMAIN list \subseteq DOMAIN Append(list, q)
          /\ \A k \in DOMAIN Append(list, q) : Append(list, q)[k].kind = d
      BY <2>5, <3>1, AppendProperties, LenProperties
    <3> QED  BY <3>2 DEF list
  <2>8. /\ qtcs' \in [Directions -> Seq(Qtcs)]
        /\ \A e \in Directions : /\ DOMAIN qtcs[e] \subseteq DOMAIN qtcs'[e]
                                 /\ \A k \in DOMAIN qtcs'[e] : qtcs'[e][k].kind = e
    BY <1>0, <2>6, <2>7 DEF TypeInv
  <2> QED  BY <2>1, <2>8 DEF LogQtc, TypeInv, HeadsInLogs
<1>6. CASE WriteCabrillo
  <2>1. AtStart \in Readers /\ HeadsInLogs(AtStart) /\ <<>> \in Seq(Line)
    BY DEF AtStart, Readers, HeadsInLogs, None
  <2> QED  BY <1>6, <2>1 DEF WriteCabrillo, TypeInv, HeadsInLogs
<1>7. CASE ExportQso
  <2> DEFINE line == NextQso(reader.line)
             r == [reader EXCEPT !.line = line, !.qsonr = @ + 1]
  <2>1. reader.line \in Nat /\ line # 0
    BY <1>0, <1>7 DEF ExportQso, Readers
  <2>2. line \in 1 .. Len(log) /\ log[line].kind = "qso"
    BY <1>0, <2>1, NextQsoIs
  <2>3. log[line] \in Line /\ log[line].kind # "error"
    <3>1. log[line] \in Entries
      BY <1>0, <2>2, ElementOfSeq
    <3> QED  BY <2>2, <3>1 DEF Entries, Note, Line
  <2> DEFINE e == PrepareLine(log[line])
  <2>4. e \in Line
    BY <2>3, PrepareType
  <2>5. r \in Readers /\ r.head = reader.head /\ r.nr = reader.nr
    <3>1. line \in Nat
      BY <2>2
    <3> HIDE DEF line
    <3>2. reader.qsonr + 1 \in Nat
      BY <1>0 DEF Readers
    <3>3. r \in Readers
      BY <1>0, <3>1, <3>2 DEF Readers
    <3>4. r.head = reader.head /\ r.nr = reader.nr
      BY <1>0 DEF Readers
    <3> QED  BY <3>3, <3>4
  <2>6. HeadsInLogs(r)
    BY <1>0, <2>5 DEF HeadsInLogs
  <2>7. /\ \/ out' = Append(out, [kind |-> "error"]) /\ reader' = [r EXCEPT !.ok = FALSE]
           \/ out' = Append(out, e) /\ reader' = Fetch(Fetch(r, "recv"), "send")
        /\ phase = "export" /\ UNCHANGED <<setup, clock, log, qtcs, phase, imported>>
    BY <1>7 DEF ExportQso, Processed
  <2> HIDE DEF line, r, e
  <2>8. reader' \in Readers /\ HeadsInLogs(reader')
    <3>1. CASE reader' = [r EXCEPT !.ok = FALSE]
      BY <2>5, <2>6, <3>1 DEF Readers, HeadsInLogs
    <3>2. CASE reader' = Fetch(Fetch(r, "recv"), "send")
      BY <1>0, <2>5, <2>6, <3>2, FetchType
    <3> QED  BY <2>7, <3>1, <3>2
  <2>9. out' \in Seq(Line)
    <3>1. [kind |-> "error"] \in Line
      BY DEF Line
    <3>2. \A l \in Line : Append(out, l) \in Seq(Line)
      BY <1>0, AppendProperties
    <3> QED  BY <2>4, <2>7, <3>1, <3>2
  <2> QED  BY <2>7, <2>8, <2>9 DEF TypeInv, HeadsInLogs
<1>8. CASE ExportQtc
  <2> DEFINE d == Earlier(reader)
             r == [reader EXCEPT !.head[d] = None, !.nr[d] = 0]
  <2>1. d \in Directions
    BY DEF Earlier, Directions
  <2>2. /\ r \in Readers
        /\ \A e \in Directions : /\ r.head[e] = IF e = d THEN None ELSE reader.head[e]
                                 /\ r.nr[e] = IF e = d THEN 0 ELSE reader.nr[e]
    <3> HIDE DEF d
    <3> QED  BY <1>0, <2>1 DEF Readers, None
  <2>3. HeadsInLogs(r)
    BY <1>0, <2>2 DEF HeadsInLogs
  <2>4. /\ out' = Append(out, Processed(qtcs[d][reader.head[d]]))
        /\ reader' = [Fetch(r, d) EXCEPT !.ok = ~qtcs[d][reader.head[d]].wide]
        /\ phase = "export" /\ UNCHANGED <<setup, clock, log, qtcs, phase, imported>>
    BY <1>8 DEF ExportQtc
  <2>6. reader.head[d] # None
    <3>1. \E e \in Directions : reader.head[e] # None
      BY <1>0, <1>8 DEF ExportQtc, QtcFollows, HeadsInLogs, Readers
    <3> QED  BY <3>1 DEF Earlier, Directions
  <2>7. qtcs[d][reader.head[d]] \in Qtcs
    <3> HIDE DEF d
    <3>1. qtcs[d] \in Seq(Qtcs) /\ reader.head[d] \in DOMAIN qtcs[d]
      BY <1>0, <2>1, <2>6 DEF HeadsInLogs
    <3> QED  BY <3>1, ElementOfSeq, LenProperties
  <2>8. Processed(qtcs[d][reader.head[d]]) \in Line
    <3>1. \A q \in Qtcs : q \in Line /\ q.kind # "error"
      BY DEF Line, Qtcs, Directions
    <3>2. [kind |-> "error"] \in Line
      BY DEF Line
    <3> QED  BY <2>7, <3>1, <3>2, PrepareType DEF Processed
  <2> HIDE DEF r, d
  <2>5. reader' \in Readers /\ HeadsInLogs(reader')
    <3>1. Fetch(r, d) \in Readers /\ HeadsInLogs(Fetch(r, d))
      BY <1>0, <2>1, <2>2, <2>3, FetchType
    <3>2. reader'.head = Fetch(r, d).head /\ reader'.nr = Fetch(r, d).nr /\ reader' \in Readers
      BY <2>4, <3>1 DEF Readers
    <3>3. qtcs' = qtcs
      BY <2>4
    <3> QED  BY <3>1, <3>2 DEF HeadsInLogs
  <2>9. out' \in Seq(Line)
    BY <1>0, <2>4, <2>8, AppendProperties
  <2> QED  BY <2>4, <2>5, <2>9 DEF TypeInv, HeadsInLogs
<1>9. CASE EndExport \/ WriteAdif
  BY <1>9 DEF EndExport, WriteAdif, TypeInv, HeadsInLogs
<1>10. CASE ReadCabrillo
  <2>1. imported' \in Imports
    BY <1>10 DEF ReadCabrillo, NoLogs, Imports
  <2> QED  BY <1>10, <2>1 DEF ReadCabrillo, TypeInv, HeadsInLogs
<1>11. CASE ImportLine
  <2> DEFINE l == out[imported.line + 1]
             i == [imported EXCEPT !.line = @ + 1]
             p == SelectInSubSeq([q \in DOMAIN i.log |-> q], i.from, Len(i.log),
                                 LAMBDA q : Fits(i, l, q))
  <2>1. imported.line \in Nat /\ imported.line + 1 \in 1 .. Len(out)
    BY <1>0, <1>11 DEF ImportLine, TypeInv, Imports
  <2>2. l \in Line
    BY <1>0, <2>1, ElementOfSeq
  <2>3. i \in Imports
    <3>1. imported \in Imports /\ imported.line + 1 \in Nat
      BY <2>1 DEF TypeInv
    <3> QED  BY <3>1 DEF Imports
  <2>4. Len(i.log) \in Nat /\ i.from \in Nat
    BY <2>3, LenProperties DEF Imports
  <2>5. p \in Nat
    <3> DEFINE I == {k \in i.from .. Len(i.log) : Fits(i, l, [q \in DOMAIN i.log |-> q][k])}
    <3>1. p = IF I # {} THEN Min(I) ELSE 0
      BY DEF SelectInSubSeq
    <3>2. I \subseteq Nat
      BY <2>4
    <3> HIDE DEF I, p
    <3> QED  BY <3>1, <3>2, LeastOf
  <2>6. \/ imported' = ImportQso(i, l)
        \/ imported' = ImportSent(i, l)
        \/ imported' = ImportReceived(i, l)
        \/ imported' = i
    BY <1>11 DEF ImportLine
  <2>7. /\ ImportSent(i, l) = [i EXCEPT !.send = Append(@, [pos |-> p, nr |-> Len(i.log)]),
                                       !.used = IF p = 0 THEN @ ELSE @ \cup {p},
                                       !.from = IF p = i.from THEN p + 1 ELSE @]
        /\ ImportQso(i, l) = [i EXCEPT !.log = Append(@, l)]
        /\ ImportReceived(i, l) = [i EXCEPT !.recv = Append(@, [pos |-> None, nr |-> Len(i.log)])]
    BY DEF ImportSent, ImportQso, ImportReceived
  <2> HIDE DEF i, l, p
  <2>8. /\ [pos |-> p, nr |-> Len(i.log)] \in Found /\ [pos |-> None, nr |-> Len(i.log)] \in Found
        /\ i.send \in Seq(Found) /\ i.recv \in Seq(Found) /\ i.log \in Seq(Line)
    BY <2>3, <2>4, <2>5 DEF Found, Imports, None
  <2>9. /\ Append(i.send, [pos |-> p, nr |-> Len(i.log)]) \in Seq(Found)
        /\ Append(i.recv, [pos |-> None, nr |-> Len(i.log)]) \in Seq(Found)
        /\ Append(i.log, l) \in Seq(Line)
    BY <2>2, <2>8, AppendProperties
  <2>10. imported' \in Imports
    <3>1. ImportSent(i, l) \in Imports
      <4>1. /\ (IF p = 0 THEN i.used ELSE i.used \cup {p}) \in SUBSET Nat
            /\ (IF p = i.from THEN p + 1 ELSE i.from) \in Nat
        BY <2>3, <2>5 DEF Imports
      <4> QED  BY <2>3, <2>7, <2>9, <4>1 DEF Imports
    <3>2. ImportQso(i, l) \in Imports /\ ImportReceived(i, l) \in Imports
      BY <2>3, <2>7, <2>9 DEF Imports
    <3> QED  BY <2>3, <2>6, <3>1, <3>2
  <2> QED  BY <1>11, <2>10 DEF ImportLine, TypeInv, HeadsInLogs
<1>12. CASE EndImport
  BY <1>12 DEF EndImport, TypeInv, HeadsInLogs
<1>13. CASE UNCHANGED vars
  BY <1>13 DEF vars, TypeInv, HeadsInLogs
<1> QED
  BY <1>1, <1>2, <1>3, <1>4, <1>5, <1>6, <1>7, <1>8, <1>9, <1>10, <1>11, <1>12, <1>13
     DEF Next, Contest, Export, Import, Directions

-----------------------------------------------------------------------------
(* The order of contacts and QTCs.                                         *)

(* The fields of a QTC, one by one. *)
LEMMA QtcTypes ==
    ASSUME qtcs \in [Directions -> Seq(Qtcs)], NEW d \in Directions
    PROVE  /\ qtcs[d] \in Seq(Qtcs) /\ Len(qtcs[d]) \in Nat /\ DOMAIN qtcs[d] = 1 .. Len(qtcs[d])
           /\ \A k \in DOMAIN qtcs[d] :
                  /\ qtcs[d][k] \in Qtcs
                  /\ qtcs[d][k].time \in Nat /\ qtcs[d][k].nr \in Nat /\ qtcs[d][k].pos \in Nat
<1> DEFINE list == qtcs[d]
<1>1. list \in Seq(Qtcs)
  OBVIOUS
<1> HIDE DEF list
<1>2. Len(list) \in Nat /\ DOMAIN list = 1 .. Len(list)
  BY <1>1, LenProperties
<1>3. \A k \in DOMAIN list : list[k] \in Qtcs
  BY <1>1, <1>2, ElementOfSeq
<1>4. \A q \in Qtcs : q.time \in Nat /\ q.nr \in Nat /\ q.pos \in Nat
  BY DEF Qtcs
<1> QED  BY <1>1, <1>2, <1>3, <1>4 DEF list

(* The lines of a list that grows. *)
LEMMA AppendIs ==
    ASSUME NEW S, NEW list \in Seq(S), NEW e
    PROVE  /\ DOMAIN Append(list, e) = 1 .. Len(list) + 1 /\ Len(Append(list, e)) = Len(list) + 1
           /\ Append(list, e)[Len(list) + 1] = e
           /\ \A k \in 1 .. Len(list) : Append(list, e)[k] = list[k]
OBVIOUS

(* Empty logs are in order. *)
LEMMA InitOrderInv == Init => OrderInv
<1> SUFFICES ASSUME Init PROVE OrderInv
  OBVIOUS
<1>1. DOMAIN log = {} /\ \A d \in Directions : DOMAIN qtcs[d] = {}
  BY DEF Init
<1>2. "send" \in Directions
  BY DEF Directions
<1> QED  BY <1>1, <1>2 DEF OrderInv, ContactsInv, QtcInv, QuoteInv, SlowInv

(* A contact is younger than all there is, at least not older. *)
LEMMA ContactKeepsOrder ==
    ASSUME TypeInv, OrderInv, Simple, LogQso
    PROVE  ContactsInv' /\ QtcInv' /\ QuoteInv' /\ (setup.slow => SlowInv')
<1> USE DEF OrderInv
<1>1. PICK call \in Calls, mode \in setup.modes, wide \in setup.wide :
          log' = Append(log, [kind |-> "qso", call |-> call, time |-> clock, mode |-> mode,
                              wide |-> wide])
  BY DEF LogQso
<1> DEFINE c == [kind |-> "qso", call |-> call, time |-> clock, mode |-> mode, wide |-> wide]
           n == Len(log)
<1>2. c \in Contact /\ c.time = clock /\ clock \in Nat
  <2>1. mode \in AllModes /\ wide \in UNION {x.wide : x \in Setups}
    BY DEF AllModes, TypeInv
  <2> QED  BY <2>1 DEF Contact, TypeInv
<1>3. n \in Nat /\ DOMAIN log = 1 .. n
  BY LenProperties DEF TypeInv
<1>4. /\ DOMAIN log' = 1 .. n + 1 /\ log'[n + 1] = c
      /\ \A m \in 1 .. n : log'[m] = log[m]
  BY <1>1, <1>3, AppendProperties, LenProperties DEF TypeInv
<1>5. UNCHANGED <<clock, qtcs, setup>>
  BY DEF LogQso
<1> HIDE DEF c, n
<1>6. \A m \in 1 .. n : /\ log[m] \in Contact /\ log[m].time <= clock /\ log[m].time \in Nat
                        /\ \A l \in 1 .. m : log[l].time <= log[m].time
  BY <1>3 DEF ContactsInv, Contact
<1>7. ContactsInv'
  <2> SUFFICES ASSUME NEW m \in 1 .. n + 1
               PROVE  /\ log'[m] \in Contact /\ log'[m].time <= clock
                      /\ \A l \in 1 .. m : log'[l].time <= log'[m].time
    BY <1>3, <1>4, <1>5 DEF ContactsInv
  <2>1. CASE m \in 1 .. n
    BY <1>3, <1>4, <1>6, <2>1
  <2>2. CASE m = n + 1
    <3>1. \A l \in 1 .. n + 1 : log'[l].time <= clock
      BY <1>2, <1>3, <1>4, <1>6
    <3> QED  BY <1>2, <1>4, <2>2, <3>1
  <2> QED  BY <1>3, <2>1, <2>2
<1>8. QtcInv'
  <2> SUFFICES ASSUME NEW d \in Directions, NEW k \in DOMAIN qtcs[d]
               PROVE  LET q == qtcs[d][k] IN
                      /\ q.nr \in 1 .. n + 1 /\ q.time <= clock
                      /\ \A j \in 1 .. k : qtcs[d][j].nr <= q.nr /\ qtcs[d][j].time <= q.time
                      /\ \A m \in 1 .. n + 1 : IF m <= q.nr THEN log'[m].time <= q.time
                                                            ELSE q.time <= log'[m].time
    BY <1>4, <1>5 DEF QtcInv
  <2> DEFINE q == qtcs[d][k]
  <2>1. /\ q.nr \in 1 .. n /\ q.time <= clock
        /\ \A j \in 1 .. k : qtcs[d][j].nr <= q.nr /\ qtcs[d][j].time <= q.time
        /\ \A m \in 1 .. n : IF m <= q.nr THEN log[m].time <= q.time
                                          ELSE q.time <= log[m].time
    BY <1>3 DEF QtcInv
  <2> HIDE DEF q
  <2>2. \A m \in 1 .. n + 1 : IF m <= q.nr THEN log'[m].time <= q.time
                                           ELSE q.time <= log'[m].time
    <3> TAKE m \in 1 .. n + 1
    <3>1. CASE m \in 1 .. n
      BY <1>4, <2>1, <3>1
    <3>2. CASE m = n + 1
      <4>1. ~(m <= q.nr)
        BY <1>3, <2>1, <3>2
      <4> QED  BY <1>2, <1>4, <2>1, <3>2, <4>1
    <3> QED  BY <1>3, <3>1, <3>2
  <2>3. q.nr \in 1 .. n + 1
    BY <1>3, <2>1
  <2> QED  BY <2>1, <2>2, <2>3 DEF q
<1>9. QuoteInv'
  <2> SUFFICES ASSUME NEW k \in DOMAIN qtcs["send"]
               PROVE  LET q == qtcs["send"][k] IN
                      /\ q.pos \in 1 .. q.nr /\ q.of = <<log'[q.pos].call, log'[q.pos].time>>
                      /\ \A j \in DOMAIN qtcs["send"] : qtcs["send"][j].pos = q.pos => j = k
    BY <1>5 DEF QuoteInv
  <2>1. qtcs["send"][k].nr \in 1 .. n
    BY <1>3 DEF QtcInv, Directions
  <2>2. qtcs["send"][k].pos \in 1 .. n
    BY <1>3, <2>1 DEF QuoteInv
  <2> QED  BY <1>4, <2>2 DEF QuoteInv
<1>10. ASSUME setup.slow PROVE SlowInv'
  <2>1. \A l \in Dated : l.time < clock
    BY <1>10 DEF LogQso
  <2>2. \A m \in 1 .. n : log[m].time < clock
    <3> TAKE m \in 1 .. n
    <3>1. log[m] \in Contacts
      BY <1>3, <1>6 DEF Contacts, ToSet, IsQso, Contact
    <3> QED  BY <2>1, <3>1 DEF Dated
  <2>3. \A d \in Directions : \A k \in DOMAIN qtcs[d] : qtcs[d][k].time < clock
    BY <2>1 DEF Dated, ToSet, Directions
  <2>4. SlowInv
    BY <1>10
  <2>5. \A l, m \in 1 .. n + 1 : l < m => log'[l].time < log'[m].time
    <3> TAKE l, m \in 1 .. n + 1
    <3>1. CASE m \in 1 .. n /\ l < m
      BY <1>3, <1>4, <2>4, <3>1 DEF SlowInv
    <3>2. CASE m = n + 1 /\ l < m
      BY <1>2, <1>3, <1>4, <2>2, <3>2
    <3> QED  BY <1>3, <3>1, <3>2
  <2>6. \A d \in Directions : \A k \in DOMAIN qtcs[d] : qtcs[d][k].time \in Nat
    BY QtcTypes DEF TypeInv
  <2>7. \A d \in Directions : \A k \in DOMAIN qtcs[d] : \A m \in 1 .. n + 1 :
            log'[m].time # qtcs[d][k].time
    <3> TAKE d \in Directions
    <3> TAKE k \in DOMAIN qtcs[d]
    <3> TAKE m \in 1 .. n + 1
    <3>1. CASE m \in 1 .. n
      BY <1>3, <1>4, <2>4, <3>1 DEF SlowInv
    <3>2. CASE m = n + 1
      BY <1>2, <1>4, <2>3, <2>6, <3>2
    <3> QED  BY <1>3, <3>1, <3>2
  <2> QED  BY <1>4, <1>5, <2>5, <2>7 DEF SlowInv
<1> QED  BY <1>7, <1>8, <1>9, <1>10

(* A QTC is younger than all there is, and has the number of the last contact. *)
LEMMA QtcKeepsOrder ==
    ASSUME TypeInv, OrderInv, Simple, NEW d \in Directions, LogQtc(d)
    PROVE  ContactsInv' /\ QtcInv' /\ QuoteInv' /\ (setup.slow => SlowInv')
<1> USE DEF OrderInv
<1>1. PICK mode \in setup.modes, wide \in setup.wide, to \in Calls,
           p \in (IF d = "recv" THEN {None} ELSE DOMAIN log) :
        /\ d = "send" => IsQso(log[p]) /\ log[p].call # to /\ \A l \in ToSet(qtcs[d]) : l.pos # p
        /\ d = "recv" => log # <<>> \/ setup.early
        /\ setup.slow => \A l \in Contacts : l.time < clock
        /\ qtcs' = [qtcs EXCEPT ![d] = Append(@,
                       [kind |-> d, nr |-> Len(log), time |-> clock, mode |-> mode,
                        wide |-> wide, to |-> to, pos |-> p,
                        of |-> IF d = "send" THEN <<log[p].call, log[p].time>> ELSE <<>>])]
  BY DEF LogQtc
<1> DEFINE q == [kind |-> d, nr |-> Len(log), time |-> clock, mode |-> mode, wide |-> wide,
                 to |-> to, pos |-> p,
                 of |-> IF d = "send" THEN <<log[p].call, log[p].time>> ELSE <<>>]
           n == Len(log)
           l == Len(qtcs[d])
<1>2. /\ n \in Nat /\ DOMAIN log = 1 .. n /\ clock \in Nat
      /\ qtcs \in [Directions -> Seq(Qtcs)] /\ qtcs[d] \in Seq(Qtcs)
      /\ l \in Nat /\ DOMAIN qtcs[d] = 1 .. l
  BY LenProperties DEF TypeInv
<1>3. n # 0
  <2>1. d = "send" => n # 0
    BY <1>1, <1>2
  <2>2. d = "recv" => n # 0
    BY <1>1, <1>2 DEF Simple
  <2> QED  BY <2>1, <2>2 DEF Directions
<1>4. /\ q.nr = n /\ q.time = clock /\ q.pos = p
      /\ d = "send" => q.of = <<log[p].call, log[p].time>>
  OBVIOUS
<1>5. qtcs' = [qtcs EXCEPT ![d] = Append(qtcs[d], q)]
  BY <1>1
<1> HIDE DEF q, n
<1>6. /\ \A e \in Directions : e # d => qtcs'[e] = qtcs[e]
      /\ DOMAIN qtcs'[d] = 1 .. l + 1 /\ qtcs'[d][l + 1] = q
      /\ \A k \in 1 .. l : qtcs'[d][k] = qtcs[d][k]
  <2> DEFINE list == qtcs[d]
  <2>2. qtcs'[d] = Append(list, q) /\ \A e \in Directions : e # d => qtcs'[e] = qtcs[e]
    BY <1>2, <1>5
  <2>1. list \in Seq(Qtcs) /\ l = Len(list)
    BY <1>2
  <2> HIDE DEF list, l
  <2>3. /\ DOMAIN Append(list, q) = 1 .. l + 1 /\ Append(list, q)[l + 1] = q
        /\ \A k \in 1 .. l : Append(list, q)[k] = list[k]
    BY <1>2, <2>1, AppendIs
  <2> QED  BY <2>2, <2>3 DEF list
<1> HIDE DEF l
<1>7. UNCHANGED <<clock, log, setup>>
  BY DEF LogQtc
<1>8. \A e \in Directions : \A k \in DOMAIN qtcs[e] : qtcs[e][k].time \in Nat /\ qtcs[e][k].nr \in Nat
  BY <1>2, QtcTypes
<1>9. \A m \in 1 .. n : log[m] \in Contact /\ log[m].time <= clock
  BY <1>2 DEF ContactsInv
<1>10. ContactsInv'
  BY <1>7 DEF ContactsInv
<1>11. QtcInv'
  <2> SUFFICES ASSUME NEW e \in Directions, NEW k \in DOMAIN qtcs'[e]
               PROVE  LET o == qtcs'[e][k] IN
                      /\ o.nr \in DOMAIN log /\ o.time <= clock
                      /\ \A j \in 1 .. k : qtcs'[e][j].nr <= o.nr /\ qtcs'[e][j].time <= o.time
                      /\ \A m \in DOMAIN log : IF m <= o.nr THEN log[m].time <= o.time
                                                            ELSE o.time <= log[m].time
    BY <1>7 DEF QtcInv
  <2>1. CASE e # d
    BY <1>6, <2>1 DEF QtcInv
  <2>2. CASE e = d /\ k \in 1 .. l
    <3>1. qtcs'[e][k] = qtcs[d][k] /\ \A j \in 1 .. k : qtcs'[e][j] = qtcs[d][j]
      BY <1>2, <1>6, <2>2
    <3> QED  BY <1>2, <2>2, <3>1 DEF QtcInv
  <2>3. CASE e = d /\ k = l + 1
    <3>1. qtcs'[e][k] = q
      BY <1>6, <2>3
    <3>2. \A j \in 1 .. l : qtcs[d][j].nr \in 1 .. n /\ qtcs[d][j].time <= clock
      BY <1>2 DEF QtcInv
    <3>3. \A j \in 1 .. l + 1 : qtcs'[e][j].nr <= n /\ qtcs'[e][j].time <= clock
      <4> TAKE j \in 1 .. l + 1
      <4>1. CASE j \in 1 .. l
        BY <1>2, <1>6, <2>3, <3>2, <4>1
      <4>2. CASE j = l + 1
        BY <1>2, <1>4, <2>3, <3>1, <4>2
      <4>3. j \in 1 .. l \/ j = l + 1
        BY <1>2
      <4> QED  BY <4>1, <4>2, <4>3
    <3>4. \A m \in 1 .. n : m <= n
      BY <1>2
    <3>5. n \in 1 .. n
      BY <1>2, <1>3
    <3> QED  BY <1>2, <1>4, <1>9, <2>3, <3>1, <3>3, <3>4, <3>5
  <2> QED  BY <1>2, <1>6, <2>1, <2>2, <2>3
<1>12. QuoteInv'
  <2>1. CASE d # "send"
    <3>1. qtcs'["send"] = qtcs["send"]
      BY <1>6, <2>1 DEF Directions
    <3> QED  BY <1>7, <3>1 DEF QuoteInv
  <2>2. CASE d = "send"
    <3>1. p \in 1 .. n /\ \A k \in 1 .. l : qtcs["send"][k].pos # p
      BY <1>1, <1>2, <2>2 DEF ToSet
    <3>2. \A k \in 1 .. l :
              LET o == qtcs["send"][k] IN
              /\ o.pos \in 1 .. o.nr /\ o.of = <<log[o.pos].call, log[o.pos].time>>
              /\ \A j \in 1 .. l : qtcs["send"][j].pos = o.pos => j = k
      BY <1>2, <2>2 DEF QuoteInv
    <3>3. ASSUME NEW k \in 1 .. l + 1
          PROVE  LET o == qtcs'["send"][k] IN
                 /\ o.pos \in 1 .. o.nr /\ o.of = <<log[o.pos].call, log[o.pos].time>>
                 /\ \A j \in 1 .. l + 1 : qtcs'["send"][j].pos = o.pos => j = k
      <4>1. CASE k \in 1 .. l
        <5>1. qtcs'["send"][k] = qtcs["send"][k]
          BY <1>6, <2>2, <4>1
        <5>2. \A j \in 1 .. l + 1 : qtcs'["send"][j].pos = qtcs["send"][k].pos => j = k
          <6> TAKE j \in 1 .. l + 1
          <6>1. j \in 1 .. l \/ j = l + 1
            BY <1>2
          <6> QED  BY <1>4, <1>6, <2>2, <3>1, <3>2, <4>1, <6>1
        <5> QED  BY <3>2, <4>1, <5>1, <5>2
      <4>2. CASE k = l + 1
        <5>1. qtcs'["send"][k] = q
          BY <1>6, <2>2, <4>2
        <5>2. \A j \in 1 .. l + 1 : qtcs'["send"][j].pos = p => j = k
          <6> TAKE j \in 1 .. l + 1
          <6>1. j \in 1 .. l \/ j = l + 1
            BY <1>2
          <6> QED  BY <1>6, <2>2, <3>1, <4>2, <6>1
        <5> QED  BY <1>4, <2>2, <3>1, <5>1, <5>2
      <4> QED  BY <1>2, <4>1, <4>2
    <3>4. DOMAIN qtcs'["send"] = 1 .. l + 1
      BY <1>6, <2>2
    <3> QED  BY <1>7, <3>3, <3>4 DEF QuoteInv
  <2> QED  BY <2>1, <2>2
<1>13. ASSUME setup.slow PROVE SlowInv'
  <2>1. \A m \in 1 .. n : log[m].time < clock
    <3> TAKE m \in 1 .. n
    <3>1. log[m] \in Contacts
      BY <1>2, <1>9 DEF Contacts, ToSet, IsQso, Contact
    <3> QED  BY <1>1, <1>13, <3>1
  <2>2. SlowInv
    BY <1>13
  <2>3. \A e \in Directions : \A k \in DOMAIN qtcs'[e] : \A m \in DOMAIN log :
            log[m].time # qtcs'[e][k].time
    <3> TAKE e \in Directions
    <3> TAKE k \in DOMAIN qtcs'[e]
    <3> TAKE m \in DOMAIN log
    <3>1. CASE e # d
      BY <1>6, <2>2, <3>1 DEF SlowInv
    <3>2. CASE e = d /\ k \in 1 .. l
      BY <1>2, <1>6, <2>2, <3>2 DEF SlowInv
    <3>3. CASE e = d /\ k = l + 1
      <4>1. qtcs'[e][k].time = clock /\ log[m].time < clock /\ log[m].time \in Nat
        BY <1>2, <1>4, <1>6, <1>9, <2>1, <3>3 DEF Contact
      <4> QED  BY <1>2, <4>1
    <3> QED  BY <1>2, <1>6, <3>1, <3>2, <3>3
  <2> QED  BY <1>7, <2>2, <2>3 DEF SlowInv
<1> QED  BY <1>10, <1>11, <1>12, <1>13

(* No other step touches the logs: there are no notes and no deletions. *)
LEMMA NextOrderInv == TypeInv /\ OrderInv /\ [Next]_vars => OrderInv'
<1> SUFFICES ASSUME TypeInv, OrderInv, [Next]_vars, Simple'
             PROVE  ContactsInv' /\ QtcInv' /\ QuoteInv' /\ (setup'.slow => SlowInv')
  BY DEF OrderInv
<1>1. setup' = setup
  BY DEF Next, Contest, Export, Import, Tick, LogQso, LogNote, DeleteQso, LogQtc, WriteCabrillo,
         ExportQso, ExportQtc, EndExport, WriteAdif, ReadCabrillo, ImportLine, EndImport, vars
<1>2. Simple
  BY <1>1 DEF Simple
<1>3. CASE LogQso
  BY <1>1, <1>2, <1>3, ContactKeepsOrder
<1>4. CASE LogQtc("send") \/ LogQtc("recv")
  BY <1>1, <1>2, <1>4, QtcKeepsOrder DEF Directions
<1>5. CASE Tick
  <2>1. UNCHANGED <<log, qtcs>> /\ clock' = clock + 1 /\ clock \in Nat
    BY <1>5 DEF Tick, TypeInv
  <2>2. \A m \in DOMAIN log : log[m] \in Contact /\ (log[m].time <= clock => log[m].time <= clock + 1)
    BY <1>2, <2>1 DEF OrderInv, ContactsInv, Contact
  <2>3. \A d \in Directions : \A k \in DOMAIN qtcs[d] :
            qtcs[d][k].time <= clock => qtcs[d][k].time <= clock + 1
    <3> TAKE d \in Directions
    <3>2. \A k \in DOMAIN qtcs[d] : qtcs[d][k].time \in Nat
      BY QtcTypes DEF TypeInv
    <3> QED  BY <2>1, <3>2
  <2>4. ContactsInv'
    BY <1>2, <2>1, <2>2 DEF OrderInv, ContactsInv
  <2>5. QtcInv'
    BY <1>2, <2>1, <2>3 DEF OrderInv, QtcInv
  <2> QED  BY <1>1, <1>2, <2>1, <2>4, <2>5 DEF OrderInv, QuoteInv, SlowInv
<1>6. CASE UNCHANGED <<clock, log, qtcs>>
  BY <1>1, <1>2, <1>6 DEF OrderInv, ContactsInv, QtcInv, QuoteInv, SlowInv
<1>7. ~LogNote /\ ~DeleteQso
  BY <1>2 DEF Simple, LogNote, DeleteQso
<1>8. WriteCabrillo \/ Export \/ Import => UNCHANGED <<clock, log, qtcs>>
  BY DEF Export, Import, WriteCabrillo, ExportQso, ExportQtc, EndExport, WriteAdif, ReadCabrillo,
         ImportLine, EndImport
<1> QED  BY <1>3, <1>4, <1>5, <1>6, <1>7, <1>8 DEF Next, Contest, vars

-----------------------------------------------------------------------------
(* The merge, step by step.                                                *)

(* What fetching a record changes: afterwards there is one, or the log has ended. *)
LEMMA FetchIs ==
    ASSUME NEW r \in Readers, NEW d \in Directions, qtcs \in [Directions -> Seq(Qtcs)], AtHand(r, d)
    PROVE  LET f == Fetch(r, d) IN
           /\ f.line = r.line /\ f.qsonr = r.qsonr /\ f.ok = r.ok
           /\ \A e \in Directions \ {d} :
                  f.head[e] = r.head[e] /\ f.read[e] = r.read[e] /\ f.nr[e] = r.nr[e]
           /\ AtHand(f, d)
           /\ r.head[d] # None => f.head[d] = r.head[d] /\ f.read[d] = r.read[d]
           /\ r.head[d] = None /\ r.read[d] = Len(qtcs[d]) => f.head[d] = None /\ f.read[d] = r.read[d]
           /\ r.head[d] = None /\ r.read[d] # Len(qtcs[d]) => f.head[d] = r.read[d] + 1
           /\ f.head[d] = None => f.read[d] = Len(qtcs[d])
<1> DEFINE next == r.read[d] + 1
           l == Len(qtcs[d])
<1>1. l \in Nat /\ r.read[d] \in Nat /\ r.read[d] <= l /\ next \in Nat
  BY QtcTypes DEF AtHand, Readers
<1>2. CASE r.head[d] # None
  BY <1>2 DEF Fetch
<1>3. CASE r.head[d] = None /\ r.read[d] = l
  <2>1. next > l
    BY <1>1, <1>3
  <2>2. Fetch(r, d) = r
    BY <2>1 DEF Fetch
  <2> QED  BY <1>3, <2>2
<1>4. CASE r.head[d] = None /\ r.read[d] # l
  <2>1. ~(r.head[d] # None \/ next > l) /\ next \in 1 .. l
    BY <1>1, <1>4
  <2>2. Fetch(r, d) = [r EXCEPT !.head[d] = next, !.read[d] = next, !.nr[d] = qtcs[d][next].nr]
    BY <2>1 DEF Fetch
  <2> DEFINE q == qtcs[d][next].nr
  <2> HIDE DEF next, q, l
  <2>3. /\ Fetch(r, d).line = r.line /\ Fetch(r, d).qsonr = r.qsonr /\ Fetch(r, d).ok = r.ok
        /\ \A e \in Directions :
            /\ Fetch(r, d).head[e] = IF e = d THEN next ELSE r.head[e]
            /\ Fetch(r, d).read[e] = IF e = d THEN next ELSE r.read[e]
            /\ Fetch(r, d).nr[e] = IF e = d THEN q ELSE r.nr[e]
    BY <2>2 DEF Readers, q
  <2>4. next # None /\ next \in 0 .. l
    BY <1>1, <2>1 DEF None
  <2> QED  BY <1>4, <2>3, <2>4 DEF AtHand, next, q, l
<1> QED  BY <1>2, <1>3, <1>4

(* The count of a kind when a line is appended. *)
LEMMA CountAll ==
    ASSUME NEW S, NEW list \in Seq(S), NEW e \in S, NEW kind
    PROVE  /\ Len(OfKind(list, kind)) \in Nat
           /\ Len(OfKind(Append(list, e), kind)) =
                  Len(OfKind(list, kind)) + (IF e.kind = kind THEN 1 ELSE 0)
<1> DEFINE o == OfKind(list, kind)
<1>1. o \in Seq(S) /\ OfKind(Append(list, e), kind) = IF e.kind = kind THEN Append(o, e) ELSE o
  BY OneMore, SelectionType
<1> HIDE DEF o
<1> QED  BY <1>1, LenProperties, AppendProperties DEF o

(* The contacts of a file that is written on. *)
LEMMA CountsStay ==
    ASSUME out \in Seq(Line), NEW e \in Line, out' = Append(out, e)
    PROVE  /\ \A kind : \A j \in DOMAIN out : Count(kind, j)' = Count(kind, j)
           /\ \A kind : Count(kind, Len(out))' = Len(OfKind(out', kind))
<1>1. Len(out) \in Nat /\ DOMAIN out = 1 .. Len(out)
  BY LenProperties
<1>2. \A j \in 0 .. Len(out) : SubSeq(out', 1, j) = SubSeq(out, 1, j)
  BY FirstLines
<1>3. out' \in Seq(Line) /\ Len(out') = Len(out) + 1
  BY AppendProperties
<1>4. SubSeq(out', 1, Len(out')) = out'
  BY <1>3, FirstLines
<1>5. \A kind : Count(kind, Len(out))' = Len(OfKind(out', kind))
  <2>1. \A kind : Count(kind, Len(out))' = Len(OfKind(SubSeq(out', 1, Len(out')), kind))
    BY DEF Count
  <2> QED  BY <1>4, <2>1
<1>6. ASSUME NEW kind, NEW j \in DOMAIN out
      PROVE  Count(kind, j)' = Count(kind, j)
  <2>1. j \in 0 .. Len(out)
    BY <1>1
  <2>2. SubSeq(out', 1, j) = SubSeq(out, 1, j)
    BY <1>2, <2>1
  <2>3. Count(kind, j)' = Len(OfKind(SubSeq(out', 1, j), kind))
    BY DEF Count
  <2> QED  BY <2>2, <2>3 DEF Count
<1> QED  BY <1>5, <1>6

(* The merge starts with an empty file. *)
LEMMA MergeStarts == TypeInv /\ OrderInv /\ WriteCabrillo => MergeInv'
<1> SUFFICES ASSUME TypeInv, OrderInv, WriteCabrillo PROVE MergeInv'
  OBVIOUS
<1>1. /\ out' = <<>> /\ reader' = AtStart /\ UNCHANGED <<setup, log, qtcs>>
      /\ DOMAIN out' = {} /\ DOMAIN <<>> = {}
  BY DEF WriteCabrillo
<1>2. log \in Seq(Entries) /\ Len(log) \in Nat
  BY LenProperties DEF TypeInv
<1>3. CopyInv'
  <2>1. SubSeq(log, 1, 0) = <<>>
    BY <1>2, FirstLines
  <2>2. reader'.line = 0 /\ 0 \in 0 .. Len(log)
    BY <1>1, <1>2 DEF AtStart
  <2> QED  BY <1>1, <2>1, <2>2, NoLines DEF CopyInv
<1>4. HeadsInv'
  <2>1. \A d \in Directions : Len(qtcs[d]) \in Nat
    BY QtcTypes DEF TypeInv
  <2> QED  BY <1>1, <2>1 DEF HeadsInv, AtHand, AtStart, None
<1>5. SortedInv'
  <2>1. \A kind : OfKind(<<>>, kind) = <<>>
    BY NoLines
  <2>2. Len(<<>>) = 0
    OBVIOUS
  <2> QED  BY <1>1, <2>1, <2>2 DEF SortedInv, Copied, AtStart, None
<1>6. PlaceInv'
  BY <1>1 DEF PlaceInv
<1> QED  BY <1>3, <1>4, <1>5, <1>6 DEF MergeInv

(* A contact is written. *)
LEMMA ContactIsCopied ==
    ASSUME TypeInv, CopyInv, ExportQso, reader'.ok
    PROVE  LET line == NextQso(reader.line) IN
           /\ line \in reader.line + 1 .. Len(log) /\ log[line] \in Contact
           /\ out' = Append(out, log[line]) /\ reader'.line = line
           /\ reader' = Fetch(Fetch([reader EXCEPT !.line = line, !.qsonr = @ + 1], "recv"), "send")
           /\ OfKind(out', "qso") = OfKind(SubSeq(log, 1, line), "qso")
           /\ \A d \in Directions : OfKind(out', d) = OfKind(out, d)
<1> DEFINE line == NextQso(reader.line)
           r == [reader EXCEPT !.line = line, !.qsonr = @ + 1]
<1>1. /\ log \in Seq(Entries) /\ Len(log) \in Nat /\ reader \in Readers /\ reader.line \in Nat
      /\ qtcs \in [Directions -> Seq(Qtcs)] /\ HeadsInLogs(reader) /\ out \in Seq(Line)
  BY LenProperties DEF TypeInv, Readers
<1>2. line # 0
  BY DEF ExportQso
<1>3. /\ line \in reader.line + 1 .. Len(log) /\ log[line].kind = "qso"
      /\ \A i \in reader.line + 1 .. line - 1 : log[i].kind # "qso"
  BY <1>1, <1>2, NextQsoIs
<1>4. log[line] \in Contact
  <2>1. line \in 1 .. Len(log)
    BY <1>1, <1>3
  <2>2. log[line] \in Entries
    BY <1>1, <2>1, ElementOfSeq
  <2> QED  BY <1>3, <2>2 DEF Entries, Note
<1>5. \/ out' = Append(out, [kind |-> "error"]) /\ reader' = [r EXCEPT !.ok = FALSE]
      \/ out' = Append(out, PrepareLine(log[line])) /\ reader' = Fetch(Fetch(r, "recv"), "send")
  BY DEF ExportQso, Processed
<1>6. PrepareLine(log[line]) = log[line]
  BY <1>4 DEF PrepareLine, ModeRead, Contact
<1>7. out' = Append(out, log[line]) /\ reader' = Fetch(Fetch(r, "recv"), "send")
  <2>1. [r EXCEPT !.ok = FALSE].ok = FALSE
    BY <1>1 DEF Readers
  <2> QED  BY <1>5, <1>6, <2>1
<1>8. reader'.line = line
  <2>1. \A f \in Readers, d \in Directions :
            Fetch(f, d).line = f.line /\ (HeadsInLogs(f) => Fetch(f, d) \in Readers)
    <3> SUFFICES ASSUME NEW f \in Readers, NEW d \in Directions
                 PROVE  Fetch(f, d).line = f.line /\ (HeadsInLogs(f) => Fetch(f, d) \in Readers)
      OBVIOUS
    <3>1. Fetch(f, d).line = f.line
      BY DEF Fetch, Readers
    <3> QED  BY <1>1, <3>1, FetchType
  <2>2. line \in Nat
    BY <1>1, <1>3
  <2> HIDE DEF line
  <2>3. r \in Readers /\ r.line = line /\ r.head = reader.head /\ r.nr = reader.nr
    <3>1. reader.qsonr + 1 \in Nat
      BY <1>1 DEF Readers
    <3> QED  BY <1>1, <2>2, <3>1 DEF Readers
  <2>4. HeadsInLogs(r)
    BY <1>1, <2>3 DEF HeadsInLogs
  <2> HIDE DEF r
  <2> QED  BY <1>7, <2>1, <2>3, <2>4 DEF Directions
<1> DEFINE skipped == SubSeq(log, 1, line - 1)
<1>9. OfKind(SubSeq(log, 1, line), "qso") = Append(OfKind(skipped, "qso"), log[line])
  <2>1. line - 1 \in Nat /\ line - 1 < Len(log) /\ (line - 1) + 1 = line
    BY <1>1, <1>3
  <2> HIDE DEF line
  <2> DEFINE n == line - 1
  <2>2. n \in Nat /\ n < Len(log) /\ line = n + 1
    BY <1>3, <2>1
  <2>3. log[n + 1].kind = "qso"
    BY <1>3, <2>2
  <2> HIDE DEF n
  <2>4. OfKind(SubSeq(log, 1, n + 1), "qso") = Append(OfKind(SubSeq(log, 1, n), "qso"), log[n + 1])
    BY <1>1, <2>2, <2>3, PrefixStep
  <2> QED  BY <2>2, <2>4 DEF n
<1>10. OfKind(skipped, "qso") = OfKind(SubSeq(log, 1, reader.line), "qso")
  <2>1. line - 1 \in Nat /\ line - 1 <= Len(log) /\ reader.line <= line - 1
    BY <1>1, <1>3
  <2> HIDE DEF line
  <2> QED  BY <1>1, <1>3, <2>1, OthersSkipped
<1>11. /\ OfKind(out', "qso") = Append(OfKind(out, "qso"), log[line])
       /\ \A d \in Directions : OfKind(out', d) = OfKind(out, d)
  <2>1. log[line] \in Line
    BY <1>4 DEF Line
  <2>2. log[line].kind = "qso" /\ "qso" \notin Directions
    BY <1>3 DEF Directions
  <2> HIDE DEF line
  <2> QED  BY <1>1, <1>7, <2>1, <2>2, OneMore
<1>12. OfKind(out', "qso") = OfKind(SubSeq(log, 1, line), "qso")
  BY <1>9, <1>10, <1>11 DEF CopyInv
<1> QED  BY <1>3, <1>4, <1>7, <1>8, <1>11, <1>12

(* A QTC is written; contacts stay as they are. *)
LEMMA QtcIsCopied ==
    ASSUME TypeInv, ExportQtc, reader'.ok
    PROVE  LET d == Earlier(reader)
               q == qtcs[d][reader.head[d]]
               r == [reader EXCEPT !.head[d] = None, !.nr[d] = 0]
           IN  /\ d \in Directions /\ reader.head[d] # None /\ reader.head[d] \in DOMAIN qtcs[d]
               /\ q \in Qtcs /\ q.kind = d
               /\ PrepareLine(q) \in Line /\ PrepareLine(q).kind = d /\ PrepareLine(q).time = q.time
               /\ PrepareLine(q).nr = q.nr
               /\ out' = Append(out, PrepareLine(q)) /\ reader' = Fetch(r, d) /\ r \in Readers
               /\ r.line = reader.line /\ r.qsonr = reader.qsonr /\ r.ok = reader.ok
               /\ r.read = reader.read
               /\ \A e \in Directions : /\ r.head[e] = IF e = d THEN None ELSE reader.head[e]
                                        /\ r.nr[e] = IF e = d THEN 0 ELSE reader.nr[e]
               /\ reader.ok /\ reader.qsonr > 0 /\ \E e \in Directions : reader.nr[e] = reader.qsonr
<1> DEFINE d == Earlier(reader)
           q == qtcs[d][reader.head[d]]
           r == [reader EXCEPT !.head[d] = None, !.nr[d] = 0]
<1>1. /\ reader \in Readers /\ HeadsInLogs(reader) /\ qtcs \in [Directions -> Seq(Qtcs)]
      /\ \A e \in Directions : \A k \in DOMAIN qtcs[e] : qtcs[e][k].kind = e
  BY DEF TypeInv
<1>2. d \in Directions
  BY DEF Earlier, Directions
<1>3. /\ out' = Append(out, Processed(q)) /\ reader' = [Fetch(r, d) EXCEPT !.ok = ~q.wide]
      /\ reader.ok /\ reader.qsonr > 0 /\ \E e \in Directions : reader.nr[e] = reader.qsonr
  BY DEF ExportQtc, QtcFollows
<1>4. reader.head[d] # None
  <2>1. \E e \in Directions : reader.head[e] # None
    BY <1>1, <1>3 DEF HeadsInLogs, Readers
  <2> QED  BY <2>1 DEF Earlier, Directions
<1> HIDE DEF d
<1>5. reader.head[d] \in DOMAIN qtcs[d]
  BY <1>1, <1>2, <1>4 DEF HeadsInLogs
<1>6. q \in Qtcs /\ q.kind = d
  BY <1>1, <1>2, <1>5, QtcTypes
<1>7. /\ PrepareLine(q) \in Line /\ PrepareLine(q).kind = d /\ PrepareLine(q).time = q.time
      /\ PrepareLine(q).nr = q.nr
  <2> HIDE DEF q
  <2>1. q \in Line /\ q.kind # "error"
    BY <1>2, <1>6 DEF Line, Directions
  <2>2. PrepareLine(q).time = q.time /\ PrepareLine(q).nr = q.nr
    BY <1>6 DEF PrepareLine, Qtcs
  <2> QED  BY <1>6, <2>1, <2>2, PrepareType
<1>8. /\ r \in Readers
      /\ r.line = reader.line /\ r.qsonr = reader.qsonr /\ r.ok = reader.ok /\ r.read = reader.read
      /\ \A e \in Directions : /\ r.head[e] = IF e = d THEN None ELSE reader.head[e]
                               /\ r.nr[e] = IF e = d THEN 0 ELSE reader.nr[e]
  BY <1>1, <1>2 DEF Readers, None
<1>9. out' = Append(out, PrepareLine(q)) /\ reader' = Fetch(r, d)
  <2> HIDE DEF q, r
  <2>1. HeadsInLogs(r)
    BY <1>1, <1>8 DEF HeadsInLogs
  <2>2. Fetch(r, d) \in Readers
    BY <1>1, <1>2, <1>8, <2>1, FetchType
  <2>3. Fetch(r, d).ok = TRUE
    <3>1. r.ok = TRUE
      BY <1>1, <1>3, <1>8 DEF Readers
    <3> QED  BY <1>8, <3>1 DEF Fetch, Readers
  <2>4. (~q.wide) = TRUE
    BY <1>3, <2>2 DEF Readers
  <2>5. reader' = Fetch(r, d)
    BY <1>3, <2>2, <2>3, <2>4 DEF Readers
  <2> QED  BY <1>3, <2>4, <2>5 DEF Processed
<1> QED  BY <1>2, <1>3, <1>4, <1>5, <1>6, <1>7, <1>8, <1>9 DEF d

(* The order of the logs, and that all their lines are contacts. *)
LEMMA OnlyContacts ==
    ASSUME TypeInv, OrderInv, Simple
    PROVE  /\ ContactsInv /\ QtcInv /\ QuoteInv /\ (setup.slow => SlowInv)
           /\ \A m \in DOMAIN log : log[m] \in Contact /\ log[m].kind = "qso" /\ log[m].time \in Nat
           /\ Len(log) \in Nat /\ DOMAIN log = 1 .. Len(log)
<1>1. Len(log) \in Nat /\ DOMAIN log = 1 .. Len(log)
  BY LenProperties DEF TypeInv
<1>2. ContactsInv /\ QtcInv /\ QuoteInv /\ (setup.slow => SlowInv)
  BY DEF OrderInv
<1> QED  BY <1>1, <1>2 DEF ContactsInv, Contact

(* A number of lines copied is an integer. *)
LEMMA CopiedIsInt ==
    ASSUME TypeInv
    PROVE  \A d \in Directions : Copied(d) \in Int
<1>1. reader.read \in [Directions -> Nat]
  BY DEF TypeInv, Readers
<1> QED  BY <1>1 DEF Copied

LEMMA CopiedIsIntNext ==
    ASSUME TypeInv'
    PROVE  \A d \in Directions : Copied(d)' \in Int
<1>1. reader'.read \in [Directions -> Nat]
  BY DEF TypeInv, Readers
<1> QED  BY <1>1 DEF Copied

(* What is written last is not older than what is there, nor younger than what is to come. *)
LEMMA StaysSorted ==
    ASSUME TypeInv, TypeInv', SortedInv, UNCHANGED <<log, qtcs>>,
           NEW e \in Line, out' = Append(out, e), e.kind # "error", e.time \in Nat,
           reader'.line >= reader.line,
           \A i \in DOMAIN out : out[i].time <= e.time,
           \A m \in DOMAIN log : m > reader'.line => e.time <= log[m].time,
           \A d \in Directions : \A k \in DOMAIN qtcs[d] : k > Copied(d)' => e.time <= qtcs[d][k].time,
           \A d \in Directions : Copied(d)' = Copied(d) + (IF e.kind = d THEN 1 ELSE 0),
           \A d \in Directions : e.kind = d => e = PrepareLine(qtcs[d][Copied(d)']),
           reader'.line = reader.line + (IF e.kind = "qso" THEN 1 ELSE 0)
    PROVE  SortedInv'
<1>1. /\ Len(out) \in Nat /\ DOMAIN out = 1 .. Len(out) /\ out \in Seq(Line)
      /\ \A d \in Directions : DOMAIN qtcs[d] = 1 .. Len(qtcs[d]) /\ Len(qtcs[d]) \in Nat
      /\ DOMAIN log = 1 .. Len(log) /\ Len(log) \in Nat
      /\ reader.line \in Nat /\ reader'.line \in Nat
  BY LenProperties, QtcTypes DEF TypeInv, Readers
<1>2. /\ DOMAIN out' = 1 .. Len(out) + 1 /\ out'[Len(out) + 1] = e
      /\ \A i \in 1 .. Len(out) : out'[i] = out[i]
  BY <1>1, AppendIs
<1>3. \A d \in Directions : Copied(d) \in Int /\ Copied(d)' \in Int
  BY CopiedIsInt, CopiedIsIntNext, Zenon
<1>4. ASSUME NEW j \in DOMAIN out'
      PROVE  /\ out'[j].kind # "error"
             /\ \A i \in 1 .. j : out'[i].time <= out'[j].time
             /\ \A m \in DOMAIN log : m > reader'.line => out'[j].time <= log[m].time
             /\ \A d \in Directions : \A k \in DOMAIN qtcs[d] :
                    k > Copied(d)' => out'[j].time <= qtcs[d][k].time
  <2>1. CASE j \in 1 .. Len(out)
    <3>1. out'[j] = out[j] /\ \A i \in 1 .. j : i \in 1 .. Len(out) /\ out'[i] = out[i]
      BY <1>1, <1>2, <2>1
    <3>2. /\ out[j].kind # "error"
          /\ \A i \in 1 .. j : out[i].time <= out[j].time
          /\ \A m \in DOMAIN log : m > reader.line => out[j].time <= log[m].time
          /\ \A d \in Directions : \A k \in Pending(d) : out[j].time <= qtcs[d][k].time
      BY <1>1, <2>1 DEF SortedInv
    <3>3. \A m \in DOMAIN log : m > reader'.line => m > reader.line
      BY <1>1
    <3>4. \A d \in Directions : \A k \in DOMAIN qtcs[d] : k > Copied(d)' => k \in Pending(d)
      <4> TAKE d \in Directions
      <4> TAKE k \in DOMAIN qtcs[d]
      <4>1. k \in Nat /\ Copied(d) \in Int /\ Copied(d)' \in Int /\ Copied(d)' >= Copied(d)
        BY <1>1, <1>3
      <4> QED  BY <4>1 DEF Pending
    <3> QED  BY <3>1, <3>2, <3>3, <3>4
  <2>2. CASE j = Len(out) + 1
    <3>1. \A i \in 1 .. j : out'[i].time <= e.time
      <4> TAKE i \in 1 .. j
      <4>1. CASE i \in 1 .. Len(out)
        BY <1>1, <1>2, <4>1
      <4>2. CASE i = Len(out) + 1
        BY <1>2, <4>2
      <4> QED  BY <1>1, <2>2, <4>1, <4>2
    <3> QED  BY <1>2, <2>2, <3>1
  <2> QED  BY <1>1, <1>2, <2>1, <2>2
<1>5. \A kind : /\ Len(OfKind(out, kind)) \in Nat
                /\ Len(OfKind(out', kind)) = Len(OfKind(out, kind)) + (IF e.kind = kind THEN 1 ELSE 0)
  BY <1>1, CountAll
<1>6. Len(OfKind(out', "qso")) = reader'.line
  BY <1>5 DEF SortedInv
<1>7. \A d \in Directions : Len(OfKind(out', d)) = Copied(d)'
  BY <1>5 DEF SortedInv
<1>8. \A d \in Directions : Pending(d)' = {k \in DOMAIN qtcs[d] : k > Copied(d)'}
  BY DEF Pending
<1>9. \A j \in DOMAIN out' : \A d \in Directions :
          \A k \in Pending(d)' : out'[j].time <= qtcs'[d][k].time
  BY <1>4, <1>8
<1>10. ASSUME NEW d \in Directions, NEW c \in 1 .. Copied(d)'
       PROVE  OfKind(out', d)[c] = PrepareLine(qtcs[d][c])
  <2> DEFINE o == OfKind(out, d)
  <2>1. /\ o \in Seq(Line) /\ Len(o) = Copied(d)
        /\ \A b \in 1 .. Copied(d) : o[b] = PrepareLine(qtcs[d][b])
    BY <1>1, SelectionType DEF SortedInv
  <2>2. OfKind(out', d) = IF e.kind = d THEN Append(o, e) ELSE o
    BY <1>1, OneMore
  <2> HIDE DEF o
  <2>3. CASE e.kind = d
    <3>1. Copied(d)' = Copied(d) + 1 /\ e = PrepareLine(qtcs[d][Copied(d)'])
      BY <2>3
    <3>2. Append(o, e)[Copied(d)'] = e /\ \A b \in 1 .. Copied(d) : Append(o, e)[b] = o[b]
      BY <2>1, <3>1, AppendIs
    <3>3. c \in 1 .. Copied(d) \/ c = Copied(d)'
      BY <1>3, <3>1
    <3> QED  BY <2>1, <2>2, <2>3, <3>1, <3>2, <3>3
  <2>4. CASE e.kind # d
    <3>1. c \in 1 .. Copied(d)
      BY <1>3, <2>4
    <3> QED  BY <2>1, <2>2, <2>4, <3>1
  <2> QED  BY <2>3, <2>4
<1>11. \A d \in Directions : \A c \in 1 .. Copied(d)' :
           OfKind(out', d)[c] = (PrepareLine(qtcs[d][c]))'
  BY <1>10 DEF PrepareLine, ModeRead
<1> QED  BY <1>4, <1>6, <1>7, <1>9, <1>11 DEF SortedInv

(* The lines that are there keep their places. *)
LEMMA PlacesStay ==
    ASSUME TypeInv, PlaceInv, UNCHANGED <<log, qtcs>>, NEW e \in Line, out' = Append(out, e),
           LET c == Len(OfKind(out', e.kind)) IN
           IF e.kind = "qso" THEN c \in DOMAIN log /\ e = log[c]
           ELSE /\ c \in DOMAIN qtcs[e.kind] /\ e = PrepareLine(qtcs[e.kind][c])
                /\ e.nr = Len(OfKind(out', "qso"))
    PROVE  PlaceInv'
<1>1. Len(out) \in Nat /\ DOMAIN out = 1 .. Len(out) /\ out \in Seq(Line)
  BY LenProperties DEF TypeInv
<1>2. /\ DOMAIN out' = 1 .. Len(out) + 1 /\ out'[Len(out) + 1] = e /\ Len(out') = Len(out) + 1
      /\ \A i \in 1 .. Len(out) : out'[i] = out[i]
  BY <1>1, AppendIs
<1>3. /\ \A kind : \A j \in DOMAIN out : Count(kind, j)' = Count(kind, j)
      /\ \A kind : Count(kind, Len(out))' = Len(OfKind(out', kind))
  BY <1>1, CountsStay
<1>4. ASSUME NEW j \in DOMAIN out'
      PROVE  (LET c == Count(out[j].kind, j) IN
              IF out[j].kind = "qso" THEN c \in DOMAIN log /\ out[j] = log[c]
              ELSE /\ c \in DOMAIN qtcs[out[j].kind] /\ out[j] = PrepareLine(qtcs[out[j].kind][c])
                   /\ out[j].nr = Count("qso", j))'
  <2>1. CASE j \in 1 .. Len(out)
    BY <1>1, <1>2, <1>3, <2>1 DEF PlaceInv
  <2>2. CASE j = Len(out) + 1
    <3>1. out'[j] = e /\ \A kind : Count(kind, j)' = Len(OfKind(out', kind))
      BY <1>2, <1>3, <2>2
    <3> QED  BY <3>1
  <2> QED  BY <1>1, <1>2, <2>1, <2>2
<1> QED  BY <1>4 DEF PlaceInv

(* A contact is written only when no QTC at hand has the number of the one before it, so
   all that are at hand have its number or a later one. *)
LEMMA ContactKeepsMerge ==
    ASSUME TypeInv, TypeInv', OrderInv, MergeInv, ExportQso, reader'.ok
    PROVE  /\ CopyInv'
           /\ Simple => HeadsInv' /\ SortedInv' /\ (setup.slow => PlaceInv')
<1> DEFINE line == NextQso(reader.line)
           r == [reader EXCEPT !.line = line, !.qsonr = @ + 1]
           fetched == Fetch(r, "recv")
<1>0. /\ phase = "export" /\ reader.ok /\ ~QtcFollows(reader)
      /\ UNCHANGED <<setup, clock, log, qtcs, phase, adif, imported>>
  BY DEF ExportQso
<1>1. CopyInv /\ (Simple => HeadsInv /\ SortedInv /\ (setup.slow => PlaceInv))
  BY <1>0 DEF MergeInv
<1>2. /\ line \in reader.line + 1 .. Len(log) /\ log[line] \in Contact
      /\ out' = Append(out, log[line]) /\ reader'.line = line
      /\ reader' = Fetch(fetched, "send")
      /\ OfKind(out', "qso") = OfKind(SubSeq(log, 1, line), "qso")
      /\ \A d \in Directions : OfKind(out', d) = OfKind(out, d)
  BY <1>1, ContactIsCopied
<1>3. /\ Len(log) \in Nat /\ DOMAIN log = 1 .. Len(log) /\ reader \in Readers /\ reader.line \in Nat
      /\ reader.qsonr \in Nat /\ reader.qsonr + 1 \in Nat
      /\ qtcs \in [Directions -> Seq(Qtcs)] /\ HeadsInLogs(reader) /\ out \in Seq(Line)
  BY LenProperties DEF TypeInv, Readers
<1>4. CopyInv'
  <2>1. line \in 0 .. Len(log)
    BY <1>2, <1>3
  <2> HIDE DEF line
  <2> QED  BY <1>0, <1>2, <2>1 DEF CopyInv
<1> SUFFICES ASSUME Simple PROVE HeadsInv' /\ SortedInv' /\ (setup.slow => PlaceInv')
  BY <1>4
<1>5. /\ ContactsInv /\ QtcInv /\ QuoteInv /\ (setup.slow => SlowInv)
      /\ \A m \in DOMAIN log : log[m] \in Contact /\ log[m].kind = "qso" /\ log[m].time \in Nat
  BY OnlyContacts
<1>6. HeadsInv /\ SortedInv /\ (setup.slow => PlaceInv)
  BY <1>1
<1>7. line = reader.line + 1
  <2>1. \A i \in reader.line + 1 .. line - 1 : log[i].kind # "qso"
    BY <1>2, <1>3, NextQsoIs
  <2>2. reader.line + 1 \in 1 .. Len(log)
    BY <1>2, <1>3
  <2>3. log[reader.line + 1].kind = "qso"
    BY <1>3, <1>5, <2>2
  <2>4. reader.line + 1 \notin reader.line + 1 .. line - 1
    BY <2>1, <2>3
  <2> HIDE DEF line
  <2> QED  BY <1>2, <1>3, <2>4
<1> HIDE DEF line
<1>8. /\ r \in Readers /\ r.line = line /\ r.qsonr = line /\ r.ok
      /\ \A d \in Directions : r.head[d] = reader.head[d] /\ r.read[d] = reader.read[d] /\ r.nr[d] = reader.nr[d]
      /\ \A d \in Directions : AtHand(r, d)
      /\ HeadsInLogs(r)
  <2>1. line \in Nat /\ reader.qsonr + 1 = line
    BY <1>3, <1>6, <1>7 DEF HeadsInv
  <2>2. /\ r \in Readers /\ r.line = line /\ r.qsonr = line /\ r.ok
        /\ r.head = reader.head /\ r.read = reader.read /\ r.nr = reader.nr
    BY <1>0, <1>3, <2>1 DEF Readers
  <2> HIDE DEF r
  <2>3. \A d \in Directions : AtHand(r, d)
    BY <1>6, <2>2 DEF HeadsInv, AtHand
  <2>4. HeadsInLogs(r)
    BY <1>3, <2>2 DEF HeadsInLogs
  <2> QED  BY <2>2, <2>3, <2>4
<1> HIDE DEF r
<1>9. fetched \in Readers /\ HeadsInLogs(fetched)
  BY <1>3, <1>8, FetchType DEF Directions
<1>10. /\ fetched.line = line /\ fetched.qsonr = line
       /\ fetched.head["send"] = r.head["send"] /\ fetched.read["send"] = r.read["send"]
       /\ fetched.nr["send"] = r.nr["send"]
       /\ AtHand(fetched, "recv") /\ AtHand(fetched, "send")
       /\ r.head["recv"] # None => fetched.head["recv"] = r.head["recv"] /\ fetched.read["recv"] = r.read["recv"]
       /\ r.head["recv"] = None /\ r.read["recv"] = Len(qtcs["recv"]) =>
              fetched.head["recv"] = None /\ fetched.read["recv"] = r.read["recv"]
       /\ r.head["recv"] = None /\ r.read["recv"] # Len(qtcs["recv"]) =>
              fetched.head["recv"] = r.read["recv"] + 1
       /\ fetched.head["recv"] = None => fetched.read["recv"] = Len(qtcs["recv"])
  <2>1. "recv" \in Directions /\ "send" \in Directions \ {"recv"}
    BY DEF Directions
  <2>2. AtHand(fetched, "send")
    <3>1. /\ fetched.head["send"] = r.head["send"] /\ fetched.read["send"] = r.read["send"]
          /\ fetched.nr["send"] = r.nr["send"]
      BY <1>3, <1>8, <2>1, FetchIs
    <3> HIDE DEF fetched
    <3> QED  BY <1>8, <2>1, <3>1 DEF AtHand
  <2> QED  BY <1>3, <1>8, <2>1, <2>2, FetchIs
<1> HIDE DEF fetched
<1>11. /\ reader'.qsonr = line
       /\ \A d \in Directions :
           /\ AtHand(reader', d)
           /\ reader.head[d] # None => reader'.head[d] = reader.head[d] /\ reader'.read[d] = reader.read[d]
           /\ reader.head[d] = None /\ reader.read[d] = Len(qtcs[d]) =>
                  reader'.head[d] = None /\ reader'.read[d] = reader.read[d]
           /\ reader.head[d] = None /\ reader.read[d] # Len(qtcs[d]) =>
                  reader'.head[d] = reader.read[d] + 1
           /\ reader'.head[d] = None => reader'.read[d] = Len(qtcs[d])
  <2>1. "send" \in Directions /\ "recv" \in Directions \ {"send"}
    BY DEF Directions
  <2> DEFINE f == Fetch(fetched, "send")
  <2>2. /\ f.qsonr = fetched.qsonr
        /\ \A e \in Directions \ {"send"} : f.head[e] = fetched.head[e] /\ f.read[e] = fetched.read[e] /\ f.nr[e] = fetched.nr[e]
        /\ AtHand(f, "send")
        /\ fetched.head["send"] # None =>
               f.head["send"] = fetched.head["send"] /\ f.read["send"] = fetched.read["send"]
        /\ fetched.head["send"] = None /\ fetched.read["send"] = Len(qtcs["send"]) =>
               f.head["send"] = None /\ f.read["send"] = fetched.read["send"]
        /\ fetched.head["send"] = None /\ fetched.read["send"] # Len(qtcs["send"]) =>
               f.head["send"] = fetched.read["send"] + 1
        /\ f.head["send"] = None => f.read["send"] = Len(qtcs["send"])
    BY <1>3, <1>9, <1>10, <2>1, FetchIs
  <2>3. reader' = f
    BY <1>2
  <2> HIDE DEF f
  <2>4. AtHand(f, "recv")
    BY <1>10, <2>1, <2>2 DEF AtHand
  <2>5. reader.qsonr + 1 = line
    BY <1>6, <1>7 DEF HeadsInv
  <2> QED  BY <1>8, <1>10, <2>2, <2>3, <2>4, <2>5 DEF Directions
<1>12. ASSUME NEW d \in Directions
       PROVE  /\ IF reader'.head[d] = None THEN reader'.read[d] = Len(qtcs[d])
                 ELSE line # 0 /\ reader'.nr[d] >= line
              /\ Copied(d)' = Copied(d)
              /\ \A k \in DOMAIN qtcs[d] : k > Copied(d)' => line <= qtcs[d][k].nr
  <2>1. /\ Len(qtcs[d]) \in Nat /\ DOMAIN qtcs[d] = 1 .. Len(qtcs[d])
        /\ \A k \in DOMAIN qtcs[d] : qtcs[d][k].nr \in DOMAIN log
        /\ \A k \in DOMAIN qtcs[d] : \A j \in 1 .. k : qtcs[d][j].nr <= qtcs[d][k].nr
    BY <1>3, <1>5, QtcTypes DEF QtcInv
  <2>2. reader.read[d] \in 0 .. Len(qtcs[d]) /\ reader.head[d] \in Nat /\ reader.nr[d] \in Nat
    BY <1>3, <1>6 DEF HeadsInv, AtHand, Readers
  <2>3. CASE reader.head[d] # None
    <3>1. /\ reader.line # 0 /\ reader.nr[d] >= reader.line
          /\ reader.nr[d] = qtcs[d][reader.head[d]].nr /\ reader.head[d] = reader.read[d]
      BY <1>6, <2>3 DEF HeadsInv, AtHand
    <3>2. reader.qsonr = reader.line /\ reader.qsonr > 0
      BY <1>3, <1>6, <3>1 DEF HeadsInv
    <3>3. reader.nr[d] # reader.line
      BY <1>0, <3>2 DEF QtcFollows
    <3>4. reader.nr[d] >= line /\ line # 0
      BY <1>3, <1>7, <2>2, <3>1, <3>3
    <3>5. reader'.head[d] = reader.head[d] /\ reader'.read[d] = reader.read[d]
      BY <1>11, <2>3
    <3>6. reader'.nr[d] = reader.nr[d]
      BY <1>0, <1>11, <2>3, <3>1, <3>5 DEF AtHand
    <3>7. Copied(d)' = reader.head[d] - 1 /\ Copied(d) = reader.head[d] - 1
      BY <2>3, <3>1, <3>5 DEF Copied
    <3>8. ASSUME NEW k \in DOMAIN qtcs[d], k > Copied(d)'
          PROVE  line <= qtcs[d][k].nr
      <4>1. reader.head[d] \in 1 .. k
        BY <2>1, <2>2, <2>3, <3>7, <3>8 DEF None
      <4>2. qtcs[d][reader.head[d]].nr <= qtcs[d][k].nr
        BY <2>1, <4>1
      <4>3. qtcs[d][reader.head[d]].nr \in Nat /\ qtcs[d][k].nr \in Nat /\ line \in Nat
        BY <1>3, <1>7, <2>1, <2>2, <3>1
      <4> QED  BY <3>1, <3>4, <4>2, <4>3
    <3> QED  BY <2>3, <3>4, <3>5, <3>6, <3>7, <3>8
  <2>4. CASE reader.head[d] = None /\ reader.read[d] = Len(qtcs[d])
    <3>1. reader'.head[d] = None /\ reader'.read[d] = reader.read[d]
      BY <1>11, <2>4
    <3>2. Copied(d)' = Len(qtcs[d]) /\ Copied(d) = Len(qtcs[d])
      BY <2>4, <3>1 DEF Copied
    <3> QED  BY <2>1, <2>4, <3>1, <3>2
  <2>5. CASE reader.head[d] = None /\ reader.read[d] # Len(qtcs[d])
    <3>1. reader.line = 0 /\ reader.read[d] = 0
      BY <1>6, <2>5 DEF HeadsInv
    <3>2. reader'.head[d] = 1 /\ line = 1 /\ reader'.head[d] # None
      BY <1>7, <1>11, <2>5, <3>1 DEF None
    <3>3. reader'.read[d] = 1 /\ reader'.nr[d] = qtcs[d][1].nr
      BY <1>0, <1>11, <3>2 DEF AtHand
    <3>4. 1 \in DOMAIN qtcs[d]
      BY <2>1, <2>2, <2>5, <3>1
    <3>5. Copied(d)' = 0 /\ Copied(d) = 0
      BY <2>5, <3>1, <3>2, <3>3 DEF Copied
    <3>6. \A k \in DOMAIN qtcs[d] : 1 <= qtcs[d][k].nr
      BY <1>3, <2>1
    <3>7. reader'.nr[d] >= 1
      BY <1>3, <2>1, <3>3, <3>4
    <3> QED  BY <3>2, <3>5, <3>6, <3>7
  <2> QED  BY <2>3, <2>4, <2>5
<1>13. HeadsInv'
  <2>1. \A d \in Directions : AtHand(reader, d)'
    BY <1>0, <1>11 DEF AtHand
  <2>2. line # 0
    BY <1>3, <1>7
  <2> QED  BY <1>0, <1>2, <1>11, <1>12, <2>1, <2>2 DEF HeadsInv
<1> DEFINE e == log[line]
<1>14. line \in DOMAIN log /\ line > reader.line /\ e \in Line /\ e.kind = "qso" /\ e.time \in Nat
       /\ "qso" \notin Directions
  BY <1>2, <1>3, <1>5, <1>7 DEF Line, Directions
<1>15. SortedInv'
  <2>1. \A i \in DOMAIN out : out[i].time <= e.time
    BY <1>6, <1>14 DEF SortedInv
  <2>2. \A m \in DOMAIN log : m > line => e.time <= log[m].time
    BY <1>3, <1>5, <1>14 DEF ContactsInv
  <2>3. ASSUME NEW d \in Directions, NEW k \in DOMAIN qtcs[d], k > Copied(d)'
        PROVE  e.time <= qtcs[d][k].time
    <3>1. line <= qtcs[d][k].nr
      BY <1>12, <2>3
    <3> QED  BY <1>5, <1>14, <3>1 DEF QtcInv
  <2>4. \A d \in Directions : Copied(d)' = Copied(d) + (IF e.kind = d THEN 1 ELSE 0)
    <3> TAKE d \in Directions
    <3>1. Copied(d)' = Copied(d) /\ e.kind # d
      BY <1>12, <1>14
    <3>2. Copied(d) \in Int
      BY CopiedIsInt
    <3> QED  BY <3>1, <3>2
  <2>5. /\ reader'.line >= reader.line
        /\ reader'.line = reader.line + (IF e.kind = "qso" THEN 1 ELSE 0)
    BY <1>2, <1>3, <1>7, <1>14
  <2> HIDE DEF e
  <2>6. out' = Append(out, e) /\ e.kind # "error"
    BY <1>2, <1>14 DEF e
  <2>7. \A m \in DOMAIN log : m > reader'.line => e.time <= log[m].time
    BY <1>2, <2>2
  <2>8. \A d \in Directions : e.kind # d
    BY <1>14 DEF e
  <2> QED  BY <1>0, <1>6, <1>14, <2>1, <2>3, <2>4, <2>5, <2>6, <2>7, <2>8, StaysSorted
<1>16. ASSUME setup.slow PROVE PlaceInv'
  <2>1. Len(OfKind(out', e.kind)) = line
    BY <1>2, <1>14, <1>15 DEF SortedInv
  <2>2. PlaceInv
    BY <1>6, <1>16
  <2>3. out' = Append(out, e)
    BY <1>2
  <2> HIDE DEF e
  <2>4. e = log[Len(OfKind(out', e.kind))] /\ Len(OfKind(out', e.kind)) \in DOMAIN log
    BY <1>14, <2>1 DEF e
  <2> QED  BY <1>0, <1>14, <2>2, <2>3, <2>4, PlacesStay
<1> QED  BY <1>13, <1>15, <1>16

(* The QTC written is the earliest of those at hand. *)
LEMMA EarlierFirst ==
    ASSUME TypeInv, HeadsInv, OrderInv, Simple, NEW e \in Directions, reader.head[e] # None
    PROVE  LET d == Earlier(reader) IN
           /\ reader.head[d] # None
           /\ qtcs[d][reader.head[d]].time <= qtcs[e][reader.head[e]].time
           /\ \A k \in DOMAIN qtcs[e] : k > Copied(e) =>
                  qtcs[d][reader.head[d]].time <= qtcs[e][k].time
<1> DEFINE d == Earlier(reader)
           first == qtcs[d][reader.head[d]].time
<1>1. reader.head[d] # None /\ d \in Directions
  BY DEF Earlier, Directions
<1>2. \A f \in Directions : reader.head[f] # None =>
          reader.head[f] \in DOMAIN qtcs[f] /\ qtcs[f][reader.head[f]].time \in Nat
  BY QtcTypes DEF TypeInv, HeadsInLogs
<1>3. first <= qtcs[e][reader.head[e]].time
  <2> DEFINE time(f) == qtcs[f][reader.head[f]].time
  <2>1. e = d \/ (e = "send" /\ d = "recv") \/ (e = "recv" /\ d = "send")
    <3> HIDE DEF d
    <3> QED  BY <1>1 DEF Directions
  <2>2. e = "send" /\ d = "recv" => time("recv") < time("send")
    BY DEF Earlier
  <2>3. e = "recv" /\ d = "send" => ~(time("recv") < time("send"))
    BY DEF Earlier
  <2>4. time(e) \in Nat /\ time(d) \in Nat
    BY <1>1, <1>2
  <2> HIDE DEF time, d
  <2>5. time(d) <= time(e)
    BY <2>1, <2>2, <2>3, <2>4
  <2> QED  BY <2>5 DEF time
<1>4. ASSUME NEW k \in DOMAIN qtcs[e], k > Copied(e)
      PROVE  first <= qtcs[e][k].time
  <2>1. reader.head[e] \in 1 .. k
    <3>1. Copied(e) = reader.head[e] - 1 /\ reader.head[e] \in Nat
      BY DEF Copied, HeadsInv, AtHand, TypeInv, Readers
    <3>2. k \in Nat
      BY QtcTypes DEF TypeInv
    <3> QED  BY <1>4, <3>1, <3>2 DEF None
  <2>2. qtcs[e][reader.head[e]].time <= qtcs[e][k].time
    BY <2>1, OnlyContacts DEF QtcInv
  <2>3. qtcs[e][k].time \in Nat /\ qtcs[e][reader.head[e]].time \in Nat /\ first \in Nat
    BY <1>1, <1>2, QtcTypes DEF TypeInv
  <2> HIDE DEF first
  <2> QED  BY <1>3, <2>2, <2>3
<1> QED  BY <1>1, <1>3, <1>4

(* A QTC is written when one at hand has the number of the last contact; the earliest of
   those at hand may be another one, but then it is not younger than the next contact. *)
LEMMA QtcKeepsMerge ==
    ASSUME TypeInv, TypeInv', OrderInv, MergeInv, ExportQtc, reader'.ok
    PROVE  /\ CopyInv'
           /\ Simple => HeadsInv' /\ SortedInv' /\ (setup.slow => PlaceInv')
<1>20. PICK d, h, q, e, r : /\ d = Earlier(reader) /\ h = reader.head[d] /\ q = qtcs[d][h] /\ e = PrepareLine(q)
                         /\ r = [reader EXCEPT !.head[d] = None, !.nr[d] = 0]
  OBVIOUS
<1>0. phase = "export" /\ UNCHANGED <<setup, clock, log, qtcs, phase, adif, imported>>
  BY DEF ExportQtc
<1>1. /\ d \in Directions /\ h # None /\ h \in DOMAIN qtcs[d]
      /\ q \in Qtcs /\ e \in Line /\ e.kind = d /\ e.time = q.time /\ e.nr = q.nr
      /\ out' = Append(out, e) /\ reader' = Fetch(r, d) /\ r \in Readers
      /\ r.line = reader.line /\ r.qsonr = reader.qsonr /\ r.ok = reader.ok /\ r.read = reader.read
      /\ \A f \in Directions : /\ r.head[f] = IF f = d THEN None ELSE reader.head[f]
                               /\ r.nr[f] = IF f = d THEN 0 ELSE reader.nr[f]
      /\ reader.ok /\ reader.qsonr > 0 /\ \E f \in Directions : reader.nr[f] = reader.qsonr
  BY <1>20, QtcIsCopied
<1>2. CopyInv /\ (Simple => HeadsInv /\ SortedInv /\ (setup.slow => PlaceInv))
  BY <1>0, <1>1 DEF MergeInv
<1>3. /\ Len(log) \in Nat /\ DOMAIN log = 1 .. Len(log) /\ reader \in Readers /\ reader.line \in Nat
      /\ qtcs \in [Directions -> Seq(Qtcs)] /\ HeadsInLogs(reader) /\ out \in Seq(Line)
      /\ q.time \in Nat /\ q.nr \in Nat /\ h \in Nat /\ d # "qso" /\ d # "error"
      /\ Len(qtcs[d]) \in Nat /\ DOMAIN qtcs[d] = 1 .. Len(qtcs[d])
  <2>1. /\ log \in Seq(Entries) /\ reader \in Readers /\ qtcs \in [Directions -> Seq(Qtcs)]
        /\ HeadsInLogs(reader) /\ out \in Seq(Line)
    BY DEF TypeInv
  <2>2. Len(log) \in Nat /\ DOMAIN log = 1 .. Len(log)
    BY <2>1, LenProperties
  <2>3. Len(qtcs[d]) \in Nat /\ DOMAIN qtcs[d] = 1 .. Len(qtcs[d])
    BY <1>1, <2>1, QtcTypes
  <2>4. reader.line \in Nat /\ h \in Nat /\ q.time \in Nat /\ q.nr \in Nat
    BY <1>1, <2>1, <2>3 DEF Readers, Qtcs
  <2>5. d # "qso" /\ d # "error"
    BY <1>1 DEF Directions
  <2> QED  BY <2>1, <2>2, <2>3, <2>4, <2>5
<1>4. reader'.line = reader.line /\ reader'.qsonr = reader.qsonr
  BY <1>1 DEF Fetch, Readers
<1>5. CopyInv'
  <2>1. OfKind(out', "qso") = OfKind(out, "qso")
    BY <1>1, <1>3, OneMore
  <2> QED  BY <1>0, <1>2, <1>4, <2>1 DEF CopyInv
<1> SUFFICES ASSUME Simple PROVE HeadsInv' /\ SortedInv' /\ (setup.slow => PlaceInv')
  BY <1>5
<1>6. /\ ContactsInv /\ QtcInv /\ QuoteInv /\ (setup.slow => SlowInv)
      /\ \A m \in DOMAIN log : log[m] \in Contact /\ log[m].kind = "qso" /\ log[m].time \in Nat
  BY OnlyContacts
<1>7. HeadsInv /\ SortedInv /\ (setup.slow => PlaceInv)
  BY <1>2
<1>8. /\ reader.read[d] = h /\ reader.nr[d] = q.nr /\ reader.line # 0 /\ q.nr >= reader.line
      /\ reader.qsonr = reader.line
  BY <1>1, <1>7, <1>20 DEF HeadsInv, AtHand
<1>9. AtHand(r, d) /\ r.head[d] = None /\ r.read[d] = h
  BY <1>1, <1>3, <1>8 DEF AtHand
<1>10. /\ \A f \in Directions \ {d} : /\ reader'.head[f] = reader.head[f] /\ reader'.read[f] = reader.read[f]
                                      /\ reader'.nr[f] = reader.nr[f]
       /\ AtHand(reader', d)
       /\ h = Len(qtcs[d]) => reader'.head[d] = None /\ reader'.read[d] = h
       /\ h # Len(qtcs[d]) => reader'.head[d] = h + 1
  <2> DEFINE f == Fetch(r, d)
  <2>1. /\ \A g \in Directions \ {d} : f.head[g] = r.head[g] /\ f.read[g] = r.read[g] /\ f.nr[g] = r.nr[g]
        /\ AtHand(f, d)
        /\ r.head[d] = None /\ r.read[d] = Len(qtcs[d]) => f.head[d] = None /\ f.read[d] = r.read[d]
        /\ r.head[d] = None /\ r.read[d] # Len(qtcs[d]) => f.head[d] = r.read[d] + 1
    <3>1. r \in Readers /\ d \in Directions /\ qtcs \in [Directions -> Seq(Qtcs)] /\ AtHand(r, d)
      BY <1>1, <1>3, <1>9
    <3> QED  BY <3>1, FetchIs
  <2>2. reader' = f
    BY <1>1
  <2> HIDE DEF f
  <2> QED  BY <1>1, <1>9, <2>1, <2>2
<1>11. Copied(d)' = h /\ Copied(d) = h - 1
  <2>1. Copied(d) = h - 1
    BY <1>1, <1>8, <1>20 DEF Copied
  <2>2. CASE h = Len(qtcs[d])
    BY <1>10, <2>1, <2>2 DEF Copied
  <2>3. CASE h # Len(qtcs[d])
    <3>1. reader'.head[d] = h + 1 /\ reader'.head[d] # None
      BY <1>3, <1>10, <2>3 DEF None
    <3>2. reader'.read[d] = h + 1
      BY <1>10, <3>1 DEF AtHand
    <3> QED  BY <1>3, <2>1, <3>1, <3>2 DEF Copied
  <2> QED  BY <2>2, <2>3
<1>12. \A f \in Directions \ {d} : Copied(f)' = Copied(f)
  BY <1>10 DEF Copied
<1>13. HeadsInv'
  <2>1. ASSUME NEW f \in Directions
        PROVE  /\ AtHand(reader, f)'
               /\ IF reader'.head[f] = None THEN reader'.read[f] = Len(qtcs[f])
                  ELSE reader'.nr[f] >= reader.line
    <3>1. CASE f = d /\ h = Len(qtcs[d])
      BY <1>0, <1>10, <3>1 DEF AtHand
    <3>2. CASE f = d /\ h # Len(qtcs[d])
      <4>1. /\ reader'.head[d] = h + 1 /\ reader'.head[d] # None /\ h + 1 \in DOMAIN qtcs[d]
            /\ h \in 1 .. h + 1
        <5>1. h \in 1 .. Len(qtcs[d]) /\ Len(qtcs[d]) \in Nat
          BY <1>1, <1>3
        <5>2. h + 1 \in 1 .. Len(qtcs[d]) /\ h + 1 # None /\ h \in 1 .. h + 1
          BY <3>2, <5>1 DEF None
        <5> QED  BY <1>3, <1>10, <3>2, <5>2
      <4>2. reader'.nr[d] = qtcs[d][h + 1].nr /\ AtHand(reader, d)'
        BY <1>0, <1>10, <4>1 DEF AtHand
      <4>3. qtcs[d][h].nr <= qtcs[d][h + 1].nr /\ qtcs[d][h + 1].nr \in Nat
        BY <1>1, <1>3, <1>6, <4>1, QtcTypes DEF QtcInv
      <4>4. qtcs[d][h].nr = q.nr
        BY <1>20
      <4>5. reader'.nr[d] >= reader.line
        BY <1>3, <1>8, <4>2, <4>3, <4>4
      <4> QED  BY <3>2, <4>1, <4>2, <4>5
    <3>3. CASE f # d
      BY <1>0, <1>7, <1>8, <1>10, <3>3 DEF HeadsInv, AtHand
    <3> QED  BY <3>1, <3>2, <3>3
  <2> QED  BY <1>0, <1>4, <1>8, <2>1 DEF HeadsInv
<1>14. \A f \in Directions : \A k \in DOMAIN qtcs[f] : k > Copied(f) => q.time <= qtcs[f][k].time
  <2> SUFFICES ASSUME NEW f \in Directions, NEW k \in DOMAIN qtcs[f], k > Copied(f)
               PROVE  q.time <= qtcs[f][k].time
    OBVIOUS
  <2>1. CASE reader.head[f] # None
    BY <1>7, <2>1, EarlierFirst, <1>20
  <2>2. CASE reader.head[f] = None
    <3>1. Copied(f) = Len(qtcs[f])
      BY <1>7, <1>8, <2>2 DEF Copied, HeadsInv
    <3>2. k \in Nat /\ k <= Len(qtcs[f]) /\ Len(qtcs[f]) \in Nat
      BY <1>3, QtcTypes
    <3> QED  BY <3>1, <3>2
  <2> QED  BY <2>1, <2>2
(* the QTC with the contact's number, which is not earlier *)
<1>15. PICK x \in Directions : reader.nr[x] = reader.line
  BY <1>1, <1>8
<1> DEFINE o == qtcs[x][reader.head[x]]
<1>16. /\ reader.head[x] # None /\ reader.head[x] \in DOMAIN qtcs[x] /\ o.nr = reader.line
       /\ q.time <= o.time /\ o.time \in Nat
  <2>1. reader.head[x] # None
    BY <1>7, <1>8, <1>15 DEF HeadsInv, AtHand
  <2>2. reader.head[x] \in DOMAIN qtcs[x] /\ o.nr = reader.line
    BY <1>3, <1>7, <1>15, <2>1 DEF HeadsInLogs, HeadsInv, AtHand
  <2>3. q.time <= o.time
    BY <1>7, <2>1, EarlierFirst, <1>20
  <2>4. o.time \in Nat
    BY <1>3, <2>2, QtcTypes
  <2> QED  BY <2>1, <2>2, <2>3, <2>4
<1>17. \A m \in DOMAIN log : m > reader.line => o.time <= log[m].time
  BY <1>3, <1>6, <1>16 DEF QtcInv
<1> HIDE DEF o
<1>18. SortedInv'
  <2>1. \A i \in DOMAIN out : out[i].time <= e.time
    <3>1. h \in Pending(d)
      BY <1>1, <1>3, <1>11 DEF Pending
    <3> QED  BY <1>1, <1>7, <3>1, <1>20 DEF SortedInv
  <2>2. \A m \in DOMAIN log : m > reader'.line => e.time <= log[m].time
    BY <1>1, <1>3, <1>4, <1>6, <1>16, <1>17
  <2>3. \A f \in Directions : Copied(f)' = Copied(f) + (IF e.kind = f THEN 1 ELSE 0)
    <3> TAKE f \in Directions
    <3>1. Copied(f) \in Int
      BY CopiedIsInt
    <3> QED  BY <1>1, <1>3, <1>11, <1>12, <3>1
  <2>4. \A f \in Directions : \A k \in DOMAIN qtcs[f] : k > Copied(f)' => e.time <= qtcs[f][k].time
    <3> TAKE f \in Directions
    <3> TAKE k \in DOMAIN qtcs[f]
    <3>1. k \in Nat /\ Copied(f) \in Int /\ Copied(f)' \in Int /\ Copied(f) <= Copied(f)'
      <4>1. Copied(f) \in Int
        BY <1>3 DEF Copied, Readers
      <4>2. k \in Nat
        BY <1>3, QtcTypes
      <4> QED  BY <2>3, <4>1, <4>2
    <3>2. k > Copied(f)' => k > Copied(f)
      BY <3>1
    <3> QED  BY <1>1, <1>14, <3>2
  <2>5. /\ reader'.line >= reader.line
        /\ reader'.line = reader.line + (IF e.kind = "qso" THEN 1 ELSE 0)
    BY <1>1, <1>3, <1>4
  <2>6. e.kind # "error" /\ e.time \in Nat
    BY <1>1, <1>3
  <2>7. \A f \in Directions : e.kind = f => e = PrepareLine(qtcs[f][Copied(f)'])
    BY <1>1, <1>11, <1>20
  <2> QED  BY <1>0, <1>1, <1>7, <2>1, <2>2, <2>3, <2>4, <2>5, <2>6, <2>7, StaysSorted
<1>19. ASSUME setup.slow PROVE PlaceInv'
  <2>1. Len(OfKind(out', d)) = h /\ Len(OfKind(out', "qso")) = reader.line
    BY <1>1, <1>4, <1>11, <1>18 DEF SortedInv
  <2>2. q.nr = reader.line
    <3> SUFFICES ASSUME q.nr > reader.line PROVE FALSE
      BY <1>3, <1>8
    <3>1. q.nr \in DOMAIN log /\ log[q.nr].time <= q.time
      <4>1. q.nr \in DOMAIN log
        BY <1>1, <1>6, <1>20 DEF QtcInv
      <4>2. q.nr <= q.nr
        BY <1>3
      <4> QED  BY <1>1, <1>6, <4>1, <4>2, <1>20 DEF QtcInv
    <3>2. o.time <= log[q.nr].time
      BY <1>17, <3>1
    <3>3. log[q.nr].time # q.time
      BY <1>1, <1>6, <1>19, <3>1, <1>20 DEF SlowInv
    <3>4. log[q.nr].time \in Nat
      BY <1>6, <3>1
    <3> QED  BY <1>3, <1>16, <3>1, <3>2, <3>3, <3>4
  <2>3. PlaceInv
    BY <1>7, <1>19
  <2>4. e = PrepareLine(qtcs[d][h]) /\ e.nr = Len(OfKind(out', "qso")) /\ e.kind # "qso"
    BY <1>1, <1>3, <2>1, <2>2, <1>20
  <2> QED  BY <1>0, <1>1, <2>1, <2>3, <2>4, PlacesStay
<1> QED  BY <1>13, <1>18, <1>19

(* At the end the contacts are all written; a QTC still at hand would have the number of
   the last one, and would follow it. *)
LEMMA ExportEnds == TypeInv /\ OrderInv /\ MergeInv /\ EndExport => EndInv'
<1> SUFFICES ASSUME TypeInv, OrderInv, MergeInv, EndExport, reader.ok
             PROVE  /\ OfKind(SubSeq(log, 1, reader.line), "qso") = OfKind(log, "qso")
                    /\ Simple => /\ reader.line = Len(log)
                                 /\ \A d \in Directions : Copied(d) = Len(qtcs[d])
  BY DEF EndInv, EndExport, Simple, Copied
<1>1. phase = "export" /\ ~QtcFollows(reader) /\ NextQso(reader.line) = 0
  BY DEF EndExport
<1>2. CopyInv /\ (Simple => HeadsInv)
  BY <1>1 DEF MergeInv
<1>3. /\ log \in Seq(Entries) /\ Len(log) \in Nat /\ DOMAIN log = 1 .. Len(log)
      /\ reader.line \in Nat /\ reader.line <= Len(log) /\ reader \in Readers
  <2>1. log \in Seq(Entries) /\ reader \in Readers
    BY DEF TypeInv
  <2>2. Len(log) \in Nat /\ DOMAIN log = 1 .. Len(log)
    BY <2>1, LenProperties
  <2> QED  BY <1>2, <2>1, <2>2 DEF CopyInv
<1>4. \A i \in reader.line + 1 .. Len(log) : log[i].kind # "qso"
  BY <1>1, <1>3, NextQsoIs
<1>5. OfKind(SubSeq(log, 1, reader.line), "qso") = OfKind(log, "qso")
  <2>1. SubSeq(log, 1, Len(log)) = log
    BY <1>3, FirstLines
  <2>2. OfKind(SubSeq(log, 1, Len(log)), "qso") = OfKind(SubSeq(log, 1, reader.line), "qso")
    BY <1>3, <1>4, OthersSkipped
  <2> QED  BY <2>1, <2>2
<1> SUFFICES ASSUME Simple
             PROVE  reader.line = Len(log) /\ \A d \in Directions : Copied(d) = Len(qtcs[d])
  BY <1>5
<1>6. reader.line = Len(log)
  <2>1. \A m \in 1 .. Len(log) : log[m].kind = "qso"
    BY <1>3, OnlyContacts
  <2>2. reader.line < Len(log) => Len(log) \in reader.line + 1 .. Len(log) /\ Len(log) \in 1 .. Len(log)
    BY <1>3
  <2> QED  BY <1>3, <1>4, <2>1, <2>2
<1>7. ASSUME NEW d \in Directions PROVE Copied(d) = Len(qtcs[d])
  <2>1. Len(qtcs[d]) \in Nat /\ DOMAIN qtcs[d] = 1 .. Len(qtcs[d])
    BY QtcTypes DEF TypeInv
  <2>2. \A k \in DOMAIN qtcs[d] : qtcs[d][k].nr \in 1 .. Len(log)
    BY <1>3, OnlyContacts DEF QtcInv
  <2>3. reader.head[d] = None
    <3> SUFFICES ASSUME reader.head[d] # None PROVE FALSE
      OBVIOUS
    <3>1. /\ reader.line # 0 /\ reader.nr[d] >= reader.line /\ reader.qsonr = reader.line
          /\ reader.nr[d] = qtcs[d][reader.head[d]].nr
      BY <1>2 DEF HeadsInv, AtHand
    <3>2. reader.head[d] \in DOMAIN qtcs[d]
      BY DEF TypeInv, HeadsInLogs
    <3>3. reader.nr[d] = reader.qsonr
      BY <1>3, <1>6, <2>2, <3>1, <3>2
    <3> QED  BY <1>1, <1>3, <3>1, <3>3 DEF QtcFollows
  <2>4. reader.read[d] = IF reader.line = 0 THEN 0 ELSE Len(qtcs[d])
    BY <1>2, <2>3 DEF HeadsInv
  <2>5. reader.line = 0 => Len(qtcs[d]) = 0
    <3>1. Len(qtcs[d]) # 0 => 1 \in DOMAIN qtcs[d]
      BY <2>1
    <3> QED  BY <1>6, <2>1, <2>2, <3>1
  <2> QED  BY <2>3, <2>4, <2>5 DEF Copied
<1> QED  BY <1>6, <1>7

(* Each step of the program keeps the merge. *)
LEMMA NextMergeInv ==
    TypeInv /\ TypeInv' /\ OrderInv /\ MergeInv /\ EndInv /\ [Next]_vars => MergeInv' /\ EndInv'
<1> SUFFICES ASSUME TypeInv, TypeInv', OrderInv, MergeInv, EndInv, [Next]_vars
             PROVE  MergeInv' /\ EndInv'
  OBVIOUS
<1>1. CASE Contest
  <2>1. phase' = "contest"
    BY <1>1 DEF Contest, Tick, LogQso, LogNote, DeleteQso, LogQtc
  <2> QED  BY <2>1 DEF MergeInv, EndInv
<1>2. CASE WriteCabrillo
  <2>1. phase' = "export"
    BY <1>2 DEF WriteCabrillo
  <2> QED  BY <1>2, <2>1, MergeStarts DEF EndInv
<1>3. CASE ExportQso
  <2>1. phase' = "export" /\ setup' = setup
    BY <1>3 DEF ExportQso
  <2>2. MergeInv'
    BY <1>3, <2>1, ContactKeepsMerge DEF MergeInv, Simple
  <2> QED  BY <2>1, <2>2 DEF EndInv
<1>4. CASE ExportQtc
  <2>1. phase' = "export" /\ setup' = setup
    BY <1>4 DEF ExportQtc
  <2>2. MergeInv'
    BY <1>4, <2>1, QtcKeepsMerge DEF MergeInv, Simple
  <2> QED  BY <2>1, <2>2 DEF EndInv
<1>5. ASSUME UNCHANGED <<setup, log, qtcs, reader, out>>, phase # "contest"
      PROVE  MergeInv'
  BY <1>5 DEF MergeInv, CopyInv, HeadsInv, AtHand, SortedInv, PlaceInv, Count, Pending, Copied, Simple
<1>6. CASE EndExport
  <2>1. UNCHANGED <<setup, log, qtcs, reader, out>> /\ phase # "contest"
    BY <1>6 DEF EndExport
  <2> QED  BY <1>5, <1>6, <2>1, ExportEnds
<1>7. CASE WriteAdif \/ Import \/ UNCHANGED vars
  <2>1. /\ UNCHANGED <<setup, log, qtcs, reader, out>>
        /\ phase' \in {"contest", "export"} => phase' = phase
        /\ WriteAdif \/ Import => phase \notin {"contest", "export"}
    BY <1>7 DEF WriteAdif, Import, ReadCabrillo, ImportLine, EndImport, vars
  <2>2. phase \in {"contest", "export"} => phase' = phase
    BY <1>7, <2>1 DEF vars
  <2>3. EndInv'
    BY <2>1, <2>2 DEF EndInv, Copied, Simple
  <2>4. MergeInv'
    <3>1. CASE phase = "contest"
      BY <2>2, <3>1 DEF MergeInv
    <3> QED  BY <1>5, <2>1, <3>1
  <2> QED  BY <2>3, <2>4
<1> QED  BY <1>1, <1>2, <1>3, <1>4, <1>6, <1>7 DEF Next, Export

(* What the merge has done at its end is what is asked for. *)
LEMMA InvIsComplete == TypeInv /\ MergeInv /\ EndInv => Complete
<1> SUFFICES ASSUME TypeInv, MergeInv, EndInv, phase = "exported", reader.ok
             PROVE  /\ OfKind(out, "qso") = OfKind(log, "qso")
                    /\ Simple => /\ \A d \in Directions :
                                       OfKind(out, d) = [k \in DOMAIN qtcs[d] |->
                                                            PrepareLine(qtcs[d][k])]
                                 /\ \A i, j \in DOMAIN out : i < j => out[i].time <= out[j].time
  BY DEF Complete
<1>1. OfKind(out, "qso") = OfKind(log, "qso")
  BY DEF MergeInv, CopyInv, EndInv
<1>2. ASSUME Simple
      PROVE  /\ \A d \in Directions :
                    OfKind(out, d) = [k \in DOMAIN qtcs[d] |-> PrepareLine(qtcs[d][k])]
             /\ \A i, j \in DOMAIN out : i < j => out[i].time <= out[j].time
  <2>1. SortedInv /\ \A d \in Directions : Copied(d) = Len(qtcs[d])
    BY <1>2 DEF MergeInv, EndInv
  <2>2. DOMAIN out = 1 .. Len(out) /\ Len(out) \in Nat
    BY LenProperties DEF TypeInv
  <2>3. \A i, j \in DOMAIN out : i < j => i \in 1 .. j
    BY <2>2
  <2>4. ASSUME NEW d \in Directions
        PROVE  OfKind(out, d) = [k \in DOMAIN qtcs[d] |-> PrepareLine(qtcs[d][k])]
    <3> DEFINE o == OfKind(out, d)
    <3>1. /\ o \in Seq(Line) /\ Len(o) = Len(qtcs[d])
          /\ \A c \in 1 .. Len(qtcs[d]) : o[c] = PrepareLine(qtcs[d][c])
      BY <2>1, SelectionType DEF SortedInv, TypeInv
    <3> HIDE DEF o
    <3>2. DOMAIN o = 1 .. Len(o) /\ o = [c \in DOMAIN o |-> o[c]]
      BY <3>1
    <3>3. DOMAIN qtcs[d] = 1 .. Len(qtcs[d])
      BY QtcTypes
    <3>4. o = [k \in DOMAIN qtcs[d] |-> PrepareLine(qtcs[d][k])]
      BY <3>1, <3>2, <3>3
    <3> QED  BY <3>4 DEF o
  <2>5. \A i, j \in DOMAIN out : i < j => out[i].time <= out[j].time
    BY <2>1, <2>3 DEF SortedInv
  <2> QED  BY <2>4, <2>5
<1> QED  BY <1>1, <1>2

-----------------------------------------------------------------------------
(* The import, line by line.                                               *)

\* All that is known of a finished file of a contest in which everything takes a minute.
InFile ==
    /\ ContactsInv /\ QtcInv /\ QuoteInv /\ SlowInv /\ PlaceInv
    /\ \A d \in Directions : Len(OfKind(out, d)) = Len(qtcs[d])

(* It follows from the merge. *)
LEMMA FileIs ==
    ASSUME TypeInv, OrderInv, MergeInv, EndInv, phase \notin {"contest", "export"}, reader.ok,
           Simple, setup.slow
    PROVE  InFile
<1>1. ContactsInv /\ QtcInv /\ QuoteInv /\ SlowInv
  BY OnlyContacts
<1>2. SortedInv /\ PlaceInv /\ \A d \in Directions : Copied(d) = Len(qtcs[d])
  BY DEF MergeInv, EndInv
<1> QED  BY <1>1, <1>2 DEF InFile, SortedInv

(* Counting line by line. *)
LEMMA CountIs ==
    ASSUME TypeInv
    PROVE  /\ \A kind : Count(kind, 0) = 0
           /\ \A kind : Count(kind, Len(out)) = Len(OfKind(out, kind))
           /\ \A kind : \A n \in 0 .. Len(out) : Count(kind, n) \in Nat
           /\ \A kind : \A n \in Nat : n < Len(out) =>
                  Count(kind, n + 1) = Count(kind, n) + (IF out[n + 1].kind = kind THEN 1 ELSE 0)
<1>1. out \in Seq(Line) /\ Len(out) \in Nat
  BY LenProperties DEF TypeInv
<1>2. \A kind : Count(kind, 0) = 0
  <2>1. SubSeq(out, 1, 0) = <<>> /\ Len(<<>>) = 0
    BY <1>1, FirstLines
  <2> QED  BY <2>1, NoLines DEF Count
<1>3. \A kind : Count(kind, Len(out)) = Len(OfKind(out, kind))
  BY <1>1, FirstLines DEF Count
<1>4. ASSUME NEW kind, NEW n \in 0 .. Len(out)
      PROVE  Count(kind, n) \in Nat
  <2>1. SubSeq(out, 1, n) \in Seq(Line)
    BY <1>1, FirstLines
  <2> QED  BY <2>1, SelectionType, LenProperties DEF Count
<1>5. ASSUME NEW kind, NEW n \in Nat, n < Len(out)
      PROVE  Count(kind, n + 1) = Count(kind, n) + (IF out[n + 1].kind = kind THEN 1 ELSE 0)
  <2>1. n \in 0 .. Len(out) /\ n + 1 \in 1 .. Len(out)
    BY <1>1, <1>5
  <2>2. SubSeq(out, 1, n) \in Seq(Line) /\ out[n + 1] \in Line
    BY <1>1, <2>1, FirstLines, ElementOfSeq
  <2>3. SubSeq(out, 1, n + 1) = Append(SubSeq(out, 1, n), out[n + 1])
    BY <1>1, <1>5, FirstLines
  <2> DEFINE first == SubSeq(out, 1, n)
  <2> HIDE DEF first
  <2>4. Len(OfKind(Append(first, out[n + 1]), kind)) =
            Len(OfKind(first, kind)) + (IF out[n + 1].kind = kind THEN 1 ELSE 0)
    BY <2>2, CountAll DEF first
  <2> QED  BY <2>3, <2>4 DEF Count, first
<1> QED  BY <1>2, <1>3, <1>4, <1>5

\* The contact found for a QTC sent.
ContactOf(i, l) == SelectInSubSeq([q \in DOMAIN i.log |-> q], i.from, Len(i.log),
                                  LAMBDA q : Fits(i, l, q))

(* The contact that a QTC sent quotes is the only one that is found. *)
LEMMA QuoteIsFound ==
    ASSUME TypeInv, InFile, ImportInv, phase = "import", reader.ok, Simple, setup.slow,
           NEW l, imported.line < Len(out), l = out[imported.line + 1], l.kind = "send",
           NEW i, i = [imported EXCEPT !.line = @ + 1]
    PROVE  LET c == Len(i.send) + 1 IN
           /\ c \in DOMAIN qtcs["send"] /\ c = Count("send", imported.line + 1)
           /\ ContactOf(i, l) = qtcs["send"][c].pos /\ Len(i.log) = qtcs["send"][c].nr
<1> DEFINE n == imported.line
           c == Len(i.send) + 1
           q == qtcs["send"][c]
           I == {k \in i.from .. Len(i.log) : Fits(i, l, [x \in DOMAIN i.log |-> x][k])}
<1>1. /\ imported \in Imports /\ n \in Nat /\ n + 1 \in Nat /\ n \in 0 .. Len(out)
      /\ Len(out) \in Nat /\ n + 1 \in DOMAIN out
  <2>1. imported \in Imports /\ out \in Seq(Line)
    BY DEF TypeInv
  <2>2. Len(out) \in Nat /\ DOMAIN out = 1 .. Len(out)
    BY <2>1, LenProperties
  <2>3. n \in Nat
    BY <2>1 DEF Imports
  <2> QED  BY <2>1, <2>2, <2>3
<1>2. /\ i.log = imported.log /\ i.send = imported.send /\ i.used = imported.used
      /\ i.from = imported.from
  BY <1>1 DEF Imports
<1>3. /\ i.log = SubSeq(log, 1, Count("qso", n)) /\ Count("qso", n) \in 0 .. Len(log)
      /\ Len(i.send) = Count("send", n)
      /\ \A k \in 1 .. Len(i.send) : i.send[k].pos = qtcs["send"][k].pos
      /\ i.used = {i.send[k].pos : k \in 1 .. Len(i.send)}
      /\ i.from \in Nat \ {0} /\ 1 .. i.from - 1 \subseteq i.used
  BY <1>2 DEF ImportInv, Directions
<1>4. /\ Count("send", n + 1) = c /\ Count("qso", n + 1) = Count("qso", n) /\ c \in Nat
      /\ Len(i.send) \in Nat
  <2>1. Count("send", n) \in Nat /\ Count("qso", n) \in Nat
    BY <1>1, CountIs
  <2>2. /\ Count("send", n + 1) = Count("send", n) + (IF out[n + 1].kind = "send" THEN 1 ELSE 0)
        /\ Count("qso", n + 1) = Count("qso", n) + (IF out[n + 1].kind = "qso" THEN 1 ELSE 0)
    BY <1>1, CountIs
  <2> QED  BY <1>3, <2>1, <2>2
<1>5. c \in DOMAIN qtcs["send"] /\ l = PrepareLine(q) /\ l.nr = Count("qso", n)
  BY <1>1, <1>4 DEF InFile, PlaceInv
<1>6. q \in Qtcs /\ DOMAIN qtcs["send"] = 1 .. Len(qtcs["send"]) /\ Len(qtcs["send"]) \in Nat
  BY <1>5, QtcTypes DEF TypeInv, Directions
<1>7. l.of = q.of /\ l.nr = q.nr /\ q.nr \in Nat
  <2> HIDE DEF q
  <2> QED  BY <1>5, <1>6 DEF PrepareLine, Qtcs
<1>8. /\ q.pos \in 1 .. q.nr /\ q.of = <<log[q.pos].call, log[q.pos].time>>
      /\ \A j \in DOMAIN qtcs["send"] : qtcs["send"][j].pos = q.pos => j = c
  BY <1>5 DEF InFile, QuoteInv
<1>9. Len(log) \in Nat /\ DOMAIN log = 1 .. Len(log) /\ log \in Seq(Entries)
  BY LenProperties DEF TypeInv
<1> DEFINE m == Count("qso", n)
<1> HIDE DEF q, c, m
<1>10. /\ Len(i.log) = q.nr /\ DOMAIN i.log = 1 .. q.nr /\ q.nr <= Len(log)
       /\ \A k \in 1 .. q.nr : i.log[k] = log[k]
  <2>1. m = q.nr /\ m \in 0 .. Len(log) /\ i.log = SubSeq(log, 1, m)
    BY <1>3, <1>5, <1>7 DEF m
  <2>2. /\ Len(SubSeq(log, 1, m)) = m /\ DOMAIN SubSeq(log, 1, m) = 1 .. m
        /\ \A k \in 1 .. m : SubSeq(log, 1, m)[k] = log[k]
    BY <1>9, <2>1
  <2> QED  BY <1>9, <2>1, <2>2
<1>11. q.pos \notin i.used
  <2>0. SUFFICES ASSUME NEW k \in 1 .. Len(i.send), i.send[k].pos = q.pos PROVE FALSE
    BY <1>3
  <2>1. qtcs["send"][k].pos = q.pos
    BY <1>3, <2>0
  <2>2. k \in DOMAIN qtcs["send"] /\ k # c
    BY <1>4, <1>5, <1>6 DEF c
  <2> QED  BY <1>8, <2>1, <2>2
<1>12. q.pos \in I
  <2>1. q.pos \in i.from .. Len(i.log)
    BY <1>3, <1>7, <1>8, <1>10, <1>11
  <2>2. [x \in DOMAIN i.log |-> x][q.pos] = q.pos
    BY <1>8, <1>10
  <2>3. <<i.log[q.pos].call, i.log[q.pos].time>> = l.of
    BY <1>7, <1>8, <1>10
  <2> QED  BY <1>11, <2>1, <2>2, <2>3 DEF Fits
<1>13. \A k \in I : k = q.pos
  <2> TAKE k \in I
  <2>1. k \in 1 .. q.nr
    BY <1>3, <1>7, <1>10
  <2>2. [x \in DOMAIN i.log |-> x][k] = k
    BY <1>10, <2>1
  <2>3. <<i.log[k].call, i.log[k].time>> = l.of
    BY <2>2 DEF Fits
  <2>4. log[k].time = log[q.pos].time
    BY <1>7, <1>8, <1>10, <2>1, <2>3
  <2>5. k \in DOMAIN log /\ q.pos \in DOMAIN log /\ k \in Nat /\ q.pos \in Nat
    BY <1>7, <1>8, <1>9, <1>10, <2>1
  <2>6. log[k].time \in Nat
    BY <2>5 DEF InFile, ContactsInv, Contact
  <2>7. ~(k < q.pos) /\ ~(q.pos < k)
    BY <2>4, <2>5, <2>6 DEF InFile, SlowInv
  <2> QED  BY <2>5, <2>7
<1>14. ContactOf(i, l) = q.pos
  <2>1. ContactOf(i, l) = IF I # {} THEN Min(I) ELSE 0
    BY DEF ContactOf, SelectInSubSeq
  <2>2. I \subseteq Nat
    BY <1>7, <1>8, <1>13
  <2> HIDE DEF I
  <2>3. Min(I) \in I
    BY <1>12, <2>2, LeastOf
  <2> QED  BY <1>12, <1>13, <2>1, <2>3
<1> QED  BY <1>4, <1>5, <1>10, <1>14 DEF q, c

(* One line is read. *)
LEMMA LineKeepsImport ==
    ASSUME TypeInv, TypeInv', InFile, ImportInv, ImportLine, reader.ok, Simple, setup.slow
    PROVE  ImportInv'
<1> DEFINE n == imported.line
           l == out[n + 1]
           m == Count("qso", n)
<1>1. PICK i : i = [imported EXCEPT !.line = @ + 1]
  OBVIOUS
<1>2. /\ phase = "import" /\ n < Len(out) /\ UNCHANGED <<setup, log, qtcs, phase, reader, out>>
      /\ imported' = CASE l.kind = "qso"  -> ImportQso(i, l)
                       [] l.kind = "send" -> ImportSent(i, l)
                       [] l.kind = "recv" -> ImportReceived(i, l)
                       [] OTHER           -> i
  BY <1>1 DEF ImportLine
<1>3. /\ imported \in Imports /\ imported' \in Imports /\ n \in Nat /\ n + 1 \in 0 .. Len(out)
      /\ n \in 0 .. Len(out)
      /\ Len(out) \in Nat /\ n + 1 \in DOMAIN out /\ out \in Seq(Line) /\ l \in Line
      /\ Len(log) \in Nat /\ DOMAIN log = 1 .. Len(log) /\ log \in Seq(Entries)
  <2>1. imported \in Imports /\ imported' \in Imports /\ out \in Seq(Line) /\ log \in Seq(Entries)
    BY DEF TypeInv
  <2>2. /\ Len(out) \in Nat /\ DOMAIN out = 1 .. Len(out) /\ Len(log) \in Nat
        /\ DOMAIN log = 1 .. Len(log)
    BY <2>1, LenProperties
  <2>3. n \in Nat
    BY <2>1 DEF Imports
  <2>4. n + 1 \in 1 .. Len(out) /\ n + 1 \in 0 .. Len(out) /\ n \in 0 .. Len(out)
    BY <1>2, <2>2, <2>3
  <2>5. l \in Line
    BY <2>1, <2>2, <2>4, ElementOfSeq
  <2> QED  BY <2>1, <2>2, <2>3, <2>4, <2>5
<1>4. /\ i.log = imported.log /\ i.send = imported.send /\ i.recv = imported.recv
      /\ i.used = imported.used /\ i.from = imported.from /\ i.line = n + 1
      /\ i \in [line : Nat, log : Seq(Line), used : SUBSET Nat, from : Nat,
                send : Seq(Found), recv : Seq(Found)]
  <2>1. n + 1 \in Nat
    BY <1>3
  <2> HIDE DEF n
  <2>2. i = [imported EXCEPT !.line = n + 1]
    BY <1>1 DEF n
  <2> QED  BY <1>3, <2>1, <2>2 DEF Imports
<1>5. /\ i.log = SubSeq(log, 1, m) /\ m \in 0 .. Len(log)
      /\ Len(i.send) = Count("send", n) /\ Len(i.recv) = Count("recv", n)
      /\ \A k \in 1 .. Len(i.send) : i.send[k].nr = qtcs["send"][k].nr
      /\ \A k \in 1 .. Len(i.recv) : i.recv[k].nr = qtcs["recv"][k].nr
      /\ \A k \in 1 .. Len(i.send) : i.send[k].pos = qtcs["send"][k].pos
      /\ i.used = {i.send[k].pos : k \in 1 .. Len(i.send)}
      /\ i.from \in Nat \ {0} /\ 1 .. i.from - 1 \subseteq i.used
  BY <1>2, <1>4 DEF ImportInv, Directions
<1>6. /\ m \in Nat /\ Count("send", n) \in Nat /\ Count("recv", n) \in Nat
      /\ Count("qso", n + 1) = m + (IF l.kind = "qso" THEN 1 ELSE 0)
      /\ Count("send", n + 1) = Count("send", n) + (IF l.kind = "send" THEN 1 ELSE 0)
      /\ Count("recv", n + 1) = Count("recv", n) + (IF l.kind = "recv" THEN 1 ELSE 0)
  BY <1>2, <1>3, CountIs
<1>7. LET c == Count(l.kind, n + 1) IN
      IF l.kind = "qso" THEN c \in DOMAIN log /\ l = log[c]
      ELSE /\ c \in DOMAIN qtcs[l.kind] /\ l = PrepareLine(qtcs[l.kind][c])
           /\ l.nr = Count("qso", n + 1)
  BY <1>3 DEF InFile, PlaceInv
<1>9. l.kind \in {"qso", "send", "recv", "error"}
  BY <1>3 DEF Line, Contact, Qtcs, Directions
<1> SUFFICES LET f == imported' IN
             /\ f.line = n + 1
             /\ f.log = SubSeq(log, 1, Count("qso", n + 1)) /\ Count("qso", n + 1) \in 0 .. Len(log)
             /\ Len(f.send) = Count("send", n + 1) /\ Len(f.recv) = Count("recv", n + 1)
             /\ \A k \in 1 .. Len(f.send) : f.send[k].nr = qtcs["send"][k].nr
             /\ \A k \in 1 .. Len(f.recv) : f.recv[k].nr = qtcs["recv"][k].nr
             /\ \A k \in 1 .. Len(f.send) : f.send[k].pos = qtcs["send"][k].pos
             /\ f.used = {f.send[k].pos : k \in 1 .. Len(f.send)}
             /\ f.from \in Nat \ {0} /\ 1 .. f.from - 1 \subseteq f.used
  <2> DEFINE f == imported'
  <2> SUFFICES ASSUME
             /\ f.line = n + 1
             /\ f.log = SubSeq(log, 1, Count("qso", n + 1)) /\ Count("qso", n + 1) \in 0 .. Len(log)
             /\ Len(f.send) = Count("send", n + 1) /\ Len(f.recv) = Count("recv", n + 1)
             /\ \A k \in 1 .. Len(f.send) : f.send[k].nr = qtcs["send"][k].nr
             /\ \A k \in 1 .. Len(f.recv) : f.recv[k].nr = qtcs["recv"][k].nr
             /\ \A k \in 1 .. Len(f.send) : f.send[k].pos = qtcs["send"][k].pos
             /\ f.used = {f.send[k].pos : k \in 1 .. Len(f.send)}
             /\ f.from \in Nat \ {0} /\ 1 .. f.from - 1 \subseteq f.used
               PROVE  ImportInv'
    OBVIOUS
  <2>1. \A d \in Directions : /\ Len(f[d]) = Count(d, n + 1)
                              /\ \A k \in 1 .. Len(f[d]) : f[d][k].nr = qtcs[d][k].nr
    BY DEF Directions
  <2>2. \A kind : Count(kind, imported.line)' = Count(kind, n + 1)
    BY <1>2 DEF Count
  <2>3. \A d \in Directions : /\ Len(f[d]) = Count(d, imported.line)'
                              /\ \A k \in 1 .. Len(f[d]) : f[d][k].nr = qtcs'[d][k].nr
    <3> TAKE d \in Directions
    <3>1. Len(f[d]) = Count(d, n + 1) /\ \A k \in 1 .. Len(f[d]) : f[d][k].nr = qtcs[d][k].nr
      BY <2>1
    <3>2. Count(d, imported.line)' = Count(d, n + 1)
      BY <2>2
    <3>3. qtcs' = qtcs
      BY <1>2
    <3> QED  BY <3>1, <3>2, <3>3
  <2>4. /\ f.line \in 0 .. Len(out') /\ phase' = "import"
        /\ f.log = SubSeq(log', 1, Count("qso", imported.line)')
        /\ Count("qso", imported.line)' \in 0 .. Len(log')
        /\ \A k \in 1 .. Len(f.send) : f.send[k].pos = qtcs'["send"][k].pos
    BY <1>2, <1>3, <2>2
  <2> QED  BY <2>3, <2>4 DEF ImportInv
<1> DEFINE e == [pos |-> qtcs["send"][Len(i.send) + 1].pos, nr |-> Len(i.log)]
<1>10. CASE l.kind = "qso"
  <2>1. imported' = [i EXCEPT !.log = Append(@, l)]
    BY <1>2, <1>10 DEF ImportQso
  <2>2. /\ imported'.log = Append(i.log, l) /\ imported'.line = i.line
        /\ imported'.send = i.send /\ imported'.recv = i.recv
        /\ imported'.used = i.used /\ imported'.from = i.from
    BY <1>4, <2>1
  <2>3. /\ Count("qso", n + 1) = m + 1 /\ Count("send", n + 1) = Count("send", n)
        /\ Count("recv", n + 1) = Count("recv", n) /\ m \in Nat
    BY <1>6, <1>10
  <2>4. m + 1 \in 1 .. Len(log) /\ m + 1 \in 0 .. Len(log) /\ m < Len(log) /\ l = log[m + 1]
    BY <1>3, <1>5, <1>7, <1>10, <2>3
  <2> HIDE DEF m
  <2>5. SubSeq(log, 1, m + 1) = Append(SubSeq(log, 1, m), log[m + 1])
    BY <1>3, <2>3, <2>4, FirstLines
  <2> QED  BY <1>4, <1>5, <2>2, <2>3, <2>4, <2>5
<1>11. CASE l.kind = "recv"
  <2>1. imported' = [i EXCEPT !.recv = Append(@, [pos |-> None, nr |-> Len(i.log)])]
    BY <1>2, <1>11 DEF ImportReceived
  <2> DEFINE g == [pos |-> None, nr |-> Len(i.log)]
             a == Len(i.recv)
  <2>2. /\ imported'.log = i.log /\ imported'.line = i.line
        /\ imported'.send = i.send /\ imported'.recv = Append(i.recv, g)
        /\ imported'.used = i.used /\ imported'.from = i.from
    BY <1>4, <2>1
  <2>3. /\ Count("qso", n + 1) = m /\ Count("send", n + 1) = Count("send", n)
        /\ Count("recv", n + 1) = a + 1 /\ m \in Nat /\ a \in Nat
    BY <1>5, <1>6, <1>11
  <2>4. a + 1 \in DOMAIN qtcs["recv"] /\ l = PrepareLine(qtcs["recv"][a + 1]) /\ l.nr = m
    BY <1>7, <1>11, <2>3
  <2>5. qtcs["recv"][a + 1].nr = m
    <3>1. qtcs["recv"][a + 1] \in Qtcs
      BY <2>4, QtcTypes DEF TypeInv, Directions
    <3> DEFINE q == qtcs["recv"][a + 1]
    <3> HIDE DEF q
    <3>2. q \in Qtcs => PrepareLine(q).nr = q.nr
      BY DEF PrepareLine, Qtcs
    <3> QED  BY <2>4, <3>1, <3>2 DEF q
  <2>6. Len(i.log) = m
    BY <1>3, <1>5, <2>3
  <2>7. /\ Len(Append(i.recv, g)) = a + 1
        /\ Append(i.recv, g)[a + 1] = g /\ \A k \in 1 .. a : Append(i.recv, g)[k] = i.recv[k]
    <3>1. i.recv \in Seq(Found)
      BY <1>4
    <3> HIDE DEF g
    <3> QED  BY <3>1, AppendIs
  <2> DEFINE more == Append(i.recv, g)
  <2>8. g.nr = m
    BY <2>6
  <2> HIDE DEF more, g, a, m
  <2>9. \A k \in 1 .. Len(more) : more[k].nr = qtcs["recv"][k].nr
    <3> TAKE k \in 1 .. Len(more)
    <3>1. CASE k \in 1 .. a
      BY <1>5, <2>7, <3>1 DEF more, a
    <3>2. CASE k = a + 1
      BY <2>5, <2>7, <2>8, <3>2 DEF more
    <3> QED  BY <2>3, <2>7, <3>1, <3>2 DEF more
  <2> QED  BY <1>4, <1>5, <2>2, <2>3, <2>7, <2>9 DEF more
<1>12. CASE l.kind = "send"
  <2> DEFINE p == ContactOf(i, l)
             a == Len(i.send)
             g == [pos |-> p, nr |-> Len(i.log)]
             used == IF p = 0 THEN i.used ELSE i.used \cup {p}
             from == IF p = i.from THEN p + 1 ELSE i.from
  <2>1. /\ a + 1 \in DOMAIN qtcs["send"] /\ a + 1 = Count("send", n + 1)
        /\ p = qtcs["send"][a + 1].pos /\ Len(i.log) = qtcs["send"][a + 1].nr
    BY <1>1, <1>2, <1>12, QuoteIsFound
  <2>2. imported' = [i EXCEPT !.send = Append(@, [pos |-> p, nr |-> Len(i.log)]),
                              !.used = IF p = 0 THEN @ ELSE @ \cup {p},
                              !.from = IF p = i.from THEN p + 1 ELSE @]
    BY <1>2, <1>12 DEF ImportSent, ContactOf
  <2>3. p \in Nat /\ p # 0
    <3>1. p \in 1 .. qtcs["send"][a + 1].nr
      BY <2>1 DEF InFile, QuoteInv
    <3> HIDE DEF p
    <3> QED  BY <3>1, <2>1, QtcTypes DEF TypeInv, Directions
  <2> HIDE DEF p
  <2>4. /\ imported'.log = i.log /\ imported'.line = i.line
        /\ imported'.send = Append(i.send, g) /\ imported'.recv = i.recv
        /\ imported'.used = used /\ imported'.from = from
    BY <1>4, <2>2
  <2>5. /\ Count("qso", n + 1) = m /\ Count("recv", n + 1) = Count("recv", n) /\ m \in Nat
        /\ a \in Nat
    BY <1>5, <1>6, <1>12
  <2>6. /\ Len(Append(i.send, g)) = a + 1
        /\ Append(i.send, g)[a + 1] = g /\ \A k \in 1 .. a : Append(i.send, g)[k] = i.send[k]
    <3>1. i.send \in Seq(Found)
      BY <1>4
    <3> HIDE DEF g
    <3> QED  BY <3>1, AppendIs
  <2> DEFINE more == Append(i.send, g)
  <2>7. g.pos = qtcs["send"][a + 1].pos /\ g.nr = qtcs["send"][a + 1].nr /\ g.pos = p
    BY <2>1
  <2>8. used = i.used \cup {p} /\ from \in Nat \ {0} /\ 1 .. from - 1 \subseteq used
    <3>1. used = i.used \cup {p}
      BY <2>3
    <3>2. CASE p = i.from
      <4>1. from = p + 1 /\ \A k \in 1 .. from - 1 : k = p \/ k \in 1 .. i.from - 1
        BY <2>3, <3>2
      <4>2. \A k \in 1 .. from - 1 : k \in used
        BY <1>5, <3>1, <4>1
      <4>3. from \in Nat \ {0}
        BY <2>3, <4>1
      <4> HIDE DEF from, used
      <4> QED  BY <3>1, <4>2, <4>3
    <3>3. CASE p # i.from
      BY <1>5, <3>1, <3>3
    <3> QED  BY <3>1, <3>2, <3>3
  <2> HIDE DEF more, g, a, m, used, from
  <2>9. \A k \in 1 .. Len(more) : more[k].nr = qtcs["send"][k].nr /\ more[k].pos = qtcs["send"][k].pos
    <3> TAKE k \in 1 .. Len(more)
    <3>1. CASE k \in 1 .. a
      BY <1>5, <2>6, <3>1 DEF more, a
    <3>2. CASE k = a + 1
      BY <2>6, <2>7, <3>2 DEF more
    <3> QED  BY <2>5, <2>6, <3>1, <3>2 DEF more
  <2>10. used = {more[k].pos : k \in 1 .. Len(more)}
    <3>1. {more[k].pos : k \in 1 .. a + 1} = {more[k].pos : k \in 1 .. a} \cup {more[a + 1].pos}
      BY <2>5
    <3>2. {more[k].pos : k \in 1 .. a} = {i.send[k].pos : k \in 1 .. a}
      BY <2>6 DEF more
    <3>3. more[a + 1].pos = p /\ Len(more) = a + 1
      BY <2>6, <2>7 DEF more
    <3>4. i.used = {i.send[k].pos : k \in 1 .. a}
      BY <1>5 DEF a
    <3> QED  BY <2>8, <3>1, <3>2, <3>3, <3>4
  <2>11. Len(more) = Count("send", n + 1)
    BY <2>1, <2>6 DEF more
  <2>12. imported'.send = more
    BY <2>4 DEF more
  <2>13. /\ imported'.log = SubSeq(log, 1, Count("qso", n + 1))
         /\ Count("qso", n + 1) \in 0 .. Len(log)
         /\ Len(imported'.recv) = Count("recv", n + 1)
         /\ \A k \in 1 .. Len(imported'.recv) : imported'.recv[k].nr = qtcs["recv"][k].nr
    BY <1>5, <2>4, <2>5
  <2>14. imported'.line = n + 1 /\ imported'.used = used /\ imported'.from = from
    BY <1>4, <2>4
  <2>15. /\ Len(imported'.send) = Count("send", n + 1)
         /\ \A k \in 1 .. Len(imported'.send) : /\ imported'.send[k].nr = qtcs["send"][k].nr
                                                /\ imported'.send[k].pos = qtcs["send"][k].pos
    BY <2>9, <2>11, <2>12
  <2>16. imported'.used = {imported'.send[k].pos : k \in 1 .. Len(imported'.send)}
    BY <2>10, <2>12, <2>14
  <2>17. imported'.from \in Nat \ {0} /\ 1 .. imported'.from - 1 \subseteq imported'.used
    BY <2>8, <2>14
  <2> QED  BY <2>13, <2>14, <2>15, <2>16, <2>17
<1>13. CASE l.kind = "error"
  <2>1. imported' = i
    BY <1>2, <1>13
  <2>2. /\ Count("qso", n + 1) = m /\ Count("recv", n + 1) = Count("recv", n)
        /\ Count("send", n + 1) = Count("send", n)
    BY <1>6, <1>13
  <2> QED  BY <1>4, <1>5, <2>1, <2>2
<1> QED  BY <1>9, <1>10, <1>11, <1>12, <1>13

(* Each step of the program keeps the import. *)
LEMMA NextImportInv ==
    TypeInv /\ TypeInv' /\ OrderInv /\ MergeInv /\ EndInv /\ ImportInv /\ [Next]_vars => ImportInv'
<1> SUFFICES ASSUME TypeInv, TypeInv', OrderInv, MergeInv, EndInv, ImportInv, [Next]_vars,
                    phase' \in {"import", "imported"}, reader'.ok, Simple', setup'.slow
             PROVE  ImportInv'
  BY DEF ImportInv
<1>1. ~Contest /\ ~WriteCabrillo /\ ~ExportQso /\ ~ExportQtc /\ ~EndExport /\ ~WriteAdif
  BY DEF Contest, Tick, LogQso, LogNote, DeleteQso, LogQtc, WriteCabrillo, ExportQso, ExportQtc,
         EndExport, WriteAdif
<1>2. UNCHANGED <<setup, log, qtcs, reader, out>> /\ reader.ok /\ Simple /\ setup.slow
  BY <1>1 DEF Next, Export, Import, ReadCabrillo, ImportLine, EndImport, vars, Simple
<1>3. CASE ReadCabrillo
  <2>1. /\ imported' = NoLogs /\ phase' = "import" /\ \A kind : Count(kind, 0) = 0
        /\ log \in Seq(Entries) /\ Len(log) \in Nat /\ Len(out) \in Nat
    BY <1>3, CountIs, LenProperties DEF ReadCabrillo, TypeInv
  <2>2. /\ \A kind : Count(kind, imported.line)' = 0
        /\ imported'.line = 0 /\ imported'.log = <<>> /\ imported'.used = {} /\ imported'.from = 1
        /\ imported'.send = <<>> /\ imported'.recv = <<>>
        /\ \A d \in Directions : imported'[d] = <<>>
    <3>1. \A kind : Count(kind, 0)' = Count(kind, 0)
      BY <1>2 DEF Count
    <3>2. /\ imported'.line = 0 /\ imported'.log = <<>> /\ imported'.used = {} /\ imported'.from = 1
          /\ imported'.send = <<>> /\ imported'.recv = <<>>
          /\ \A d \in Directions : imported'[d] = <<>>
      BY <2>1 DEF NoLogs, Directions
    <3>3. \A kind : Count(kind, imported.line)' = Count(kind, 0)
      BY <1>2, <3>2 DEF Count
    <3> QED  BY <2>1, <3>2, <3>3
  <2>3. SubSeq(log, 1, 0) = <<>> /\ Len(<<>>) = 0
    BY <2>1, FirstLines
  <2>4. /\ 0 \in 0 .. Len(out) /\ 0 \in 0 .. Len(log) /\ 1 \in Nat \ {0} /\ 1 .. 1 - 1 = {}
        /\ 1 .. Len(<<>>) = {}
    BY <2>1
  <2> QED  BY <1>2, <2>1, <2>2, <2>3, <2>4 DEF ImportInv
<1>4. CASE ImportLine
  <2>1. phase = "import"
    BY <1>4 DEF ImportLine
  <2>2. InFile
    BY <1>2, <2>1, FileIs
  <2> QED  BY <1>2, <1>4, <2>2, LineKeepsImport
<1>5. CASE EndImport \/ UNCHANGED vars
  <2>1. /\ UNCHANGED <<setup, log, qtcs, reader, out, imported>> /\ phase \in {"import", "imported"}
        /\ phase' = "imported" => imported.line = Len(out) \/ phase = "imported"
    BY <1>5 DEF EndImport, vars
  <2>2. ImportInv
    OBVIOUS
  <2> QED  BY <1>2, <2>1, <2>2 DEF ImportInv, Count
<1> QED  BY <1>1, <1>3, <1>4, <1>5 DEF Next, Export, Import

(* What has been read at the end is what is asked for. *)
LEMMA InvIsRoundTrip == TypeInv /\ OrderInv /\ MergeInv /\ EndInv /\ ImportInv => RoundTrip
<1> SUFFICES ASSUME TypeInv, OrderInv, MergeInv, EndInv, ImportInv,
                    phase = "imported", reader.ok, Simple, setup.slow
             PROVE  /\ \A k \in DOMAIN imported.send :
                        LET p == imported.send[k].pos
                        IN  p # None /\ <<log[p].call, log[p].time>> = qtcs["send"][k].of
                    /\ IsInjective([k \in DOMAIN imported.send |-> imported.send[k].pos])
                    /\ \A d \in Directions :
                        [k \in DOMAIN imported[d] |-> imported[d][k].nr] =
                            [k \in DOMAIN qtcs[d] |-> qtcs[d][k].nr]
  BY DEF RoundTrip
<1>1. InFile
  BY FileIs
<1>2. ASSUME NEW d \in Directions
      PROVE  /\ DOMAIN imported[d] = DOMAIN qtcs[d]
             /\ \A k \in DOMAIN imported[d] : imported[d][k].nr = qtcs[d][k].nr
  <2>1. /\ Len(imported[d]) = Len(qtcs[d])
        /\ \A k \in 1 .. Len(imported[d]) : imported[d][k].nr = qtcs[d][k].nr
    <3>1. Count(d, Len(out)) = Len(OfKind(out, d))
      BY CountIs
    <3> QED  BY <1>1, <3>1 DEF ImportInv, InFile
  <2>2. imported[d] \in Seq(Found)
    BY DEF TypeInv, Imports, Directions
  <2> DEFINE found == imported[d]
  <2> HIDE DEF found
  <2>3. DOMAIN found = 1 .. Len(found)
    BY <2>2, LenProperties DEF found
  <2>4. DOMAIN qtcs[d] = 1 .. Len(qtcs[d])
    BY QtcTypes DEF TypeInv
  <2> QED  BY <2>1, <2>3, <2>4 DEF found
<1>3. /\ DOMAIN imported.send = DOMAIN qtcs["send"]
      /\ DOMAIN imported.send = 1 .. Len(imported.send)
      /\ \A k \in DOMAIN imported.send : imported.send[k].pos = qtcs["send"][k].pos
  <2>1. imported.send \in Seq(Found)
    BY DEF TypeInv, Imports
  <2>2. DOMAIN imported.send = 1 .. Len(imported.send)
    BY <2>1, LenProperties
  <2>3. imported.send = imported["send"]
    OBVIOUS
  <2> QED  BY <1>2, <2>2, <2>3 DEF ImportInv, Directions
<1>4. ASSUME NEW k \in DOMAIN imported.send
      PROVE  LET p == imported.send[k].pos
             IN  p # None /\ <<log[p].call, log[p].time>> = qtcs["send"][k].of
  <2> DEFINE q == qtcs["send"][k]
  <2>1. k \in DOMAIN qtcs["send"] /\ imported.send[k].pos = q.pos
    BY <1>3
  <2>2. q.pos \in 1 .. q.nr /\ q.of = <<log[q.pos].call, log[q.pos].time>> /\ q.nr \in Nat
    BY <1>1, <2>1, QtcTypes DEF InFile, QuoteInv, TypeInv, Directions
  <2> HIDE DEF q
  <2>3. q.pos # None
    BY <2>2 DEF None
  <2> QED  BY <2>1, <2>2, <2>3 DEF q
<1>5. IsInjective([k \in DOMAIN imported.send |-> imported.send[k].pos])
  BY <1>1, <1>3 DEF IsInjective, InFile, QuoteInv
<1> QED  BY <1>2, <1>4, <1>5

(* The invariant of the whole. *)
LEMMA CabrilloInvariant == Spec => [](TypeInv /\ OrderInv /\ MergeInv /\ EndInv /\ ImportInv)
<1> DEFINE Inv == TypeInv /\ OrderInv /\ MergeInv /\ EndInv /\ ImportInv
<1>1. Init => Inv
  <2>1. Init => MergeInv /\ EndInv /\ ImportInv
    BY DEF Init, MergeInv, EndInv, ImportInv
  <2> QED  BY <2>1, InitTypeInv, InitOrderInv
<1>2. Inv /\ [Next]_vars => Inv'
  BY NextTypeInv, NextOrderInv, NextMergeInv, NextImportInv
<1> QED  BY <1>1, <1>2, PTL DEF Spec

(* write_cabrillo() writes every contact of every log in order, unless a value is too     *)
(* wide for its column; and of a log without notes and deletions every QTC, in the order  *)
(* of times, for any number of stations, contacts, QTCs and minutes (writecabrillo.c).     *)
THEOREM CompleteFile == Spec => []Complete
<1>1. TypeInv /\ OrderInv /\ MergeInv /\ EndInv /\ ImportInv => Complete
  BY InvIsComplete
<1> QED  BY <1>1, CabrilloInvariant, PTL

(* Such a log in which every contact and QTC takes a minute comes back from its file:     *)
(* every QTC sent finds the contact it quotes, each another one, and every QTC gets the   *)
(* number it was logged with (readcabrillo.c).                                             *)
THEOREM RoundTrips == Spec => []RoundTrip
<1>1. TypeInv /\ OrderInv /\ MergeInv /\ EndInv /\ ImportInv => RoundTrip
  BY InvIsRoundTrip
<1> QED  BY <1>1, CabrilloInvariant, PTL

-----------------------------------------------------------------------------
(* The configuration.                                                      *)

\* The topic of a keyword, named by one of its keywords.
Names == <<"CONTEST", "ADDNODE", "NETKEYER", "TELNETPORT", "CLUSTER", "CABRILLO-FIELD">>

Topic(key) == IF \E i \in DOMAIN Topics : key \in Topics[i]
              THEN Names[CHOOSE i \in DOMAIN Topics : key \in Topics[i]] ELSE key

\* The topic that a setting belongs to.
Home ==
    [ok |-> "ok", call |-> "CALL", qra |-> "MYQRA", whichcontest |-> "CONTEST",
     contest |-> "CONTEST", iscontest |-> "CONTEST", showscore_flag |-> "CONTEST",
     searchflg |-> "CONTEST", sectn_mult |-> "CONTEST", qso_once |-> "CONTEST", leading_zeros |-> "CONTEST",
     multlist |-> "CONTEST", multsfile |-> "CONTEST", points |-> "CONTEST",
     recall_mult |-> "CONTEST", dx_sections |-> "CONTEST", countrylist |-> "CONTEST",
     continentlist |-> "CONTEST", exclude |-> "CONTEST", pfxnummulti |-> "CONTEST",
     nodes |-> "ADDNODE", named |-> "ADDNODE", host |-> "ADDNODE", lan_active |-> "ADDNODE",
     thisnode |-> "ADDNODE", cwkeyer |-> "NETKEYER", digikeyer |-> "NETKEYER",
     port |-> "NETKEYER", trxmode |-> "NETKEYER", digital_mode |-> "NETKEYER", trx_control |-> "RADIO_CONTROL",
     packet |-> "TELNETPORT", fixedmult |-> "POWERMULT", bandweight |-> "BANDWEIGHT_POINTS",
     qtc |-> "QTC", qtc_recv_lazy |-> "QTC_RECV_LAZY", cluster |-> "CLUSTER",
     filter |-> "CLUSTER", minitest |-> "MINITEST", change_rst |-> "CHANGE_RST",
     rst |-> "CHANGE_RST", corners |-> "BAND_X", cqdelay |-> "CQDELAY", logfile |-> "LOGFILE",
     message |-> "F1", digi_message |-> "DKF1", cabrillo |-> "CABRILLO-FIELD",
     cab |-> "CABRILLO-FIELD"]

Settings(x) == DOMAIN x = DOMAIN Home /\ x = [f \in DOMAIN x |-> x[f]]

\* The same in all that a topic is about; what a line about it may change.
Agree(x, y, topic) == \A f \in DOMAIN Home : Home[f] \in {topic, "ok"} => x[f] = y[f]
Frame(x, x1, topic) == \A f \in DOMAIN Home : Home[f] \notin {topic, "ok"} => x1[f] = x[f]

\* The topics are disjoint, so each keyword has one.
LEMMA TopicsAre ==
    ASSUME NEW k
    PROVE  /\ k \in Topics[1] => Topic(k) = "CONTEST"
           /\ k \in Topics[2] => Topic(k) = "ADDNODE"
           /\ k \in Topics[3] => Topic(k) = "NETKEYER"
           /\ k \in Topics[4] => Topic(k) = "TELNETPORT"
           /\ k \in Topics[5] => Topic(k) = "CLUSTER"
           /\ k \in Topics[6] => Topic(k) = "CABRILLO-FIELD"
           /\ (\A i \in 1..6 : k \notin Topics[i]) => Topic(k) = k
           /\ DOMAIN Topics = 1..6
<1>1. DOMAIN Topics = 1..6
  BY DEF Topics
<1>2. \A i, j \in 1..6 : k \in Topics[i] /\ k \in Topics[j] => i = j
  BY DEF Topics
<1>3. \A i \in 1..6 : k \in Topics[i] => Topic(k) = Names[i]
  <2> TAKE i \in 1..6
  <2> HAVE k \in Topics[i]
  <2>1. (CHOOSE j \in DOMAIN Topics : k \in Topics[j]) = i
    BY <1>1, <1>2
  <2> QED  BY <1>1, <2>1 DEF Topic
<1> QED  BY <1>1, <1>3 DEF Names, Topic

\* Every setting has a topic.
LEMMA HomeIs ==
    DOMAIN Defaults = DOMAIN Home
BY DEF Defaults, Home

\* What a line makes of two states that agree on its topic: it changes that
\* topic only, and in both states to the same.
Confined(x, y, x1, y1, topic) ==
    Settings(x1) /\ Settings(y1) /\ Frame(x, x1, topic) /\ Agree(x1, y1, topic)

\* Handlers that write one setting are confined to the topic it belongs to.
LEMMA OneSetting ==
    ASSUME NEW x, Settings(x), NEW y, Settings(y), NEW t, Agree(x, y, t),
           NEW f \in DOMAIN Home, Home[f] = t, NEW val
    PROVE  /\ Confined(x, y, cfg_string(x, f, val), cfg_string(y, f, val), t)
           /\ Confined(x, y, cfg_bool(x, f, val), cfg_bool(y, f, val), t)
           /\ Confined(x, y, cfg_int_const(x, f, val), cfg_int_const(y, f, val), t)
<1>1. "ok" \in DOMAIN Home /\ Home["ok"] = "ok"
  BY DEF Home
<1> USE <1>1 DEF Fail, Confined, Settings, Frame, Agree
<1>2. Confined(x, y, cfg_int_const(x, f, val), cfg_int_const(y, f, val), t)
  BY DEF cfg_int_const
<1>3. Confined(x, y, cfg_string(x, f, val), cfg_string(y, f, val), t)
  <2>1. CASE val = Bad
    BY <2>1 DEF cfg_string
  <2>2. CASE val # Bad
    BY <2>2 DEF cfg_string
  <2> QED  BY <2>1, <2>2
<1>4. Confined(x, y, cfg_bool(x, f, val), cfg_bool(y, f, val), t)
  <2>1. CASE val \notin {Missing, "ON", "OFF"}
    BY <2>1 DEF cfg_bool
  <2>2. CASE val \in {Missing, "ON", "OFF"}
    BY <2>2 DEF cfg_bool
  <2> QED  BY <2>1, <2>2
<1> QED  BY <1>2, <1>3, <1>4

\* The keyers share the keyer's port, and two of them the mode.
LEMMA KeyerLines ==
    ASSUME NEW x, Settings(x), NEW y, Settings(y), Agree(x, y, "NETKEYER"), NEW val
    PROVE  /\ Confined(x, y, cfg_rttymode(x), cfg_rttymode(y), "NETKEYER")
           /\ Confined(x, y, cfg_mfj1278_keyer(x, val), cfg_mfj1278_keyer(y, val), "NETKEYER")
           /\ Confined(x, y, cfg_gmfsk(x, val), cfg_gmfsk(y, val), "NETKEYER")
           /\ Confined(x, y, cfg_fldigi(x, val), cfg_fldigi(y, val), "NETKEYER")
<1>1. /\ {"ok", "cwkeyer", "digikeyer", "port", "trxmode", "digital_mode"} \subseteq DOMAIN Home
      /\ Home["ok"] = "ok"
      /\ \A f \in {"cwkeyer", "digikeyer", "port", "trxmode", "digital_mode"} :
            Home[f] = "NETKEYER"
  BY DEF Home
<1> USE <1>1 DEF Fail, Confined, Settings, Frame, Agree
<1>2. Confined(x, y, cfg_rttymode(x), cfg_rttymode(y), "NETKEYER")
  BY DEF cfg_rttymode
<1>3. CASE val = Bad
  <2>1. Confined(x, y, cfg_mfj1278_keyer(x, val), cfg_mfj1278_keyer(y, val), "NETKEYER")
    BY <1>3 DEF cfg_mfj1278_keyer
  <2>2. Confined(x, y, cfg_gmfsk(x, val), cfg_gmfsk(y, val), "NETKEYER")
    BY <1>3 DEF cfg_gmfsk
  <2>3. Confined(x, y, cfg_fldigi(x, val), cfg_fldigi(y, val), "NETKEYER")
    BY <1>3 DEF cfg_fldigi
  <2> QED  BY <1>2, <2>1, <2>2, <2>3
<1>4. CASE val # Bad
  <2>1. Confined(x, y, cfg_mfj1278_keyer(x, val), cfg_mfj1278_keyer(y, val), "NETKEYER")
    BY <1>4 DEF cfg_mfj1278_keyer
  <2>2. Confined(x, y, cfg_gmfsk(x, val), cfg_gmfsk(y, val), "NETKEYER")
    BY <1>4 DEF cfg_gmfsk
  <2>3. Confined(x, y, cfg_fldigi(x, val), cfg_fldigi(y, val), "NETKEYER")
    BY <1>4 DEF cfg_fldigi
  <2> QED  BY <1>2, <2>1, <2>2, <2>3
<1> QED  BY <1>3, <1>4

\* Nodes are counted, or named by a letter, and not both.
LEMMA NodeLines ==
    ASSUME NEW x, Settings(x), NEW y, Settings(y), Agree(x, y, "ADDNODE"), NEW n, NEW val
    PROVE  /\ Confined(x, y, cfg_addnode(x, val), cfg_addnode(y, val), "ADDNODE")
           /\ Confined(x, y, cfg_node_x(x, n, val), cfg_node_x(y, n, val), "ADDNODE")
           /\ Confined(x, y, cfg_thisnode(x, n), cfg_thisnode(y, n), "ADDNODE")
<1>1. /\ {"ok", "nodes", "named", "host", "lan_active", "thisnode"} \subseteq DOMAIN Home
      /\ Home["ok"] = "ok"
      /\ \A f \in {"nodes", "named", "host", "lan_active", "thisnode"} : Home[f] = "ADDNODE"
  BY DEF Home
<1>2. /\ x["nodes"] = y["nodes"] /\ x["named"] = y["named"] /\ x["host"] = y["host"]
  BY <1>1 DEF Agree
<1> USE <1>1, <1>2 DEF Fail, Confined, Settings, Frame, Agree
<1>3. Confined(x, y, cfg_addnode(x, val), cfg_addnode(y, val), "ADDNODE")
  <2>1. CASE x.named \/ x.nodes >= MaxNodes
    BY <2>1 DEF cfg_addnode
  <2>2. CASE ~(x.named \/ x.nodes >= MaxNodes)
    BY <2>2 DEF cfg_addnode, parse_node
  <2> QED  BY <2>1, <2>2
<1>4. Confined(x, y, cfg_node_x(x, n, val), cfg_node_x(y, n, val), "ADDNODE")
  <2>1. CASE n >= MaxNodes \/ (~x.named /\ x.nodes > 0)
    BY <2>1 DEF cfg_node_x
  <2>2. CASE ~(n >= MaxNodes \/ (~x.named /\ x.nodes > 0))
    BY <2>2 DEF cfg_node_x, parse_node
  <2> QED  BY <2>1, <2>2
<1>5. Confined(x, y, cfg_thisnode(x, n), cfg_thisnode(y, n), "ADDNODE")
  <2>1. CASE n >= MaxNodes
    BY <2>1 DEF cfg_thisnode
  <2>2. CASE ~(n >= MaxNodes)
    BY <2>2 DEF cfg_thisnode
  <2> QED  BY <2>1, <2>2
<1> QED  BY <1>3, <1>4, <1>5

\* Lines about the contest reset what others of them have set, and write to the
\* rules of the contest chosen so far; all of that is one topic.
LEMMA ContestLines ==
    ASSUME NEW x, Settings(x), NEW y, Settings(y), Agree(x, y, "CONTEST"), NEW val
    PROVE  /\ Confined(x, y, cfg_contest(x, val), cfg_contest(y, val), "CONTEST")
           /\ Confined(x, y, cfg_contest_bool(x, val), cfg_contest_bool(y, val), "CONTEST")
           /\ Confined(x, y, cfg_n_points(x, val), cfg_n_points(y, val), "CONTEST")
           /\ Confined(x, y, cfg_mult_list(x, val), cfg_mult_list(y, val), "CONTEST")
           /\ Confined(x, y, cfg_dx_n_sections(x), cfg_dx_n_sections(y), "CONTEST")
           /\ Confined(x, y, cfg_countrylist(x, val), cfg_countrylist(y, val), "CONTEST")
           /\ Confined(x, y, cfg_pfx_num_multis(x, val), cfg_pfx_num_multis(y, val), "CONTEST")
           /\ Confined(x, y, cfg_continentlist(x, val), cfg_continentlist(y, val), "CONTEST")
           /\ Confined(x, y, cfg_exclude_multilist(x, val), cfg_exclude_multilist(y, val),
                       "CONTEST")
           /\ Confined(x, y, cfg_section_mult(x, val), cfg_section_mult(y, val), "CONTEST")
<1>1. /\ {"ok", "whichcontest", "contest", "iscontest", "showscore_flag", "searchflg",
          "sectn_mult", "qso_once", "multlist", "leading_zeros", "multsfile", "points", "recall_mult",
          "dx_sections", "countrylist", "continentlist", "exclude", "pfxnummulti"}
             \subseteq DOMAIN Home
      /\ Home["ok"] = "ok"
      /\ \A f \in {"whichcontest", "contest", "iscontest", "showscore_flag", "searchflg",
                   "sectn_mult", "qso_once", "multlist", "leading_zeros", "multsfile", "points",
                   "recall_mult", "dx_sections", "countrylist", "continentlist", "exclude",
                   "pfxnummulti"} : Home[f] = "CONTEST"
  BY DEF Home
<1>2. \A f \in {"whichcontest", "contest", "points", "recall_mult", "countrylist",
                "continentlist", "qso_once", "multlist", "leading_zeros"} : x[f] = y[f]
  BY <1>1 DEF Agree
<1>3. ASSUME NEW x1, Settings(x1), NEW y1, Settings(y1), Agree(x1, y1, "CONTEST"), NEW name
      PROVE  Confined(x1, y1, SetContest(x1, name), SetContest(y1, name), "CONTEST")
  <2> USE <1>1, <1>3
  <2>1. Settings(SetContest(x1, name))
    BY DEF SetContest, Settings
  <2>4. Settings(SetContest(y1, name))
    BY DEF SetContest, Settings
  <2>2. Frame(x1, SetContest(x1, name), "CONTEST")
    BY DEF SetContest, Settings, Frame
  <2>3. Agree(SetContest(x1, name), SetContest(y1, name), "CONTEST")
    BY DEF SetContest, Settings, Agree
  <2> QED  BY <2>1, <2>2, <2>3, <2>4 DEF Confined
<1>4. Confined(x, y, cfg_contest(x, val), cfg_contest(y, val), "CONTEST")
  <2>1. CASE val = Bad
    BY <1>1, <2>1 DEF cfg_contest, Fail, Confined, Settings, Frame, Agree
  <2>2. CASE val # Bad
    BY <1>3, <2>2 DEF cfg_contest
  <2> QED  BY <2>1, <2>2
<1>5. Confined(x, y, cfg_contest_bool(x, val), cfg_contest_bool(y, val), "CONTEST")
  <2>1. CASE val \notin {Missing, "ON", "OFF"}
    BY <1>1, <1>2, <2>1 DEF cfg_contest_bool, Fail, Confined, Settings, Frame, Agree
  <2>2. CASE val \in {Missing, "ON", "OFF"}
    BY <1>1, <1>2, <2>2 DEF cfg_contest_bool, Confined, Settings, Frame, Agree
  <2> QED  BY <2>1, <2>2
<1>6. Confined(x, y, cfg_n_points(x, val), cfg_n_points(y, val), "CONTEST")
  BY <1>1, <1>2 DEF cfg_n_points, Confined, Settings, Frame, Agree
<1>7. Confined(x, y, cfg_mult_list(x, val), cfg_mult_list(y, val), "CONTEST")
  <2>1. CASE val = Bad
    BY <1>1, <2>1 DEF cfg_mult_list, Fail, Confined, Settings, Frame, Agree
  <2>2. CASE val # Bad
    BY <1>1, <2>2 DEF cfg_mult_list, Confined, Settings, Frame, Agree
  <2> QED  BY <2>1, <2>2
<1>8. ASSUME NEW f \in {"dx_sections", "countrylist", "pfxnummulti", "continentlist"}, NEW v
      PROVE  Confined(x, y, SetContest([x EXCEPT ![f] = v], x.whichcontest),
                      SetContest([y EXCEPT ![f] = v], y.whichcontest), "CONTEST")
  <2> DEFINE x1 == [x EXCEPT ![f] = v]
             y1 == [y EXCEPT ![f] = v]
  <2>1. Confined(x, y, x1, y1, "CONTEST")
    BY <1>1 DEF Confined, Settings, Frame, Agree
  <2> HIDE DEF x1, y1
  <2>2. Confined(x1, y1, SetContest(x1, x.whichcontest), SetContest(y1, y.whichcontest),
                 "CONTEST")
    BY <1>2, <1>3, <2>1 DEF Confined
  <2>3. Confined(x, y, SetContest(x1, x.whichcontest), SetContest(y1, y.whichcontest),
                 "CONTEST")
    BY <2>1, <2>2 DEF Confined, Frame
  <2> QED  BY <2>3 DEF x1, y1
<1>9. Confined(x, y, cfg_dx_n_sections(x), cfg_dx_n_sections(y), "CONTEST")
  BY <1>8 DEF cfg_dx_n_sections
<1>10. Confined(x, y, cfg_countrylist(x, val), cfg_countrylist(y, val), "CONTEST")
  <2>1. CASE val = Bad
    BY <1>1, <2>1 DEF cfg_countrylist, Fail, Confined, Settings, Frame, Agree
  <2>2. CASE val # Bad
    BY <1>8, <2>2 DEF cfg_countrylist
  <2> QED  BY <2>1, <2>2
<1>11. Confined(x, y, cfg_pfx_num_multis(x, val), cfg_pfx_num_multis(y, val), "CONTEST")
  BY <1>8 DEF cfg_pfx_num_multis
<1>12. Confined(x, y, cfg_continentlist(x, val), cfg_continentlist(y, val), "CONTEST")
  <2>1. CASE val = Bad
    BY <1>1, <2>1 DEF cfg_continentlist, Fail, Confined, Settings, Frame, Agree
  <2>2. CASE val # Bad
    BY <1>8, <2>2 DEF cfg_continentlist
  <2> QED  BY <2>1, <2>2
<1>13. Confined(x, y, cfg_exclude_multilist(x, val), cfg_exclude_multilist(y, val), "CONTEST")
  <2>1. CASE val = "CONTINENTLIST" /\ x.continentlist # ""
    BY <1>1, <1>2, <2>1 DEF cfg_exclude_multilist, Confined, Settings, Frame, Agree
  <2>2. CASE val = "COUNTRYLIST" /\ x.countrylist # ""
    BY <1>1, <1>2, <2>2 DEF cfg_exclude_multilist, Confined, Settings, Frame, Agree
  <2>3. CASE /\ ~(val = "CONTINENTLIST" /\ x.continentlist # "")
             /\ ~(val = "COUNTRYLIST" /\ x.countrylist # "")
    BY <1>1, <1>2, <2>3 DEF cfg_exclude_multilist, Fail, Confined, Settings, Frame, Agree
  <2> QED  BY <2>1, <2>2, <2>3
<1>14. Confined(x, y, cfg_section_mult(x, val), cfg_section_mult(y, val), "CONTEST")
  <2>1. CASE val \in {Missing, "ON", "OFF"}
    BY <1>1, <2>1 DEF cfg_section_mult, Confined, Settings, Frame, Agree
  <2>2. CASE val \in {"ONCE", "BAND", "BAND+MODE", "NONE"}
    BY <1>1, <2>2 DEF cfg_section_mult, set_multi_mode, Missing, Confined, Settings, Frame,
                      Agree
  <2>3. CASE val \notin {Missing, "ON", "OFF", "ONCE", "BAND", "BAND+MODE", "NONE"}
    BY <1>1, <2>3 DEF cfg_section_mult, set_multi_mode, Fail, Confined, Settings, Frame, Agree
  <2> QED  BY <2>1, <2>2, <2>3
<1> QED  BY <1>4, <1>5, <1>6, <1>7, <1>9, <1>10, <1>11, <1>12, <1>13, <1>14

\* The handlers with a topic of their own.
LEMMA CallLine ==
    ASSUME NEW x, Settings(x), NEW y, Settings(y), Agree(x, y, "CALL"), NEW val
    PROVE  Confined(x, y, cfg_call(x, val), cfg_call(y, val), "CALL")
<1>1. /\ {"ok", "call"} \subseteq DOMAIN Home /\ Home["ok"] = "ok"
      /\ \A f \in {"call"} : Home[f] = "CALL"
  BY DEF Home
<1>2. Confined(x, y, cfg_call(x, val), cfg_call(y, val), "CALL")
  BY <1>1 DEF cfg_call, Confined, Settings, Frame, Agree
<1> QED  BY <1>2

\* The locator, kept even if it is rejected.
LEMMA LocatorLine ==
    ASSUME NEW x, Settings(x), NEW y, Settings(y), Agree(x, y, "MYQRA"), NEW val
    PROVE  Confined(x, y, cfg_myqra(x, val), cfg_myqra(y, val), "MYQRA")
<1>1. /\ {"ok", "qra"} \subseteq DOMAIN Home /\ Home["ok"] = "ok"
      /\ \A f \in {"qra"} : Home[f] = "MYQRA"
  BY DEF Home
<1>2. Confined(x, y, cfg_myqra(x, val), cfg_myqra(y, val), "MYQRA")
  BY <1>1 DEF cfg_myqra, Confined, Settings, Frame, Agree
<1> QED  BY <1>2

\* The first power multiplier stays.
LEMMA PowerLine ==
    ASSUME NEW x, Settings(x), NEW y, Settings(y), Agree(x, y, "POWERMULT"), NEW val
    PROVE  Confined(x, y, cfg_powermult(x, val), cfg_powermult(y, val), "POWERMULT")
<1>1. /\ {"ok", "fixedmult"} \subseteq DOMAIN Home /\ Home["ok"] = "ok"
      /\ \A f \in {"fixedmult"} : Home[f] = "POWERMULT"
  BY DEF Home
<1>2. x["fixedmult"] = y["fixedmult"]
  BY <1>1 DEF Agree
<1>3. Confined(x, y, cfg_powermult(x, val), cfg_powermult(y, val), "POWERMULT")
  BY <1>1, <1>2 DEF cfg_powermult, Confined, Settings, Frame, Agree
<1> QED  BY <1>3

\* The first list of band weights stays.
LEMMA WeightLine ==
    ASSUME NEW x, Settings(x), NEW y, Settings(y), Agree(x, y, "BANDWEIGHT_POINTS"), NEW val
    PROVE  Confined(x, y, cfg_bandweight(x, val), cfg_bandweight(y, val), "BANDWEIGHT_POINTS")
<1>1. /\ {"ok", "bandweight"} \subseteq DOMAIN Home /\ Home["ok"] = "ok"
      /\ \A f \in {"bandweight"} : Home[f] = "BANDWEIGHT_POINTS"
  BY DEF Home
<1>2. x["bandweight"] = y["bandweight"]
  BY <1>1 DEF Agree
<1>3. Confined(x, y, cfg_bandweight(x, val), cfg_bandweight(y, val), "BANDWEIGHT_POINTS")
  BY <1>1, <1>2 DEF cfg_bandweight, Confined, Settings, Frame, Agree
<1> QED  BY <1>3

\* The ways to a cluster exclude each other.
LEMMA PacketLines ==
    ASSUME NEW x, Settings(x), NEW y, Settings(y), Agree(x, y, "TELNETPORT"), NEW val
    PROVE  /\ Confined(x, y, cfg_telnetport(x, val), cfg_telnetport(y, val), "TELNETPORT")
           /\ Confined(x, y, cfg_tncport(x), cfg_tncport(y), "TELNETPORT")
<1>1. /\ {"ok", "packet"} \subseteq DOMAIN Home /\ Home["ok"] = "ok"
      /\ \A f \in {"packet"} : Home[f] = "TELNETPORT"
  BY DEF Home
<1>2. Confined(x, y, cfg_telnetport(x, val), cfg_telnetport(y, val), "TELNETPORT")
  <2>1. CASE val = Bad
    BY <1>1, <2>1 DEF cfg_telnetport, Fail, Confined, Settings, Frame, Agree
  <2>2. CASE ~(val = Bad)
    BY <1>1, <2>2 DEF cfg_telnetport, Fail, Confined, Settings, Frame, Agree
  <2> QED  BY <2>1, <2>2
<1>3. Confined(x, y, cfg_tncport(x), cfg_tncport(y), "TELNETPORT")
  BY <1>1 DEF cfg_tncport, Confined, Settings, Frame, Agree
<1> QED  BY <1>2, <1>3

\* The bandmap and its filter.
LEMMA ClusterLine ==
    ASSUME NEW x, Settings(x), NEW y, Settings(y), Agree(x, y, "CLUSTER"), NEW val
    PROVE  Confined(x, y, cfg_bandmap(x, val), cfg_bandmap(y, val), "CLUSTER")
<1>1. /\ {"ok", "cluster", "filter"} \subseteq DOMAIN Home /\ Home["ok"] = "ok"
      /\ \A f \in {"cluster", "filter"} : Home[f] = "CLUSTER"
  BY DEF Home
<1>2. Confined(x, y, cfg_bandmap(x, val), cfg_bandmap(y, val), "CLUSTER")
  <2>1. CASE val = Missing
    BY <1>1, <2>1 DEF cfg_bandmap, Fail, Confined, Settings, Frame, Agree
  <2>2. CASE ~(val = Missing)
    BY <1>1, <2>2 DEF cfg_bandmap, Fail, Confined, Settings, Frame, Agree
  <2> QED  BY <2>1, <2>2
<1> QED  BY <1>2

\* The reports offered.
LEMMA ReportLine ==
    ASSUME NEW x, Settings(x), NEW y, Settings(y), Agree(x, y, "CHANGE_RST"), NEW val
    PROVE  Confined(x, y, cfg_change_rst(x, val), cfg_change_rst(y, val), "CHANGE_RST")
<1>1. /\ {"ok", "change_rst", "rst"} \subseteq DOMAIN Home /\ Home["ok"] = "ok"
      /\ \A f \in {"change_rst", "rst"} : Home[f] = "CHANGE_RST"
  BY DEF Home
<1>2. Confined(x, y, cfg_change_rst(x, val), cfg_change_rst(y, val), "CHANGE_RST")
  <2>1. CASE val = Bad
    BY <1>1, <2>1 DEF cfg_change_rst, Fail, Confined, Settings, Frame, Agree
  <2>2. CASE ~(val = Bad)
    BY <1>1, <2>2 DEF cfg_change_rst, Fail, Confined, Settings, Frame, Agree
  <2> QED  BY <2>1, <2>2
<1> QED  BY <1>2

\* Contests in periods.
LEMMA MinitestLine ==
    ASSUME NEW x, Settings(x), NEW y, Settings(y), Agree(x, y, "MINITEST"), NEW val
    PROVE  Confined(x, y, cfg_minitest(x, val), cfg_minitest(y, val), "MINITEST")
<1>1. /\ {"ok", "minitest"} \subseteq DOMAIN Home /\ Home["ok"] = "ok"
      /\ \A f \in {"minitest"} : Home[f] = "MINITEST"
  BY DEF Home
<1>2. Confined(x, y, cfg_minitest(x, val), cfg_minitest(y, val), "MINITEST")
  <2>1. CASE val = Bad
    BY <1>1, <2>1 DEF cfg_minitest, Fail, Confined, Settings, Frame, Agree
  <2>2. CASE ~(val = Bad)
    BY <1>1, <2>2 DEF cfg_minitest, Fail, Confined, Settings, Frame, Agree
  <2> QED  BY <2>1, <2>2
<1> QED  BY <1>2

\* The direction of QTCs.
LEMMA QtcLine ==
    ASSUME NEW x, Settings(x), NEW y, Settings(y), Agree(x, y, "QTC"), NEW val
    PROVE  Confined(x, y, cfg_qtc(x, val), cfg_qtc(y, val), "QTC")
<1>1. /\ {"ok", "qtc"} \subseteq DOMAIN Home /\ Home["ok"] = "ok"
      /\ \A f \in {"qtc"} : Home[f] = "QTC"
  BY DEF Home
<1>2. Confined(x, y, cfg_qtc(x, val), cfg_qtc(y, val), "QTC")
  <2>1. CASE val \notin {"RECV", "SEND", "BOTH"}
    BY <1>1, <2>1 DEF cfg_qtc, Fail, Confined, Settings, Frame, Agree
  <2>2. CASE ~(val \notin {"RECV", "SEND", "BOTH"})
    BY <1>1, <2>2 DEF cfg_qtc, Fail, Confined, Settings, Frame, Agree
  <2> QED  BY <2>1, <2>2
<1> QED  BY <1>2

\* The fields of the Cabrillo header, from lines and from a template.
LEMMA FieldLines ==
    ASSUME NEW x, Settings(x), NEW y, Settings(y), Agree(x, y, "CABRILLO-FIELD"),
           NEW field, NEW val
    PROVE  /\ Confined(x, y, cfg_cabrillo_field(x, field, val),
                       cfg_cabrillo_field(y, field, val), "CABRILLO-FIELD")
           /\ Confined(x, y, cfg_cabrillo_template(x, val),
                       cfg_cabrillo_template(y, val), "CABRILLO-FIELD")
<1>1. /\ {"ok", "cab", "cabrillo"} \subseteq DOMAIN Home /\ Home["ok"] = "ok"
      /\ Home["cab"] = "CABRILLO-FIELD" /\ Home["cabrillo"] = "CABRILLO-FIELD"
  BY DEF Home
<1>2. HeaderOf(x) = HeaderOf(y)
  <2>1. x["cab"] = y["cab"] /\ x["cabrillo"] = y["cabrillo"]
    BY <1>1 DEF Agree
  <2> QED  BY <2>1 DEF HeaderOf
<1>3. ASSUME NEW r
      PROVE  Confined(x, y, With(x, r), With(y, r), "CABRILLO-FIELD")
  BY <1>1 DEF With, Confined, Settings, Frame, Agree
<1>4. Confined(x, y, cfg_cabrillo_field(x, field, val), cfg_cabrillo_field(y, field, val),
               "CABRILLO-FIELD")
  BY <1>2, <1>3 DEF cfg_cabrillo_field
<1>5. Confined(x, y, cfg_cabrillo_template(x, val), cfg_cabrillo_template(y, val),
               "CABRILLO-FIELD")
  BY <1>2, <1>3 DEF cfg_cabrillo_template
<1> QED  BY <1>4, <1>5

\* A line that is not refused changes the settings of its topic only, and reads
\* no others: handler by handler of the table of parse_logcfg().
LEMMA LineConfined ==
    ASSUME NEW x, Settings(x), NEW y, Settings(y), NEW l, ~Refused(l),
           NEW t, t = Topic(l.key), Agree(x, y, t)
    PROVE  Confined(x, y, Handled(x, l), Handled(y, l), t)
<1> DEFINE k == l.key
           v == l.val
<1>1. k \in Keywords
  BY DEF Refused
<1>2. CASE k \in DOMAIN Flags
  <2>1. Handled(x, l) = cfg_bool(x, Flags[k], v) /\ Handled(y, l) = cfg_bool(y, Flags[k], v)
    BY <1>2 DEF Handled, Flags, Texts, Selections
  <2>2. Flags[k] \in DOMAIN Home /\ Home[Flags[k]] = t
    <3>1. t = IF k \in {"CONTEST_MODE", "SCOREWINDOW", "CHECKWINDOW", "LEADING_ZEROS_SERIAL"} THEN "CONTEST"
              ELSE k
      BY <1>2, TopicsAre DEF Flags, Topics
    <3> QED  BY <1>2, <3>1 DEF Flags, Home
  <2> QED  BY <2>1, <2>2, OneSetting
<1>3. CASE k \in DOMAIN Texts
  <2>1. Handled(x, l) = cfg_string(x, Texts[k], v) /\ Handled(y, l) = cfg_string(y, Texts[k], v)
    BY <1>3 DEF Handled, Flags, Texts, Selections
  <2>2. Texts[k] \in DOMAIN Home /\ Home[Texts[k]] = t
    <3>1. t = CASE k = "CABRILLO" -> "CABRILLO-FIELD"
                [] k = "DIGITAL_MODE" -> "NETKEYER"
                [] OTHER -> k
      BY <1>3, TopicsAre DEF Texts, Topics
    <3> QED  BY <1>3, <3>1 DEF Texts, Home
  <2> QED  BY <2>1, <2>2, OneSetting
<1>4. CASE k \in DOMAIN Selections
  <2>1. /\ Handled(x, l) = cfg_int_const(x, Selections[k][1], Selections[k][2])
        /\ Handled(y, l) = cfg_int_const(y, Selections[k][1], Selections[k][2])
    BY <1>4 DEF Handled, Flags, Texts, Selections
  <2>2. Selections[k][1] \in DOMAIN Home /\ Home[Selections[k][1]] = t
    <3>1. /\ k \in {"NETKEYER", "HAMLIB_KEYER", "SSBMODE"} => t = "NETKEYER"
          /\ k = "FIFO_INTERFACE" => t = "TELNETPORT"
          /\ k = "CLUSTER" => t = "CLUSTER"
      BY TopicsAre DEF Topics
    <3> QED  BY <1>4, <3>1 DEF Selections, Home
  <2> QED  BY <2>1, <2>2, OneSetting
<1>5. CASE k \in {"RTTYMODE", "MFJ1278_KEYER", "GMFSK", "FLDIGI"}
  <2>1. t = "NETKEYER"
    BY <1>5, TopicsAre DEF Topics
  <2>2. \A z : /\ k = "RTTYMODE" => Handled(z, l) = cfg_rttymode(z)
               /\ k = "MFJ1278_KEYER" => Handled(z, l) = cfg_mfj1278_keyer(z, v)
               /\ k = "GMFSK" => Handled(z, l) = cfg_gmfsk(z, v)
               /\ k = "FLDIGI" => Handled(z, l) = cfg_fldigi(z, v)
    BY DEF Handled, Flags, Texts, Selections
  <2> HIDE DEF k, v
  <2> QED  BY <1>5, <2>1, <2>2, KeyerLines
<1>6. CASE k \in {"ADDNODE", "NODE_X", "THISNODE"}
  <2>1. t = "ADDNODE"
    BY <1>6, TopicsAre DEF Topics
  <2>2. \A z : /\ k = "ADDNODE" => Handled(z, l) = cfg_addnode(z, v)
               /\ k = "NODE_X" => Handled(z, l) = cfg_node_x(z, l.node, v)
               /\ k = "THISNODE" => Handled(z, l) = cfg_thisnode(z, l.node)
    BY DEF Handled, Flags, Texts, Selections
  <2> HIDE DEF k, v
  <2> QED  BY <1>6, <2>1, <2>2, NodeLines
<1>7. CASE k \in {"CONTEST", "RECALL_MULTS", "ONE_POINT", "TWO_POINTS", "MULT_LIST"}
  <2>1. t = "CONTEST"
    BY <1>7, TopicsAre DEF Topics
  <2>2. \A z : /\ k = "CONTEST" => Handled(z, l) = cfg_contest(z, v)
               /\ k = "RECALL_MULTS" => Handled(z, l) = cfg_contest_bool(z, v)
               /\ k = "ONE_POINT" => Handled(z, l) = cfg_n_points(z, "1")
               /\ k = "TWO_POINTS" => Handled(z, l) = cfg_n_points(z, "2")
               /\ k = "MULT_LIST" => Handled(z, l) = cfg_mult_list(z, v)
    <3>1. \A z : k = "CONTEST" => Handled(z, l) = cfg_contest(z, v)
      BY DEF Handled, Flags, Texts, Selections
    <3>2. \A z : k = "RECALL_MULTS" => Handled(z, l) = cfg_contest_bool(z, v)
      BY DEF Handled, Flags, Texts, Selections
    <3>3. \A z : k = "ONE_POINT" => Handled(z, l) = cfg_n_points(z, "1")
      BY DEF Handled, Flags, Texts, Selections
    <3>4. \A z : k = "TWO_POINTS" => Handled(z, l) = cfg_n_points(z, "2")
      BY DEF Handled, Flags, Texts, Selections
    <3>5. \A z : k = "MULT_LIST" => Handled(z, l) = cfg_mult_list(z, v)
      BY DEF Handled, Flags, Texts, Selections
    <3> QED  BY <3>1, <3>2, <3>3, <3>4, <3>5
  <2> HIDE DEF k, v
  <2> QED  BY <1>7, <2>1, <2>2, ContestLines
<1>8. CASE k \in {"DX_&_SECTIONS", "COUNTRYLIST", "PFX_NUM_MULTIS", "CONTINENTLIST",
                  "EXCLUDE_MULTILIST", "SECTION_MULT"}
  <2>1. t = "CONTEST"
    BY <1>8, TopicsAre DEF Topics
  <2>2. \A z : /\ k = "DX_&_SECTIONS" => Handled(z, l) = cfg_dx_n_sections(z)
               /\ k = "COUNTRYLIST" => Handled(z, l) = cfg_countrylist(z, v)
               /\ k = "PFX_NUM_MULTIS" => Handled(z, l) = cfg_pfx_num_multis(z, v)
               /\ k = "CONTINENTLIST" => Handled(z, l) = cfg_continentlist(z, v)
               /\ k = "EXCLUDE_MULTILIST" => Handled(z, l) = cfg_exclude_multilist(z, v)
               /\ k = "SECTION_MULT" => Handled(z, l) = cfg_section_mult(z, v)
    <3>1. \A z : k = "DX_&_SECTIONS" => Handled(z, l) = cfg_dx_n_sections(z)
      BY DEF Handled, Flags, Texts, Selections
    <3>2. \A z : k = "COUNTRYLIST" => Handled(z, l) = cfg_countrylist(z, v)
      BY DEF Handled, Flags, Texts, Selections
    <3>3. \A z : k = "PFX_NUM_MULTIS" => Handled(z, l) = cfg_pfx_num_multis(z, v)
      BY DEF Handled, Flags, Texts, Selections
    <3>4. \A z : k = "CONTINENTLIST" => Handled(z, l) = cfg_continentlist(z, v)
      BY DEF Handled, Flags, Texts, Selections
    <3>5. \A z : k = "EXCLUDE_MULTILIST" => Handled(z, l) = cfg_exclude_multilist(z, v)
      BY DEF Handled, Flags, Texts, Selections
    <3>6. \A z : k = "SECTION_MULT" => Handled(z, l) = cfg_section_mult(z, v)
      BY DEF Handled, Flags, Texts, Selections
    <3> QED  BY <3>1, <3>2, <3>3, <3>4, <3>5, <3>6
  <2> HIDE DEF k, v
  <2> QED  BY <1>8, <2>1, <2>2, ContestLines
<1>9. CASE k \in {"CALL", "MYQRA", "POWERMULT", "BANDWEIGHT_POINTS", "CHANGE_RST",
                  "MINITEST", "QTC"}
  <2>1. t = k
    BY <1>9, TopicsAre DEF Topics
  <2>2. \A z : /\ k = "CALL" => Handled(z, l) = cfg_call(z, v)
               /\ k = "MYQRA" => Handled(z, l) = cfg_myqra(z, v)
               /\ k = "POWERMULT" => Handled(z, l) = cfg_powermult(z, v)
               /\ k = "BANDWEIGHT_POINTS" => Handled(z, l) = cfg_bandweight(z, v)
               /\ k = "CHANGE_RST" => Handled(z, l) = cfg_change_rst(z, v)
               /\ k = "MINITEST" => Handled(z, l) = cfg_minitest(z, v)
               /\ k = "QTC" => Handled(z, l) = cfg_qtc(z, v)
    <3>1. \A z : k = "CALL" => Handled(z, l) = cfg_call(z, v)
      BY DEF Handled, Flags, Texts, Selections
    <3>2. \A z : k = "MYQRA" => Handled(z, l) = cfg_myqra(z, v)
      BY DEF Handled, Flags, Texts, Selections
    <3>3. \A z : k = "POWERMULT" => Handled(z, l) = cfg_powermult(z, v)
      BY DEF Handled, Flags, Texts, Selections
    <3>4. \A z : k = "BANDWEIGHT_POINTS" => Handled(z, l) = cfg_bandweight(z, v)
      BY DEF Handled, Flags, Texts, Selections
    <3>5. \A z : k = "CHANGE_RST" => Handled(z, l) = cfg_change_rst(z, v)
      BY DEF Handled, Flags, Texts, Selections
    <3>6. \A z : k = "MINITEST" => Handled(z, l) = cfg_minitest(z, v)
      BY DEF Handled, Flags, Texts, Selections
    <3>7. \A z : k = "QTC" => Handled(z, l) = cfg_qtc(z, v)
      BY DEF Handled, Flags, Texts, Selections
    <3> QED  BY <3>1, <3>2, <3>3, <3>4, <3>5, <3>6, <3>7
  <2> HIDE DEF k, v
  <2> QED
    BY <1>9, <2>1, <2>2, CallLine, LocatorLine, PowerLine, WeightLine, ReportLine,
       MinitestLine, QtcLine
<1>10. CASE k \in {"BAND_X", "TELNETPORT", "TNCPORT", "BANDMAP", "CABRILLO-FIELD",
                   "CABRILLO-TEMPLATE"}
  <2>1. t = CASE k = "BAND_X" -> k
              [] k \in {"TELNETPORT", "TNCPORT"} -> "TELNETPORT"
              [] k = "BANDMAP" -> "CLUSTER"
              [] OTHER -> "CABRILLO-FIELD"
    BY <1>10, TopicsAre DEF Topics
  <2>2. \A z : /\ k = "BAND_X" => Handled(z, l) = cfg_band(z, v)
               /\ k = "TELNETPORT" => Handled(z, l) = cfg_telnetport(z, v)
               /\ k = "TNCPORT" => Handled(z, l) = cfg_tncport(z)
               /\ k = "BANDMAP" => Handled(z, l) = cfg_bandmap(z, v)
               /\ k = "CABRILLO-FIELD" => Handled(z, l) = cfg_cabrillo_field(z, l.field, v)
               /\ k = "CABRILLO-TEMPLATE" => Handled(z, l) = cfg_cabrillo_template(z, l.template)
    <3>1. \A z : k = "BAND_X" => Handled(z, l) = cfg_band(z, v)
      BY DEF Handled, Flags, Texts, Selections
    <3>2. \A z : k = "TELNETPORT" => Handled(z, l) = cfg_telnetport(z, v)
      BY DEF Handled, Flags, Texts, Selections
    <3>3. \A z : k = "TNCPORT" => Handled(z, l) = cfg_tncport(z)
      BY DEF Handled, Flags, Texts, Selections
    <3>4. \A z : k = "BANDMAP" => Handled(z, l) = cfg_bandmap(z, v)
      BY DEF Handled, Flags, Texts, Selections
    <3>5. \A z : k = "CABRILLO-FIELD" => Handled(z, l) = cfg_cabrillo_field(z, l.field, v)
      BY DEF Handled, Flags, Texts, Selections
    <3>6. \A z : k = "CABRILLO-TEMPLATE" => Handled(z, l) = cfg_cabrillo_template(z, l.template)
      BY DEF Handled, Flags, Texts, Selections
    <3> QED  BY <3>1, <3>2, <3>3, <3>4, <3>5, <3>6
  <2>3. "corners" \in DOMAIN Home /\ Home["corners"] = "BAND_X"
    BY DEF Home
  <2> HIDE DEF k, v
  <2>4. CASE k = "BAND_X"
    BY <2>1, <2>2, <2>3, <2>4, OneSetting DEF cfg_band
  <2>5. CASE k # "BAND_X"
    BY <1>10, <2>1, <2>2, <2>5, PacketLines, ClusterLine, FieldLines
  <2> QED  BY <2>4, <2>5
<1>11. \/ k \in DOMAIN Flags \cup DOMAIN Texts \cup DOMAIN Selections
       \/ k \in {"RTTYMODE", "MFJ1278_KEYER", "GMFSK", "FLDIGI"}
       \/ k \in {"ADDNODE", "NODE_X", "THISNODE"}
       \/ k \in {"CONTEST", "RECALL_MULTS", "ONE_POINT", "TWO_POINTS", "MULT_LIST"}
       \/ k \in {"DX_&_SECTIONS", "COUNTRYLIST", "PFX_NUM_MULTIS", "CONTINENTLIST",
                 "EXCLUDE_MULTILIST", "SECTION_MULT"}
       \/ k \in {"CALL", "MYQRA", "POWERMULT", "BANDWEIGHT_POINTS", "CHANGE_RST",
                 "MINITEST", "QTC"}
       \/ k \in {"BAND_X", "TELNETPORT", "TNCPORT", "BANDMAP", "CABRILLO-FIELD",
                 "CABRILLO-TEMPLATE"}
  BY <1>1 DEF Keywords, NoParam, Optional
<1> QED  BY <1>2, <1>3, <1>4, <1>5, <1>6, <1>7, <1>8, <1>9, <1>10, <1>11

\* Two lines that are not about the same have different topics.
LEMMA TopicsDiffer ==
    ASSUME NEW a, NEW b, ~Refused(a), ~Refused(b), ~SameTopic(a, b)
    PROVE  Topic(a.key) # Topic(b.key) /\ Topic(a.key) # "ok" /\ Topic(b.key) # "ok"
<1>1. a.key \in Keywords /\ b.key \in Keywords
  BY DEF Refused
<1>2. \A i \in 1..6 : Names[i] \in Topics[i] /\ Names[i] # "ok"
  BY DEF Names, Topics
<1>3. \A k : \/ \E i \in 1..6 : k \in Topics[i] /\ Topic(k) = Names[i]
             \/ (\A i \in 1..6 : k \notin Topics[i]) /\ Topic(k) = k
  <2> TAKE k
  <2>1. CASE \E i \in 1..6 : k \in Topics[i]
    <3>1. PICK i \in 1..6 : k \in Topics[i]
      BY <2>1
    <3>2. Topic(k) = Names[i]
      BY <3>1, TopicsAre DEF Names
    <3> QED  BY <3>1, <3>2
  <2>2. CASE \A i \in 1..6 : k \notin Topics[i]
    BY <2>2, TopicsAre
  <2> QED  BY <2>1, <2>2
<1>4. a.key # b.key /\ \A i \in 1..6 : ~(a.key \in Topics[i] /\ b.key \in Topics[i])
  BY TopicsAre DEF SameTopic
<1>5. \A i, j \in 1..6 : Names[i] = Names[j] => i = j
  BY DEF Names
<1>6. "ok" \notin Keywords
  BY DEF Keywords, NoParam, Optional, Flags, Texts, Selections
<1> QED  BY <1>1, <1>2, <1>3, <1>4, <1>5, <1>6

\* So the second line does with the first one before it what it does without.
LEMMA Undisturbed ==
    ASSUME NEW x, Settings(x), x.ok, NEW a, ~Refused(a), Handled(x, a).ok,
           NEW b, ~Refused(b), ~SameTopic(a, b)
    PROVE  /\ Frame(x, Handled(x, a), Topic(a.key)) /\ Settings(Handled(x, a))
           /\ Agree(Handled(x, b), Handled(Handled(x, a), b), Topic(b.key))
           /\ Frame(Handled(x, a), Handled(Handled(x, a), b), Topic(b.key))
           /\ Settings(Handled(Handled(x, a), b))
<1> DEFINE ta == Topic(a.key)
           tb == Topic(b.key)
           xa == Handled(x, a)
           xb == Handled(x, b)
           xab == Handled(xa, b)
<1>1. ta # tb /\ ta # "ok" /\ tb # "ok"
  BY TopicsDiffer
<1>2. \A f \in DOMAIN Home : Home[f] = "ok" => f = "ok"
  BY DEF Home
<1>3. Confined(x, x, xa, xa, ta)
  <2>1. Agree(x, x, ta)
    BY DEF Agree
  <2> QED  BY <2>1, LineConfined
<1> HIDE DEF ta, tb
<1>4. Agree(x, xa, tb)
  <2>0. x.ok = TRUE /\ xa.ok = TRUE
    <3>1. x.ok
      OBVIOUS
    <3>2. xa.ok
      OBVIOUS
    <3>3. x.ok \in BOOLEAN /\ xa.ok \in BOOLEAN
      BY <3>1, <3>2
    <3> QED  BY <3>1, <3>2
  <2> HIDE DEF xa
  <2>1. x["ok"] = xa["ok"]
    BY <2>0
  <2> QED  BY <1>1, <1>2, <1>3, <2>1 DEF Agree, Confined, Frame
<1> HIDE DEF xa
<1>5. Confined(x, xa, xb, xab, tb)
  BY <1>3, <1>4, LineConfined DEF Confined, tb
<1>6. Confined(xa, xa, xab, xab, tb)
  <2>1. Agree(xa, xa, tb)
    BY DEF Agree
  <2> QED  BY <1>3, <2>1, LineConfined DEF Confined, tb
<1> HIDE DEF xb, xab
<1> QED  BY <1>3, <1>5, <1>6 DEF Confined, ta, tb, xa, xb, xab

\* Two lines that are both accepted, and are not about the same, commute.
LEMMA Commute ==
    ASSUME NEW x, Settings(x), x.ok, NEW a, NEW b, Apply(x, a).ok, Apply(x, b).ok,
           ~SameTopic(a, b)
    PROVE  Apply(Apply(x, a), b) = Apply(Apply(x, b), a)
<1>1. ASSUME NEW l, Apply(x, l).ok
      PROVE  ~Refused(l) /\ \A z : Apply(z, l) = Handled(z, l)
  <2>1. ~Refused(l)
    <3>1. "ok" \in DOMAIN x
      BY DEF Settings, Home
    <3>2. Refused(l) => Apply(x, l).ok = FALSE
      BY <3>1 DEF Apply, Fail
    <3> QED  BY <1>1, <3>2
  <2> QED  BY <2>1 DEF Apply
<1> DEFINE ta == Topic(a.key)
           tb == Topic(b.key)
           xa == Handled(x, a)
           xb == Handled(x, b)
           xab == Handled(xa, b)
           xba == Handled(xb, a)
<1>2. ~Refused(a) /\ ~Refused(b) /\ xa.ok /\ xb.ok
  BY <1>1
<1>3. /\ Frame(x, xa, ta) /\ Agree(xb, xab, tb) /\ Frame(xa, xab, tb) /\ Settings(xab)
      /\ Frame(x, xb, tb) /\ Agree(xa, xba, ta) /\ Frame(xb, xba, ta) /\ Settings(xba)
  <2>1. ~SameTopic(b, a)
    BY DEF SameTopic
  <2> QED  BY <1>2, <2>1, Undisturbed
<1>4. ta # tb /\ ta # "ok" /\ tb # "ok"
  BY <1>2, TopicsDiffer
<1>5. \A f \in DOMAIN Home : Home[f] = "ok" => f = "ok"
  BY DEF Home
<1> HIDE DEF ta, tb, xa, xb, xab, xba
<1>8. xa["ok"] = xb["ok"]
  <2>1. xa.ok = TRUE
    BY <1>2
  <2>2. xb.ok = TRUE
    BY <1>2
  <2> QED  BY <2>1, <2>2
<1> HIDE DEF ta, tb, xa, xb, xab, xba
<1>6. \A f \in DOMAIN Home : xab[f] = xba[f]
  BY <1>3, <1>4, <1>5, <1>8 DEF Frame, Agree
<1>7. xab = xba
  BY <1>3, <1>6 DEF Settings
<1> QED  BY <1>1, <1>7 DEF xa, xb, xab, xba

\* While the file is read the settings are complete, and no line has failed.
ReadingInv == stage = "logcfg" => Settings(s) /\ s.ok

LEMMA InitReading == ConfigInit => ReadingInv
<1>1. Settings(Defaults)
  BY HomeIs DEF Settings, Defaults
<1>2. Defaults.ok = TRUE
  BY DEF Defaults
<1>3. ConfigInit => s = Defaults
  BY DEF ConfigInit
<1> HIDE DEF Defaults
<1> QED  BY <1>1, <1>2, <1>3 DEF ReadingInv

LEMMA NextReading == ReadingInv /\ [ConfigNext]_configVars => ReadingInv'
<1> SUFFICES ASSUME ReadingInv, [ConfigNext]_configVars, stage' = "logcfg"
             PROVE  Settings(s') /\ s'.ok
  BY DEF ReadingInv, Settings
<1>1. CASE ReadLine
  <2>1. PICK l \in start.lines : s' = Apply(s, l)
    BY <1>1 DEF ReadLine
  <2>2. s'.ok /\ Settings(s) /\ s.ok
    BY <1>1 DEF ReadLine, ReadingInv
  <2>3. CASE Refused(l)
    BY <2>1, <2>2, <2>3 DEF Apply, Fail, Settings
  <2>4. CASE ~Refused(l)
    <3>1. Agree(s, s, Topic(l.key))
      BY DEF Agree
    <3> QED  BY <2>1, <2>2, <2>4, <3>1, LineConfined DEF Apply, Confined
  <2> QED  BY <2>3, <2>4
<1>2. CASE EndOfConfig \/ CheckDatabases \/ InitDevices \/ RereadConfig \/ GoOn \/ WriteHeader
  BY <1>2 DEF EndOfConfig, CheckDatabases, InitDevices, RereadConfig, GoOn, WriteHeader
<1>3. CASE UNCHANGED configVars
  BY <1>3 DEF configVars, ReadingInv
<1> QED  BY <1>1, <1>2, <1>3 DEF ConfigNext

\* The order of lines about different things in logcfg.dat does not matter, from
\* any settings that lines before them can have made, with any rules files and
\* any number of nodes.
THEOREM AnyOrder == ConfigSpec => []OrderFree
<1>1. ReadingInv => OrderFree
  <2> SUFFICES ASSUME ReadingInv, stage = "logcfg",
                      NEW a \in start.lines, NEW b \in start.lines,
                      Apply(s, a).ok, Apply(s, b).ok, ~SameTopic(a, b)
               PROVE  Apply(Apply(s, a), b) = Apply(Apply(s, b), a)
    BY DEF OrderFree
  <2> QED  BY Commute DEF ReadingInv
<1> QED  BY <1>1, InitReading, NextReading, PTL DEF ConfigSpec
-----------------------------------------------------------------------------
(* The header fields.                                                      *)

\* What AddField() makes of a value that is neither missing nor a hint.
Meaning(v) == [value |-> IF v = Dash THEN NoValue ELSE v, hint |-> FALSE, disabled |-> v = Dash]

HasFields(cab) == cab = [f \in Fields |-> cab[f]]

\* A value goes into the field it is about, and into no other.
LEMMA FieldAdded ==
    ASSUME NEW cab, HasFields(cab), NEW f, NEW v
    PROVE  /\ HasFields(AddField(cab, f, v))
           /\ \A g \in Fields : g # f => AddField(cab, f, v)[g] = cab[g]
           /\ f \in Fields /\ v \notin {NoValue, Hint} => AddField(cab, f, v)[f] = Meaning(v)
<1> DEFINE new == IF v = NoValue THEN [cab[f] EXCEPT !.value = NoValue, !.disabled = FALSE]
                  ELSE [value |-> IF v = Dash THEN NoValue ELSE v,
                        hint |-> v = Hint, disabled |-> v = Dash]
<1>1. AddField(cab, f, v) = [cab EXCEPT ![f] = new]
  BY DEF AddField
<1>2. v \notin {NoValue, Hint} => new = Meaning(v)
  <2> SUFFICES ASSUME v # NoValue, v # Hint PROVE new = Meaning(v)
    OBVIOUS
  <2>1. (v = Hint) = FALSE
    OBVIOUS
  <2> QED  BY <2>1 DEF Meaning
<1> HIDE DEF new
<1> QED  BY <1>1, <1>2 DEF HasFields

\* A header as it is after an entry: fields, format, and if the entry was known.
IsHeader(r) == r = [fields |-> r.fields, format |-> r.format, ok |-> r.ok] /\ HasFields(r.fields)

\* An entry of a line or of a template; one about the format is none of a field.
LEMMA EntryAdded ==
    ASSUME NEW r, IsHeader(r), NEW f, NEW v
    PROVE  LET r1 == AddCabrilloField(r, f, v) IN
           /\ IsHeader(r1)
           /\ \A g \in Fields : g # f => r1.fields[g] = r.fields[g]
           /\ r1.ok /\ f \in Fields /\ v \notin {NoValue, Hint} => r1.fields[f] = Meaning(v)
           /\ r1.ok => r.ok
<1> DEFINE r1 == AddCabrilloField(r, f, v)
<1>1. QsoFormat \notin Fields
  BY DEF QsoFormat, Fields
<1>2. CASE f = QsoFormat
  <2>1. r1 = [r EXCEPT !.format = v]
    BY <1>2 DEF AddCabrilloField
  <2>2. r1 = [fields |-> r.fields, format |-> v, ok |-> r.ok]
    BY <2>1 DEF IsHeader
  <2> HIDE DEF r1
  <2>3. r1.fields = r.fields /\ r1.format = v /\ r1.ok = r.ok
    BY <2>2
  <2>4. IsHeader(r1)
    BY <2>2, <2>3 DEF IsHeader
  <2> QED  BY <1>1, <1>2, <2>3, <2>4 DEF r1
<1>3. CASE f # QsoFormat /\ f \in Fields
  <2> DEFINE cab == AddField(r.fields, f, v)
  <2>1. r1 = [r EXCEPT !.fields = cab]
    BY <1>3 DEF AddCabrilloField
  <2>2. /\ HasFields(cab) /\ \A g \in Fields : g # f => cab[g] = r.fields[g]
        /\ v \notin {NoValue, Hint} => cab[f] = Meaning(v)
    BY <1>3, FieldAdded DEF IsHeader
  <2> HIDE DEF cab
  <2>3. r1 = [fields |-> cab, format |-> r.format, ok |-> r.ok]
    BY <2>1 DEF IsHeader
  <2> HIDE DEF r1
  <2>4. r1.fields = cab /\ r1.format = r.format /\ r1.ok = r.ok
    BY <2>3
  <2>5. IsHeader(r1)
    BY <2>2, <2>3, <2>4 DEF IsHeader
  <2> QED  BY <2>2, <2>4, <2>5 DEF r1
<1>4. CASE f # QsoFormat /\ f \notin Fields
  <2>1. r1 = [r EXCEPT !.ok = FALSE]
    BY <1>4 DEF AddCabrilloField
  <2>2. r1 = [fields |-> r.fields, format |-> r.format, ok |-> FALSE]
    BY <2>1 DEF IsHeader
  <2> HIDE DEF r1
  <2>3. r1.fields = r.fields /\ r1.format = r.format /\ r1.ok = FALSE
    BY <2>2
  <2>4. IsHeader(r1)
    BY <2>2, <2>3 DEF IsHeader
  <2> QED  BY <2>3, <2>4 DEF r1
<1> QED  BY <1>2, <1>3, <1>4

\* f[n] is what n lines of a template make of the header r.
TemplateSteps(f, r, list, n) ==
    f = [k \in 0 .. n |-> IF k = 0 THEN r ELSE TemplateLine(f[k - 1], list[k])]

LEMMA TemplateExists ==
    ASSUME NEW r, NEW list, NEW n \in Nat
    PROVE  \E f : TemplateSteps(f, r, list, n)
<1> DEFINE S == {k \in Nat : \E f : TemplateSteps(f, r, list, k)}
<1>1. 0 \in S
  <2>1. TemplateSteps([k \in 0 .. 0 |-> r], r, list, 0)
    BY DEF TemplateSteps
  <2> QED  BY <2>1
<1>2. ASSUME NEW k \in Nat, k \in S
      PROVE  k + 1 \in S
  <2>1. PICK f : TemplateSteps(f, r, list, k)
    BY <1>2
  <2> DEFINE last == TemplateLine(f[k], list[k + 1])
             g == [i \in 0 .. k + 1 |-> IF i = k + 1 THEN last ELSE f[i]]
  <2> HIDE DEF last
  <2>2. \A i \in 0 .. k : g[i] = f[i]
    OBVIOUS
  <2>3. \A i \in 0 .. k + 1 : g[i] = IF i = 0 THEN r
                                     ELSE TemplateLine(g[i - 1], list[i])
    <3> TAKE i \in 0 .. k + 1
    <3>1. CASE i = k + 1
      BY <2>2, <3>1 DEF last
    <3>2. CASE i \in 0 .. k
      <4>1. i # 0 => i - 1 \in 0 .. k
        BY <3>2
      <4>2. f[i] = IF i = 0 THEN r ELSE TemplateLine(f[i - 1], list[i])
        BY <2>1, <3>2 DEF TemplateSteps
      <4> HIDE DEF g
      <4> QED  BY <2>2, <3>2, <4>1, <4>2
    <3> QED  BY <3>1, <3>2
  <2>4. TemplateSteps(g, r, list, k + 1)
    BY <2>3 DEF TemplateSteps
  <2> HIDE DEF g
  <2> QED  BY <2>4
<1> HIDE DEF S
<1>3. Nat \subseteq S
  BY <1>1, <1>2, SetInduction
<1> QED  BY <1>3 DEF S

LEMMA TemplateIs ==
    ASSUME NEW r, NEW list, Len(list) \in Nat
    PROVE  \E f : TemplateSteps(f, r, list, Len(list)) /\ ReadTemplate(r, list) = f[Len(list)]
<1>1. \E f : TemplateSteps(f, r, list, Len(list))
  BY TemplateExists
<1> DEFINE read == CHOOSE f : TemplateSteps(f, r, list, Len(list))
<1>2. TemplateSteps(read, r, list, Len(list))
  BY <1>1
<1>3. ReadTemplate(r, list) = read[Len(list)]
  BY DEF ReadTemplate, TemplateSteps
<1> HIDE DEF read
<1> QED  BY <1>2, <1>3

\* The k-th of the first n entries is the last one about field f, and has a value.
LastEntry(list, n, f, k) ==
    /\ list[k].field = f /\ list[k].value \notin {NoValue, Hint}
    /\ \A m \in 1 .. n : m > k => list[m].field # f

\* A template without an error sets each field as its last entry about it says.
LEMMA TemplateGiven ==
    ASSUME NEW h, IsHeader(h), NEW list \in Seq([field : STRING, value : STRING])
    PROVE  LET r == ReadTemplate(h, list) IN
           /\ IsHeader(r)
           /\ r.ok => \A f \in Fields \ Written :
                 /\ (\A k \in DOMAIN list : list[k].field # f) => r.fields[f] = h.fields[f]
                 /\ \A k \in DOMAIN list :
                       LastEntry(list, Len(list), f, k) => r.fields[f] = Meaning(list[k].value)
<1>1. Len(list) \in Nat /\ DOMAIN list = 1 .. Len(list)
  OBVIOUS
<1>2. PICK read : TemplateSteps(read, h, list, Len(list)) /\ ReadTemplate(h, list) = read[Len(list)]
  BY <1>1, TemplateIs
<1> DEFINE Good(n) ==
        LET r == read[n] IN
        /\ IsHeader(r)
        /\ r.ok => \A f \in Fields \ Written :
              /\ (\A k \in 1 .. n : list[k].field # f) => r.fields[f] = h.fields[f]
              /\ \A k \in 1 .. n : LastEntry(list, n, f, k) => r.fields[f] = Meaning(list[k].value)
           S == {n \in Nat : n <= Len(list) => Good(n)}
<1>3. 0 \in S
  <2>1. read[0] = h
    BY <1>1, <1>2 DEF TemplateSteps
  <2> QED  BY <2>1
<1>4. ASSUME NEW n \in Nat, n \in S
      PROVE  n + 1 \in S
  <2> SUFFICES ASSUME n + 1 <= Len(list) PROVE Good(n + 1)
    OBVIOUS
  <2> DEFINE r == read[n]
             r1 == read[n + 1]
             e == list[n + 1]
  <2>1. Good(n)
    BY <1>1, <1>4
  <2>2. r1 = TemplateLine(r, e)
    <3>1. n + 1 \in 0 .. Len(list) /\ n + 1 # 0 /\ (n + 1) - 1 = n
      BY <1>1
    <3> QED  BY <1>2, <3>1 DEF TemplateSteps
  <2> HIDE DEF r, r1, e
  <2>3. IsHeader(r)
    BY <2>1 DEF r
  <2>4. ASSUME r.ok, NEW f \in Fields \ Written
        PROVE  /\ (\A k \in 1 .. n : list[k].field # f) => r.fields[f] = h.fields[f]
               /\ \A k \in 1 .. n : LastEntry(list, n, f, k) => r.fields[f] = Meaning(list[k].value)
    BY <2>1, <2>4 DEF r
  <2>5. 1 .. n + 1 = 1 .. n \cup {n + 1}
    OBVIOUS
  <2>6. \A f, k : k \in 1 .. n /\ LastEntry(list, n + 1, f, k) => LastEntry(list, n, f, k) /\ e.field # f
    BY <2>5 DEF LastEntry, e
  <2>7. CASE ~r.ok
    <3>1. r1 = r
      BY <2>2, <2>7 DEF TemplateLine
    <3> QED  BY <2>3, <2>7, <3>1 DEF r1
  <2>8. CASE r.ok /\ Skipped(e)
    <3>1. r1 = r
      BY <2>2, <2>8 DEF TemplateLine
    <3>2. e.field \notin Fields \ Written
      BY <2>8 DEF Skipped, Written
    <3>3. ASSUME NEW f \in Fields \ Written
          PROVE  /\ (\A k \in 1 .. n + 1 : list[k].field # f) => r.fields[f] = h.fields[f]
                 /\ \A k \in 1 .. n + 1 :
                       LastEntry(list, n + 1, f, k) => r.fields[f] = Meaning(list[k].value)
      <4>1. (\A k \in 1 .. n + 1 : list[k].field # f) => r.fields[f] = h.fields[f]
        BY <2>4, <2>5, <2>8
      <4>2. ASSUME NEW k \in 1 .. n + 1, LastEntry(list, n + 1, f, k)
            PROVE  r.fields[f] = Meaning(list[k].value)
        <5>1. k # n + 1
          BY <3>2, <4>2 DEF LastEntry, e
        <5>2. k \in 1 .. n
          BY <2>5, <5>1
        <5> QED  BY <2>4, <2>6, <2>8, <4>2, <5>2
      <4> QED  BY <4>1, <4>2
    <3> QED  BY <2>3, <3>1, <3>3 DEF r1
  <2>9. CASE r.ok /\ ~Skipped(e)
    <3>1. r1 = AddCabrilloField(r, e.field, e.value)
      BY <2>2, <2>9 DEF TemplateLine
    <3>2. /\ IsHeader(r1) /\ \A g \in Fields : g # e.field => r1.fields[g] = r.fields[g]
          /\ r1.ok /\ e.field \in Fields /\ e.value \notin {NoValue, Hint} =>
                r1.fields[e.field] = Meaning(e.value)
      BY <2>3, <3>1, EntryAdded
    <3>4. ASSUME r1.ok, NEW f \in Fields \ Written
          PROVE  /\ (\A k \in 1 .. n + 1 : list[k].field # f) => r1.fields[f] = h.fields[f]
                 /\ \A k \in 1 .. n + 1 :
                       LastEntry(list, n + 1, f, k) => r1.fields[f] = Meaning(list[k].value)
      <4>1. (\A k \in 1 .. n + 1 : list[k].field # f) => r1.fields[f] = h.fields[f]
        BY <2>4, <2>5, <2>9, <3>2 DEF e
      <4>2. ASSUME NEW k \in 1 .. n + 1, LastEntry(list, n + 1, f, k)
            PROVE  r1.fields[f] = Meaning(list[k].value)
        <5>1. CASE k = n + 1
          BY <3>2, <3>4, <4>2, <5>1 DEF LastEntry, e
        <5>2. CASE k \in 1 .. n
          BY <2>4, <2>6, <2>9, <3>2, <4>2, <5>2
        <5> QED  BY <2>5, <5>1, <5>2
      <4> QED  BY <4>1, <4>2
    <3> QED  BY <3>2, <3>4 DEF r1
  <2> QED  BY <2>7, <2>8, <2>9
<1> HIDE DEF S
<1>5. Len(list) \in S
  BY <1>1, <1>3, <1>4, SetInduction
<1>6. Good(Len(list))
  BY <1>1, <1>5 DEF S
<1> HIDE DEF Good
<1> QED  BY <1>1, <1>2, <1>6 DEF Good

\* A line without an error does the same: confined to its topic, a line about
\* something else leaves the fields as they are.
LEMMA LineGiven ==
    ASSUME NEW x, Settings(x), HasFields(x.cab), NEW l \in ConfigLines
    PROVE  LET y == Apply(x, l) IN
           /\ Settings(y) /\ HasFields(y.cab)
           /\ DOMAIN Values(l) = 1 .. Len(Values(l)) /\ Len(Values(l)) \in Nat
           /\ y.ok => \A f \in Fields \ Written :
                 /\ Silent(l, f) => y.cab[f] = x.cab[f]
                 /\ \A k \in DOMAIN Values(l) :
                       LastEntry(Values(l), Len(Values(l)), f, k) =>
                           y.cab[f] = Meaning(Values(l)[k].value)
<1> DEFINE y == Apply(x, l)
<1>1. {"ok", "cab", "cabrillo"} \subseteq DOMAIN Home /\ Home["cab"] = "CABRILLO-FIELD"
  BY DEF Home
<1>h. /\ IsHeader(HeaderOf(x)) /\ HeaderOf(x).fields = x.cab
      /\ \A r : With(x, r).cab = r.fields /\ With(x, r).ok = r.ok
  BY <1>1 DEF IsHeader, HeaderOf, With, Settings
<1>2. CASE Refused(l)
  <2>1. y = [x EXCEPT !.ok = FALSE]
    BY <1>2 DEF Apply, Fail
  <2>2. Settings(y) /\ y.cab = x.cab /\ y.ok = FALSE
    BY <1>1, <2>1 DEF Settings
  <2>3. DOMAIN Values(l) = 1 .. Len(Values(l)) /\ Len(Values(l)) \in Nat
    <3>1. CASE l.key = "CABRILLO-TEMPLATE"
      BY <3>1, StartsAssumption DEF Values
    <3>2. CASE l.key = "CABRILLO-FIELD"
      BY <3>2 DEF Values
    <3>3. CASE l.key \notin {"CABRILLO-FIELD", "CABRILLO-TEMPLATE"}
      BY <3>3 DEF Values
    <3> QED  BY <3>1, <3>2, <3>3
  <2> HIDE DEF y
  <2> QED  BY <2>2, <2>3 DEF y
<1>3. CASE ~Refused(l)
  <2>1. y = Handled(x, l)
    BY <1>3 DEF Apply
  <2>2. Confined(x, x, y, y, Topic(l.key))
    <3>1. Agree(x, x, Topic(l.key))
      BY DEF Agree
    <3> QED  BY <1>3, <2>1, <3>1, LineConfined
  <2>3. Settings(y)
    BY <2>2 DEF Confined
  <2>4. CASE l.key = "CABRILLO-FIELD"
    <3> DEFINE v == IF l.val = Missing THEN NoValue ELSE l.val
               r == AddCabrilloField(HeaderOf(x), l.field, v)
    <3>1. y = cfg_cabrillo_field(x, l.field, l.val)
      BY <2>1, <2>4 DEF Handled, Flags, Texts, Selections
    <3>2. y.cab = r.fields /\ y.ok = r.ok
      BY <1>h, <3>1 DEF cfg_cabrillo_field
    <3>3. Values(l) = <<[field |-> l.field, value |-> v]>>
      BY <2>4 DEF Values
    <3>4. /\ IsHeader(r)
          /\ \A g \in Fields : g # l.field => r.fields[g] = x.cab[g]
          /\ r.ok /\ l.field \in Fields /\ v \notin {NoValue, Hint} =>
                r.fields[l.field] = Meaning(v)
      BY <1>h, EntryAdded
    <3> HIDE DEF v, r, y
    <3>5. /\ DOMAIN Values(l) = {1} /\ Len(Values(l)) = 1
          /\ Values(l)[1].field = l.field /\ Values(l)[1].value = v
      BY <3>3
    <3>6. ASSUME y.ok, NEW f \in Fields \ Written
          PROVE  /\ Silent(l, f) => y.cab[f] = x.cab[f]
                 /\ \A k \in DOMAIN Values(l) :
                       LastEntry(Values(l), Len(Values(l)), f, k) =>
                           y.cab[f] = Meaning(Values(l)[k].value)
      BY <3>2, <3>4, <3>5, <3>6 DEF Silent, LastEntry
    <3>7. DOMAIN Values(l) = 1 .. Len(Values(l)) /\ Len(Values(l)) \in Nat
      BY <3>5
    <3> QED  BY <2>3, <3>2, <3>4, <3>6, <3>7 DEF y, IsHeader
  <2>5. CASE l.key = "CABRILLO-TEMPLATE"
    <3> DEFINE r == ReadTemplate(HeaderOf(x), l.template)
    <3>1. l.template \in Seq([field : STRING, value : STRING])
      BY <2>5, StartsAssumption
    <3>2. y.cab = r.fields /\ y.ok = r.ok
      <4>1. y = cfg_cabrillo_template(x, l.template)
        BY <2>1, <2>5 DEF Handled, Flags, Texts, Selections
      <4> QED  BY <1>h, <4>1 DEF cfg_cabrillo_template
    <3>3. Values(l) = l.template
      BY <2>5 DEF Values
    <3>4. /\ IsHeader(r)
          /\ r.ok => \A f \in Fields \ Written :
                /\ (\A k \in DOMAIN l.template : l.template[k].field # f) => r.fields[f] = x.cab[f]
                /\ \A k \in DOMAIN l.template :
                      LastEntry(l.template, Len(l.template), f, k) =>
                          r.fields[f] = Meaning(l.template[k].value)
      <4> DEFINE p == HeaderOf(x)
      <4>1. IsHeader(p) /\ p.fields = x.cab
        BY <1>h
      <4> HIDE DEF p
      <4>2. LET q == ReadTemplate(p, l.template) IN
            /\ IsHeader(q)
            /\ q.ok => \A f \in Fields \ Written :
                  /\ (\A k \in DOMAIN l.template : l.template[k].field # f) => q.fields[f] = p.fields[f]
                  /\ \A k \in DOMAIN l.template :
                        LastEntry(l.template, Len(l.template), f, k) =>
                            q.fields[f] = Meaning(l.template[k].value)
        BY <3>1, <4>1, TemplateGiven
      <4> QED  BY <4>1, <4>2 DEF p
    <3> HIDE DEF r, y
    <3>6. DOMAIN Values(l) = 1 .. Len(Values(l)) /\ Len(Values(l)) \in Nat
      BY <3>1, <3>3
    <3>7. ASSUME y.ok, NEW f \in Fields \ Written
          PROVE  /\ Silent(l, f) => y.cab[f] = x.cab[f]
                 /\ \A k \in DOMAIN Values(l) :
                       LastEntry(Values(l), Len(Values(l)), f, k) =>
                           y.cab[f] = Meaning(Values(l)[k].value)
      BY <3>2, <3>3, <3>4, <3>7 DEF Silent
    <3> QED  BY <2>3, <3>2, <3>4, <3>6, <3>7 DEF y, IsHeader
  <2>6. CASE l.key \notin {"CABRILLO-FIELD", "CABRILLO-TEMPLATE"}
    <3>1. l.key # "CABRILLO" => Topic(l.key) # "CABRILLO-FIELD"
      <4>1. l.key # "CABRILLO" => l.key \notin Topics[6]
        BY <2>6 DEF Topics
      <4>2. \A i \in 1 .. 5 : l.key \in Topics[i] => Topic(l.key) # "CABRILLO-FIELD"
        BY TopicsAre
      <4> QED  BY <2>6, <4>1, <4>2, TopicsAre
    <3>2. y.cab = x.cab
      <4>1. CASE l.key = "CABRILLO"
        <5>1. y = cfg_string(x, "cabrillo", l.val)
          BY <2>1, <4>1 DEF Handled, Flags, Texts, Selections
        <5> QED  BY <1>1, <5>1 DEF cfg_string, Fail, Settings
      <4>2. CASE l.key # "CABRILLO"
        BY <1>1, <2>2, <3>1, <4>2 DEF Confined, Frame
      <4> QED  BY <4>1, <4>2
    <3>3. Values(l) = <<>>
      BY <2>6 DEF Values
    <3>4. DOMAIN Values(l) = 1 .. Len(Values(l)) /\ Len(Values(l)) \in Nat /\ DOMAIN Values(l) = {}
      BY <3>3
    <3> HIDE DEF y
    <3> QED  BY <2>3, <3>2, <3>4 DEF y
  <2> QED  BY <2>4, <2>5, <2>6
<1> QED  BY <1>2, <1>3

\* The fields are as the last entries among the first n lines say.
SetTo(cab, all, n) ==
    \A f \in Fields \ Written, i \in 1 .. n : \A k \in DOMAIN Values(all[i]) :
        /\ LastEntry(Values(all[i]), Len(Values(all[i])), f, k)
        /\ \A j \in 1 .. n : j > i => Silent(all[j], f)
        => cab[f] = Meaning(Values(all[i])[k].value)

LEMMA OneMoreLine ==
    ASSUME NEW x, Settings(x), HasFields(x.cab), NEW all, NEW n \in Nat,
           all[n + 1] \in ConfigLines, SetTo(x.cab, all, n), Apply(x, all[n + 1]).ok
    PROVE  SetTo(Apply(x, all[n + 1]).cab, all, n + 1)
<1> DEFINE y == Apply(x, all[n + 1])
           last == Values(all[n + 1])
<1>1. \A f \in Fields \ Written :
         /\ Silent(all[n + 1], f) => y.cab[f] = x.cab[f]
         /\ \A k \in DOMAIN last : LastEntry(last, Len(last), f, k) => y.cab[f] = Meaning(last[k].value)
  BY LineGiven
<1>2. 1 .. n + 1 = 1 .. n \cup {n + 1} /\ \A i \in 1 .. n : n + 1 > i
  OBVIOUS
<1> HIDE DEF y
<1> SUFFICES ASSUME NEW f \in Fields \ Written, NEW i \in 1 .. n + 1,
                    NEW k \in DOMAIN Values(all[i]),
                    LastEntry(Values(all[i]), Len(Values(all[i])), f, k),
                    \A j \in 1 .. n + 1 : j > i => Silent(all[j], f)
             PROVE  y.cab[f] = Meaning(Values(all[i])[k].value)
  BY DEF SetTo, y
<1>3. CASE i = n + 1
  BY <1>1, <1>3
<1>4. CASE i \in 1 .. n
  BY <1>1, <1>2, <1>4 DEF SetTo
<1> QED  BY <1>2, <1>3, <1>4

\* It is a matter of the first n lines.
LEMMA SameLines ==
    ASSUME NEW cab, NEW all, NEW more, NEW n \in Nat, \A i \in 1 .. n : more[i] = all[i],
           SetTo(cab, all, n)
    PROVE  SetTo(cab, more, n)
<1> SUFFICES ASSUME NEW f \in Fields \ Written, NEW i \in 1 .. n,
                    NEW k \in DOMAIN Values(more[i]),
                    LastEntry(Values(more[i]), Len(Values(more[i])), f, k),
                    \A j \in 1 .. n : j > i => Silent(more[j], f)
             PROVE  cab[f] = Meaning(Values(more[i])[k].value)
  BY DEF SetTo
<1>1. more[i] = all[i] /\ \A j \in 1 .. n : j > i => Silent(all[j], f)
  <2>1. \A j \in 1 .. n : more[j] = all[j]
    OBVIOUS
  <2> QED  BY <2>1
<1>2. /\ k \in DOMAIN Values(all[i])
      /\ LastEntry(Values(all[i]), Len(Values(all[i])), f, k)
  BY <1>1
<1>3. cab[f] = Meaning(Values(all[i])[k].value)
  BY <1>1, <1>2 DEF SetTo
<1> QED  BY <1>1, <1>3

\* f[n] is what n lines of a file make of the settings.
FileSteps(f, x, file, n) ==
    f = [k \in 0 .. n |-> IF k = 0 THEN x
                          ELSE IF f[k - 1].ok THEN Apply(f[k - 1], file[k]) ELSE f[k - 1]]

LEMMA FileExists ==
    ASSUME NEW x, NEW file, NEW n \in Nat
    PROVE  \E f : FileSteps(f, x, file, n)
<1> DEFINE S == {k \in Nat : \E f : FileSteps(f, x, file, k)}
<1>1. 0 \in S
  <2>1. FileSteps([k \in 0 .. 0 |-> x], x, file, 0)
    BY DEF FileSteps
  <2> QED  BY <2>1
<1>2. ASSUME NEW k \in Nat, k \in S
      PROVE  k + 1 \in S
  <2>1. PICK f : FileSteps(f, x, file, k)
    BY <1>2
  <2> DEFINE last == IF f[k].ok THEN Apply(f[k], file[k + 1]) ELSE f[k]
             g == [i \in 0 .. k + 1 |-> IF i = k + 1 THEN last ELSE f[i]]
  <2> HIDE DEF last
  <2>2. \A i \in 0 .. k : g[i] = f[i]
    OBVIOUS
  <2>3. \A i \in 0 .. k + 1 :
           g[i] = IF i = 0 THEN x ELSE IF g[i - 1].ok THEN Apply(g[i - 1], file[i]) ELSE g[i - 1]
    <3> TAKE i \in 0 .. k + 1
    <3>1. CASE i = k + 1
      BY <2>2, <3>1 DEF last
    <3>2. CASE i \in 0 .. k
      <4>1. i # 0 => i - 1 \in 0 .. k
        BY <3>2
      <4>2. f[i] = IF i = 0 THEN x ELSE IF f[i - 1].ok THEN Apply(f[i - 1], file[i]) ELSE f[i - 1]
        BY <2>1, <3>2 DEF FileSteps
      <4> HIDE DEF g
      <4> QED  BY <2>2, <3>2, <4>1, <4>2
    <3> QED  BY <3>1, <3>2
  <2>4. FileSteps(g, x, file, k + 1)
    BY <2>3 DEF FileSteps
  <2> HIDE DEF g
  <2> QED  BY <2>4
<1> HIDE DEF S
<1>3. Nat \subseteq S
  BY <1>1, <1>2, SetInduction
<1> QED  BY <1>3 DEF S

LEMMA FileResult ==
    ASSUME NEW x, NEW file, Len(file) \in Nat
    PROVE  \E f : FileSteps(f, x, file, Len(file)) /\ ReadFile(x, file) = f[Len(file)]
<1>1. \E f : FileSteps(f, x, file, Len(file))
  BY FileExists
<1> DEFINE read == CHOOSE f : FileSteps(f, x, file, Len(file))
<1>2. FileSteps(read, x, file, Len(file))
  BY <1>1
<1>3. ReadFile(x, file) = read[Len(file)]
  BY DEF ReadFile, FileSteps
<1> HIDE DEF read
<1> QED  BY <1>2, <1>3

\* A file that is read without an error after n lines of other files.
LEMMA FileGiven ==
    ASSUME NEW x, Settings(x), HasFields(x.cab), NEW file \in Seq(ConfigLines),
           NEW all, NEW n \in Nat, \A i \in 1 .. Len(file) : all[n + i] = file[i]
    PROVE  LET r == ReadFile(x, file) IN
           /\ Settings(r) /\ HasFields(r.cab)
           /\ (x.ok => SetTo(x.cab, all, n)) /\ r.ok => SetTo(r.cab, all, n + Len(file))
<1>1. Len(file) \in Nat /\ \A i \in 1 .. Len(file) : file[i] \in ConfigLines
  OBVIOUS
<1>2. PICK read : FileSteps(read, x, file, Len(file)) /\ ReadFile(x, file) = read[Len(file)]
  BY <1>1, FileResult
<1> DEFINE before == x.ok => SetTo(x.cab, all, n)
           Good(i) == /\ Settings(read[i]) /\ HasFields(read[i].cab)
                      /\ before /\ read[i].ok => SetTo(read[i].cab, all, n + i)
           S == {i \in Nat : i <= Len(file) => Good(i)}
<1>3. 0 \in S
  <2>1. read[0] = x
    BY <1>1, <1>2 DEF FileSteps
  <2>2. n + 0 = n
    OBVIOUS
  <2> QED  BY <2>1, <2>2
<1>4. ASSUME NEW i \in Nat, i \in S
      PROVE  i + 1 \in S
  <2> SUFFICES ASSUME i + 1 <= Len(file) PROVE Good(i + 1)
    OBVIOUS
  <2>1. Good(i)
    BY <1>1, <1>4
  <2>2. read[i + 1] = IF read[i].ok THEN Apply(read[i], file[i + 1]) ELSE read[i]
    <3>1. i + 1 \in 0 .. Len(file) /\ i + 1 # 0 /\ (i + 1) - 1 = i
      BY <1>1
    <3> QED  BY <1>2, <3>1 DEF FileSteps
  <2>3. /\ file[i + 1] \in ConfigLines /\ all[(n + i) + 1] = file[i + 1]
        /\ n + i \in Nat /\ (n + i) + 1 = n + (i + 1)
    <3>1. i + 1 \in 1 .. Len(file) /\ n + (i + 1) = (n + i) + 1
      BY <1>1
    <3> QED  BY <1>1, <3>1
  <2>4. CASE ~read[i].ok
    BY <2>1, <2>2, <2>4
  <2>5. CASE read[i].ok
    <3>1. read[i + 1] = Apply(read[i], all[(n + i) + 1])
      BY <2>2, <2>3, <2>5
    <3>2. Settings(read[i + 1]) /\ HasFields(read[i + 1].cab)
      <4> DEFINE l == all[(n + i) + 1]
      <4>1. l \in ConfigLines /\ Settings(read[i]) /\ HasFields(read[i].cab)
        BY <2>1, <2>3
      <4> HIDE DEF l
      <4>2. Settings(Apply(read[i], l)) /\ HasFields(Apply(read[i], l).cab)
        BY <4>1, LineGiven
      <4> QED  BY <3>1, <4>2 DEF l
    <3>3. before /\ read[i + 1].ok => SetTo(read[i + 1].cab, all, (n + i) + 1)
      <4> SUFFICES ASSUME before, read[i + 1].ok
                   PROVE  SetTo(read[i + 1].cab, all, (n + i) + 1)
        OBVIOUS
      <4> DEFINE z == read[i]
      <4>1. SetTo(z.cab, all, n + i) /\ Settings(z) /\ HasFields(z.cab)
        BY <2>1, <2>5
      <4>2. all[(n + i) + 1] \in ConfigLines /\ n + i \in Nat
        BY <2>3
      <4>3. Apply(z, all[(n + i) + 1]).ok
        BY <3>1
      <4> HIDE DEF z
      <4>4. SetTo(Apply(z, all[(n + i) + 1]).cab, all, (n + i) + 1)
        BY <4>1, <4>2, <4>3, OneMoreLine
      <4> QED  BY <3>1, <4>4 DEF z
    <3> QED  BY <2>3, <3>2, <3>3
  <2> QED  BY <2>4, <2>5
<1> HIDE DEF S
<1>5. Len(file) \in S
  BY <1>1, <1>3, <1>4, SetInduction
<1>6. Good(Len(file))
  BY <1>1, <1>5 DEF S
<1> QED  BY <1>2, <1>6

\* The rules file after logcfg.dat.
LEMMA RulesGiven ==
    ASSUME start \in Starts, NEW x, Settings(x), HasFields(x.cab), NEW file \in Seq(ConfigLines)
    PROVE  LET r == ReadRules(x)
               all == file \o RulesFile(x)
           IN  /\ RulesFile(x) \in Seq(ConfigLines)
               /\ Settings(r) /\ HasFields(r.cab)
               /\ (x.ok => SetTo(x.cab, file, Len(file))) /\ r.ok => SetTo(r.cab, all, Len(all))
<1> DEFINE found == x.whichcontest \in DOMAIN start.rules
           y == IF found THEN ReadFile(x, start.rules[x.whichcontest])
                ELSE [SetContest(x, "qso") EXCEPT !.logfile = "qso.log"]
           all == file \o RulesFile(x)
<1>1. {"ok", "cab", "digi_message", "logfile"} \subseteq DOMAIN Home
  BY DEF Home
<1>2. RulesFile(x) \in Seq(ConfigLines)
  BY StartsAssumption DEF RulesFile
<1> HIDE DEF RulesFile
<1>3. /\ Len(all) = Len(file) + Len(RulesFile(x)) /\ Len(file) \in Nat
      /\ \A i \in 1 .. Len(file) : all[i] = file[i]
      /\ \A i \in 1 .. Len(RulesFile(x)) : all[Len(file) + i] = RulesFile(x)[i]
  BY <1>2
<1> DEFINE before == x.ok => SetTo(x.cab, file, Len(file))
<1>4. before => (x.ok => SetTo(x.cab, all, Len(file)))
  BY <1>3, SameLines
<1> HIDE DEF all
<1>5. Settings(y) /\ HasFields(y.cab) /\ (before /\ y.ok => SetTo(y.cab, all, Len(all)))
  <2>1. CASE found
    <3>1. y = ReadFile(x, RulesFile(x))
      BY <2>1 DEF RulesFile
    <3> HIDE DEF y
    <3> QED  BY <1>2, <1>3, <1>4, <3>1, FileGiven
  <2>2. CASE ~found
    <3>1. Len(RulesFile(x)) = 0
      BY <2>2 DEF RulesFile
    <3>2. Len(all) = Len(file)
      BY <1>3, <3>1
    <3>3. y = [SetContest(x, "qso") EXCEPT !.logfile = "qso.log"]
      BY <2>2
    <3>4. Settings(y) /\ y.cab = x.cab /\ y.ok = x.ok
      BY <1>1, <3>3 DEF SetContest, Settings
    <3> HIDE DEF y
    <3> QED  BY <1>4, <3>2, <3>4
  <2> QED  BY <2>1, <2>2
<1>6. ReadRules(x) = [y EXCEPT !.digi_message = IF @ = NoValue THEN "|" \o y.message ELSE @]
  BY DEF ReadRules
<1> HIDE DEF y
<1> DEFINE text == IF y.digi_message = NoValue THEN "|" \o y.message ELSE y.digi_message
<1>7. ReadRules(x) = [y EXCEPT !.digi_message = text]
  BY <1>6
<1> HIDE DEF text
<1>8. Settings(ReadRules(x)) /\ ReadRules(x).cab = y.cab /\ ReadRules(x).ok = y.ok
  BY <1>1, <1>5, <1>7 DEF Settings
<1> QED  BY <1>2, <1>5, <1>8 DEF all

\* What is in the settings, with s.ok, and in the header is what both files say.
GivenInv ==
    /\ start \in Starts /\ lines \in Seq(ConfigLines) /\ rules \in Seq(ConfigLines)
    /\ Settings(s) /\ HasFields(s.cab)
    /\ stage = "logcfg" => rules = <<>> /\ header = NoHeader
    /\ s.ok => SetTo(s.cab, lines \o rules, Len(lines \o rules))

LEMMA InitGiven == ConfigInit => GivenInv
<1> SUFFICES ASSUME ConfigInit PROVE GivenInv
  OBVIOUS
<1>1. Settings(Defaults) /\ Defaults.cab = cabrillo_fields
  BY HomeIs DEF Settings, Defaults
<1>2. HasFields(cabrillo_fields)
  BY DEF HasFields, cabrillo_fields
<1>3. <<>> \o <<>> = <<>> /\ Len(<<>>) = 0 /\ <<>> \in Seq(ConfigLines)
  OBVIOUS
<1>4. s = Defaults /\ lines = <<>> /\ rules = <<>> /\ start \in Starts /\ header = NoHeader
  BY DEF ConfigInit
<1>5. SetTo(s.cab, <<>> \o <<>>, 0)
  BY DEF SetTo
<1> QED  BY <1>1, <1>2, <1>3, <1>4, <1>5 DEF GivenInv

\* Export and devices leave the fields that the program does not fill itself.
LEMMA NextGiven == ReadingInv /\ GivenInv /\ [ConfigNext]_configVars => GivenInv'
<1> SUFFICES ASSUME ReadingInv, GivenInv, [ConfigNext]_configVars PROVE GivenInv'
  OBVIOUS
<1>0. /\ start \in Starts /\ lines \in Seq(ConfigLines) /\ rules \in Seq(ConfigLines)
      /\ Settings(s) /\ HasFields(s.cab)
      /\ stage = "logcfg" => rules = <<>> /\ header = NoHeader
      /\ s.ok => SetTo(s.cab, lines \o rules, Len(lines \o rules))
  BY DEF GivenInv
<1>h. {"ok", "cab", "qtc_recv_lazy", "trx_control", "digikeyer"} \subseteq DOMAIN Home
  BY DEF Home
<1>1. CASE ReadLine
  <2>1. PICK l \in start.lines : lines' = Append(lines, l) /\ s' = Apply(s, l)
    BY <1>1 DEF ReadLine
  <2>2. stage = "logcfg" /\ s.ok /\ rules = <<>> /\ header = NoHeader
    BY <1>0, <1>1 DEF ReadLine, ReadingInv
  <2>3. start' = start /\ rules' = rules /\ header' = header
    BY <1>1 DEF ReadLine
  <2>4. l \in ConfigLines
    BY <1>0 DEF ConfigLines
  <2> DEFINE n == Len(lines)
  <2>5. /\ lines' \in Seq(ConfigLines) /\ n \in Nat /\ Len(lines') = n + 1
        /\ lines'[n + 1] = l /\ \A i \in 1 .. n : lines'[i] = lines[i]
        /\ lines \o rules = lines /\ lines' \o rules' = lines'
    BY <1>0, <2>1, <2>2, <2>3, <2>4
  <2>6. Settings(s') /\ HasFields(s'.cab)
    BY <1>0, <2>1, <2>4, LineGiven
  <2>7. SetTo(s.cab, lines', n)
    BY <1>0, <2>2, <2>5, SameLines
  <2>8. s'.ok => SetTo(s'.cab, lines', n + 1)
    BY <1>0, <2>1, <2>4, <2>5, <2>7, OneMoreLine
  <2> QED  BY <1>0, <2>2, <2>3, <2>5, <2>6, <2>8 DEF GivenInv
<1>2. CASE EndOfConfig
  <2>1. /\ stage = "logcfg" /\ rules' = RulesFile(s) /\ s' = ReadRules(s) /\ stage' # "logcfg"
        /\ lines' = lines /\ start' = start
    BY <1>2 DEF EndOfConfig
  <2>2. lines \o rules = lines
    BY <1>0, <2>1
  <2>3. /\ RulesFile(s) \in Seq(ConfigLines) /\ Settings(s') /\ HasFields(s'.cab)
        /\ s'.ok => SetTo(s'.cab, lines \o RulesFile(s), Len(lines \o RulesFile(s)))
    BY <1>0, <2>1, <2>2, RulesGiven
  <2> QED  BY <1>0, <2>1, <2>3 DEF GivenInv
<1>3. CASE RereadConfig
  <2>1. PICK file \in {lines} \cup (IF edited THEN {} ELSE {Append(lines, l) : l \in start.edits}) :
           /\ lines' = file
           /\ LET y == ReadFile([s EXCEPT !.ok = TRUE], file) IN
              /\ rules' = RulesFile(y)
              /\ s' = [ReadRules([y EXCEPT !.ok = TRUE]) EXCEPT !.ok = @ /\ y.ok]
    BY <1>3 DEF RereadConfig
  <2>2. stage' # "logcfg" /\ start' = start
    BY <1>3 DEF RereadConfig
  <2>3. file \in Seq(ConfigLines) /\ Len(file) \in Nat
    <3>1. \A l \in start.edits : l \in ConfigLines
      BY <1>0 DEF ConfigLines
    <3>2. \A l \in ConfigLines : Append(lines, l) \in Seq(ConfigLines)
      BY <1>0
    <3>3. file \in Seq(ConfigLines)
      BY <1>0, <3>1, <3>2
    <3> QED  BY <3>3
  <2> DEFINE x == [s EXCEPT !.ok = TRUE]
             y == ReadFile(x, file)
             y1 == [y EXCEPT !.ok = TRUE]
             r == ReadRules(y1)
  <2>4. Settings(x) /\ x.cab = s.cab
    BY <1>0, <1>h DEF Settings
  <2>5. SetTo(x.cab, file, 0) /\ \A i \in 1 .. Len(file) : file[0 + i] = file[i]
    BY DEF SetTo
  <2> HIDE DEF x
  <2>6. Settings(y) /\ HasFields(y.cab) /\ (y.ok => SetTo(y.cab, file, Len(file)))
    <3>1. 0 + Len(file) = Len(file) /\ 0 \in Nat
      BY <2>3
    <3>2. /\ Settings(y) /\ HasFields(y.cab)
          /\ y.ok => SetTo(y.cab, file, 0 + Len(file))
      BY <1>0, <2>3, <2>4, <2>5, <3>1, FileGiven
    <3> QED  BY <3>1, <3>2
  <2>7. rules' = RulesFile(y) /\ s' = [r EXCEPT !.ok = @ /\ y.ok]
    BY <2>1 DEF x
  <2> HIDE DEF y
  <2>8. Settings(y1) /\ y1.cab = y.cab /\ RulesFile(y1) = RulesFile(y)
    <3>1. "whichcontest" \in DOMAIN Home
      BY DEF Home
    <3>2. Settings(y1) /\ y1.cab = y.cab /\ y1.whichcontest = y.whichcontest
      BY <1>h, <2>6, <3>1 DEF Settings
    <3> QED  BY <3>2 DEF RulesFile
  <2> HIDE DEF y1
  <2>9. /\ RulesFile(y) \in Seq(ConfigLines) /\ Settings(r) /\ HasFields(r.cab)
        /\ y.ok /\ r.ok => SetTo(r.cab, file \o RulesFile(y), Len(file \o RulesFile(y)))
    <3>1. y.ok => (y1.ok => SetTo(y1.cab, file, Len(file)))
      BY <2>6, <2>8
    <3> QED  BY <1>0, <2>3, <2>6, <2>8, <3>1, RulesGiven
  <2> HIDE DEF r
  <2>10. Settings(s') /\ s'.cab = r.cab /\ (s'.ok => r.ok /\ y.ok)
    BY <1>h, <2>7, <2>9 DEF Settings
  <2> QED  BY <1>0, <2>1, <2>2, <2>3, <2>7, <2>9, <2>10 DEF GivenInv
<1>4. CASE CheckDatabases \/ InitDevices \/ GoOn
  <2>1. /\ start' = start /\ lines' = lines /\ rules' = rules /\ header' = header
        /\ stage' # "logcfg"
    BY <1>4 DEF CheckDatabases, InitDevices, GoOn
  <2>2. Settings(s') /\ s'.cab = s.cab /\ s'.ok = s.ok
    <3>1. CASE CheckDatabases
      BY <1>0, <1>h, <3>1 DEF CheckDatabases, Settings
    <3>2. CASE InitDevices
      <4>1. PICK radio, fldigi \in BOOLEAN :
               s' = [s EXCEPT !.trx_control = @ /\ radio, !.digikeyer = FldigiInit(s, fldigi)]
        BY <3>2 DEF InitDevices
      <4> QED  BY <1>0, <1>h, <4>1 DEF Settings
    <3>3. CASE GoOn
      BY <1>0, <3>3 DEF GoOn
    <3> QED  BY <1>4, <3>1, <3>2, <3>3
  <2> QED  BY <1>0, <2>1, <2>2 DEF GivenInv
<1>5. CASE WriteHeader
  <2>1. /\ stage = "running" /\ stage' = stage
        /\ start' = start /\ lines' = lines /\ rules' = rules
        /\ s' = [s EXCEPT !.cab = Filled(@, s.call, "score", s.qra)]
    BY <1>5 DEF WriteHeader
  <2> DEFINE cab1 == Filled(s.cab, s.call, "score", s.qra)
  <2>2. HasFields(cab1) /\ \A f \in Fields \ Written : cab1[f] = s.cab[f]
    BY DEF HasFields, Filled, Written
  <2> HIDE DEF cab1
  <2>3. Settings(s') /\ s'.cab = cab1 /\ s'.ok = s.ok
    <3>1. s' = [s EXCEPT !.cab = cab1]
      BY <2>1 DEF cab1
    <3> QED  BY <1>0, <1>h, <3>1 DEF Settings
  <2>4. \A all, n : SetTo(s.cab, all, n) => SetTo(cab1, all, n)
    BY <2>2 DEF SetTo
  <2> QED  BY <1>0, <2>1, <2>2, <2>3, <2>4 DEF GivenInv
<1>6. CASE UNCHANGED configVars
  <2>1. /\ start' = start /\ stage' = stage /\ lines' = lines /\ rules' = rules /\ s' = s
        /\ header' = header
    BY <1>6 DEF configVars
  <2> QED  BY <1>0, <2>1 DEF GivenInv
<1> QED  BY <1>1, <1>2, <1>3, <1>4, <1>5, <1>6 DEF ConfigNext

\* A field that is set to a value is written with it, and a disabled one is not.
LEMMA HeaderGiven ==
    ASSUME NEW cab, NEW all, SetTo(cab, all, Len(all)), Len(all) \in Nat,
           DOMAIN all = 1 .. Len(all),
           \A i \in DOMAIN all : DOMAIN Values(all[i]) = 1 .. Len(Values(all[i])),
           NEW answer, NEW f \in Fields \ Written, NEW i \in DOMAIN all,
           NEW k \in DOMAIN Values(all[i]), LastAbout(all, f, i, k),
           Values(all[i])[k].value \notin {NoValue, Hint}
    PROVE  Header(cab, answer)[f] = IF Values(all[i])[k].value = Dash THEN NoValue
                                    ELSE Values(all[i])[k].value
<1> DEFINE v == Values(all[i])[k].value
<1>1. LastEntry(Values(all[i]), Len(Values(all[i])), f, k)
  BY DEF LastAbout, LastEntry
<1>2. cab[f] = Meaning(v)
  BY <1>1 DEF LastAbout, SetTo
<1> HIDE DEF v
<1>3. /\ cab[f].value = IF v = Dash THEN NoValue ELSE v
      /\ cab[f].hint = FALSE /\ cab[f].disabled = (v = Dash)
  BY <1>2 DEF Meaning
<1>4. Header(cab, answer)[f] = FieldValue(cab, f, answer)
  BY DEF Header
<1>5. v # NoValue
  BY DEF v
<1>6. FieldValue(cab, f, answer) = IF v = Dash THEN NoValue ELSE v
  <2>1. CASE v = Dash
    BY <1>3, <2>1 DEF FieldValue
  <2>2. CASE v # Dash
    BY <1>3, <1>5, <2>2 DEF FieldValue
  <2> QED  BY <2>1, <2>2
<1> QED  BY <1>4, <1>6 DEF v

\* Exports and :CFG leave each header field as the last entry about it says, for
\* any lines, templates and rules files, any number of exports and rereadings.
THEOREM HeaderFields == ConfigSpec => []HeaderAsGiven
<1>1. ConfigInit => HeaderAsGiven
  BY DEF ConfigInit, HeaderAsGiven
<1>2. ReadingInv /\ GivenInv /\ GivenInv' /\ HeaderAsGiven /\ [ConfigNext]_configVars => HeaderAsGiven'
  <2> SUFFICES ASSUME ReadingInv, GivenInv, GivenInv', HeaderAsGiven, [ConfigNext]_configVars
               PROVE  HeaderAsGiven'
    OBVIOUS
  <2>1. CASE WriteHeader
    <3>1. PICK answer \in {NoValue, "answer"} : header' = Header(s'.cab, answer)
      BY <2>1 DEF WriteHeader
    <3> DEFINE all == lines' \o rules'
    <3>2. /\ lines' \in Seq(ConfigLines) /\ rules' \in Seq(ConfigLines)
          /\ Settings(s') /\ HasFields(s'.cab)
          /\ s'.ok => SetTo(s'.cab, all, Len(all))
      BY DEF GivenInv
    <3>3. /\ Len(all) \in Nat /\ DOMAIN all = 1 .. Len(all)
          /\ \A i \in DOMAIN all : all[i] \in ConfigLines
      BY <3>2
    <3>4. \A i \in DOMAIN all : DOMAIN Values(all[i]) = 1 .. Len(Values(all[i]))
      BY <3>2, <3>3, LineGiven
    <3> HIDE DEF all
    <3> SUFFICES ASSUME s'.ok, NEW f \in Fields \ Written, NEW i \in DOMAIN all,
                        NEW k \in DOMAIN Values(all[i]), LastAbout(all, f, i, k),
                        Values(all[i])[k].value \notin {NoValue, Hint}
                 PROVE  header'[f] = IF Values(all[i])[k].value = Dash THEN NoValue
                                     ELSE Values(all[i])[k].value
      BY DEF HeaderAsGiven, all
    <3> QED  BY <3>1, <3>2, <3>3, <3>4, HeaderGiven
  <2>2. CASE ReadLine \/ EndOfConfig \/ RereadConfig
    <3>1. header' = NoHeader
      BY <2>2 DEF ReadLine, EndOfConfig, RereadConfig, GivenInv
    <3> QED  BY <3>1 DEF HeaderAsGiven, NoHeader
  <2>3. CASE CheckDatabases \/ InitDevices \/ GoOn \/ UNCHANGED configVars
    <3>1. header' = header /\ lines' = lines /\ rules' = rules
      BY <2>3 DEF CheckDatabases, InitDevices, GoOn, configVars
    <3>2. s'.ok = s.ok
      <4>1. {"ok", "qtc_recv_lazy", "trx_control", "digikeyer"} \subseteq DOMAIN Home /\ Settings(s)
        BY DEF Home, GivenInv
      <4>2. CASE CheckDatabases
        BY <4>1, <4>2 DEF CheckDatabases, Settings
      <4>3. CASE InitDevices
        <5>1. PICK radio, fldigi \in BOOLEAN :
                 s' = [s EXCEPT !.trx_control = @ /\ radio, !.digikeyer = FldigiInit(s, fldigi)]
          BY <4>3 DEF InitDevices
        <5> QED  BY <4>1, <5>1 DEF Settings
      <4>4. CASE GoOn \/ UNCHANGED configVars
        BY <4>4 DEF GoOn, configVars
      <4> QED  BY <2>3, <4>2, <4>3, <4>4
    <3> QED  BY <3>1, <3>2 DEF HeaderAsGiven
  <2> QED  BY <2>1, <2>2, <2>3 DEF ConfigNext
<1>3. ConfigInit => ReadingInv /\ GivenInv
  BY InitReading, InitGiven
<1>4. ReadingInv /\ GivenInv /\ [ConfigNext]_configVars => ReadingInv' /\ GivenInv'
  BY NextReading, NextGiven
<1> QED  BY <1>1, <1>2, <1>3, <1>4, PTL DEF ConfigSpec

-----------------------------------------------------------------------------
(* Reading the files again.                                                *)

\* What the handlers of the lines do.
LEMMA Handlers ==
    ASSUME NEW l
    PROVE  /\ l.key = "CONTEST" => \A z : Handled(z, l) = cfg_contest(z, l.val)
           /\ l.key = "RECALL_MULTS" => \A z : Handled(z, l) = cfg_contest_bool(z, l.val)
           /\ l.key = "ONE_POINT" => \A z : Handled(z, l) = cfg_n_points(z, "1")
           /\ l.key = "TWO_POINTS" => \A z : Handled(z, l) = cfg_n_points(z, "2")
           /\ l.key = "MULT_LIST" => \A z : Handled(z, l) = cfg_mult_list(z, l.val)
           /\ l.key = "DX_&_SECTIONS" => \A z : Handled(z, l) = cfg_dx_n_sections(z)
           /\ l.key = "COUNTRYLIST" => \A z : Handled(z, l) = cfg_countrylist(z, l.val)
           /\ l.key = "PFX_NUM_MULTIS" => \A z : Handled(z, l) = cfg_pfx_num_multis(z, l.val)
           /\ l.key = "CONTINENTLIST" => \A z : Handled(z, l) = cfg_continentlist(z, l.val)
           /\ l.key = "EXCLUDE_MULTILIST" => \A z : Handled(z, l) = cfg_exclude_multilist(z, l.val)
           /\ l.key = "SECTION_MULT" => \A z : Handled(z, l) = cfg_section_mult(z, l.val)
           /\ l.key = "CONTEST_MODE" => \A z : Handled(z, l) = cfg_bool(z, "iscontest", l.val)
           /\ l.key = "SCOREWINDOW" => \A z : Handled(z, l) = cfg_bool(z, "showscore_flag", l.val)
           /\ l.key = "CHECKWINDOW" => \A z : Handled(z, l) = cfg_bool(z, "searchflg", l.val)
           /\ l.key = "LEADING_ZEROS_SERIAL" => \A z : Handled(z, l) = cfg_bool(z, "leading_zeros", l.val)
           /\ l.key = "NODE_X" => \A z : Handled(z, l) = cfg_node_x(z, l.node, l.val)
           /\ l.key = "THISNODE" => \A z : Handled(z, l) = cfg_thisnode(z, l.node)
           /\ l.key = "POWERMULT" => \A z : Handled(z, l) = cfg_powermult(z, l.val)
           /\ l.key = "BANDWEIGHT_POINTS" => \A z : Handled(z, l) = cfg_bandweight(z, l.val)
           /\ l.key = "CABRILLO-FIELD" => \A z : Handled(z, l) = cfg_cabrillo_field(z, l.field, l.val)
           /\ l.key = "CABRILLO-TEMPLATE" => \A z : Handled(z, l) = cfg_cabrillo_template(z, l.template)
<1>1. l.key = "CONTEST" => \A z : Handled(z, l) = cfg_contest(z, l.val)
  BY DEF Handled, Flags, Texts, Selections
<1>2. l.key = "RECALL_MULTS" => \A z : Handled(z, l) = cfg_contest_bool(z, l.val)
  BY DEF Handled, Flags, Texts, Selections
<1>3. l.key = "ONE_POINT" => \A z : Handled(z, l) = cfg_n_points(z, "1")
  BY DEF Handled, Flags, Texts, Selections
<1>4. l.key = "TWO_POINTS" => \A z : Handled(z, l) = cfg_n_points(z, "2")
  BY DEF Handled, Flags, Texts, Selections
<1>5. l.key = "MULT_LIST" => \A z : Handled(z, l) = cfg_mult_list(z, l.val)
  BY DEF Handled, Flags, Texts, Selections
<1>6. l.key = "DX_&_SECTIONS" => \A z : Handled(z, l) = cfg_dx_n_sections(z)
  BY DEF Handled, Flags, Texts, Selections
<1>7. l.key = "COUNTRYLIST" => \A z : Handled(z, l) = cfg_countrylist(z, l.val)
  BY DEF Handled, Flags, Texts, Selections
<1>8. l.key = "PFX_NUM_MULTIS" => \A z : Handled(z, l) = cfg_pfx_num_multis(z, l.val)
  BY DEF Handled, Flags, Texts, Selections
<1>9. l.key = "CONTINENTLIST" => \A z : Handled(z, l) = cfg_continentlist(z, l.val)
  BY DEF Handled, Flags, Texts, Selections
<1>10. l.key = "EXCLUDE_MULTILIST" => \A z : Handled(z, l) = cfg_exclude_multilist(z, l.val)
  BY DEF Handled, Flags, Texts, Selections
<1>11. l.key = "SECTION_MULT" => \A z : Handled(z, l) = cfg_section_mult(z, l.val)
  BY DEF Handled, Flags, Texts, Selections
<1>12. l.key = "CONTEST_MODE" => \A z : Handled(z, l) = cfg_bool(z, "iscontest", l.val)
  BY DEF Handled, Flags, Texts, Selections
<1>13. l.key = "SCOREWINDOW" => \A z : Handled(z, l) = cfg_bool(z, "showscore_flag", l.val)
  BY DEF Handled, Flags, Texts, Selections
<1>14. l.key = "LEADING_ZEROS_SERIAL" => \A z : Handled(z, l) = cfg_bool(z, "leading_zeros", l.val)
  BY DEF Handled, Flags, Texts, Selections
<1>15. l.key = "NODE_X" => \A z : Handled(z, l) = cfg_node_x(z, l.node, l.val)
  BY DEF Handled, Flags, Texts, Selections
<1>16. l.key = "THISNODE" => \A z : Handled(z, l) = cfg_thisnode(z, l.node)
  BY DEF Handled, Flags, Texts, Selections
<1>17. l.key = "POWERMULT" => \A z : Handled(z, l) = cfg_powermult(z, l.val)
  BY DEF Handled, Flags, Texts, Selections
<1>18. l.key = "BANDWEIGHT_POINTS" => \A z : Handled(z, l) = cfg_bandweight(z, l.val)
  BY DEF Handled, Flags, Texts, Selections
<1>19. l.key = "CABRILLO-FIELD" => \A z : Handled(z, l) = cfg_cabrillo_field(z, l.field, l.val)
  BY DEF Handled, Flags, Texts, Selections
<1>20. l.key = "CABRILLO-TEMPLATE" => \A z : Handled(z, l) = cfg_cabrillo_template(z, l.template)
  BY DEF Handled, Flags, Texts, Selections
<1>21. l.key = "CHECKWINDOW" => \A z : Handled(z, l) = cfg_bool(z, "searchflg", l.val)
  BY DEF Handled, Flags, Texts, Selections
<1> QED
  BY <1>1, <1>2, <1>3, <1>4, <1>5, <1>6, <1>7, <1>8, <1>9, <1>10,
     <1>11, <1>12, <1>13, <1>14, <1>15, <1>16, <1>17, <1>18, <1>19, <1>20, <1>21

\* What is true of the settings before and after every line but ADDNODE.
SaneContest(x) ==
    /\ x.contest = lookup_contest(x.whichcontest)
    /\ {x.qso_once, x.multlist, x.leading_zeros} \subseteq BOOLEAN
    /\ x.contest = "arrl_ss" => x.qso_once = TRUE /\ x.multlist = TRUE
    /\ x.points = [c \in Contests |-> x.points[c]]
    /\ x.recall_mult = [c \in Contests |-> x.recall_mult[c]]

SaneNodes(x) ==
    /\ x.nodes \in Nat /\ x.host = [n \in NodeIds |-> x.host[n]]
    /\ x.nodes > 0 => x.named = TRUE

Whole(cab) ==
    /\ HasFields(cab)
    /\ \A f \in Fields : cab[f] = [value    |-> cab[f].value, hint |-> cab[f].hint,
                                   disabled |-> cab[f].disabled]

Sane(x) == Settings(x) /\ SaneContest(x) /\ SaneNodes(x) /\ Whole(x.cab)

\* The settings that lines assign whatever they were before.
Assigned ==
    {"call", "qra", "multsfile", "dx_sections", "countrylist", "continentlist", "exclude",
     "pfxnummulti", "lan_active", "thisnode", "cwkeyer", "port", "trxmode", "digital_mode",
     "packet", "qtc", "cluster", "filter", "minitest", "change_rst", "rst", "corners", "cqdelay", "logfile",
     "message", "digi_message", "cabrillo"}

\* A setting b after the lines read again is what it is after reading them first, a, or
\* what it was after reading all of them, k.
From(a, b, k, f) == b[f] = a[f] \/ b[f] = k[f]

Untouched(a, b, k, f) == b[f] = a[f] \/ (b[f] = k[f] /\ a[f] = Defaults[f])

\* settled: no line to come names the contest.
AgainContest(a, b, k, settled) ==
    /\ b.whichcontest = a.whichcontest \/ (a.whichcontest = "qso" /\ b.whichcontest = k.whichcontest)
    /\ From(a, b, k, "qso_once") /\ From(a, b, k, "multlist")
    /\ From(a, b, k, "leading_zeros") \/ (~settled /\ k.contest = "arrl_ss")
    /\ settled => /\ b.whichcontest = a.whichcontest
                  /\ \A f \in {"iscontest", "showscore_flag", "searchflg", "sectn_mult"} : From(a, b, k, f)
    /\ \A c \in Contests : /\ From(a.points, b.points, k.points, c)
                           /\ From(a.recall_mult, b.recall_mult, k.recall_mult, c)

AgainNodes(a, b, k) ==
    /\ From(a, b, k, "nodes") /\ From(a, b, k, "named")
    /\ \A n \in NodeIds : From(a.host, b.host, k.host, n)

AgainFields(a, b, k) ==
    \A f \in Fields \ Written : \A c \in {"value", "hint", "disabled"} : From(a[f], b[f], k[f], c)

AgainOthers(a, b, k) ==
    /\ \A f \in Assigned : Untouched(a, b, k, f)
    /\ From(a, b, k, "fixedmult") /\ From(a, b, k, "bandweight")
    /\ \/ b.qtc_recv_lazy = a.qtc_recv_lazy
       \/ a.qtc_recv_lazy = FALSE /\ b.qtc_recv_lazy \in {k.qtc_recv_lazy, FALSE}

Again(a, b, k, settled) ==
    /\ AgainContest(a, b, k, settled) /\ AgainNodes(a, b, k)
    /\ AgainFields(a.cab, b.cab, k.cab) /\ AgainOthers(a, b, k)

\* The first power multiplier and the first weights stay, nodes get more.
Onward(x, y) ==
    /\ x.fixedmult # "0" => y.fixedmult = x.fixedmult
    /\ x.bandweight # "" => y.bandweight = x.bandweight
    /\ x.nodes <= y.nodes

-----------------------------------------------------------------------------
\* So are the defaults.
LEMMA DefaultsSane == Sane(Defaults)
<1>1. Settings(Defaults)
  BY HomeIs DEF Settings, Defaults
<1>2. SaneContest(Defaults)
  BY DEF SaneContest, Defaults, lookup_contest, Contests
<1>3. SaneNodes(Defaults)
  BY DEF SaneNodes, Defaults
<1>4. Whole(Defaults.cab)
  BY DEF Whole, Defaults, HasFields, cabrillo_fields
<1> QED  BY <1>1, <1>2, <1>3, <1>4 DEF Sane

\* What setcontest() makes of sane settings.
ContestSet(x, y, name) ==
    LET c == lookup_contest(name) IN
    /\ Settings(y) /\ SaneContest(y)
    /\ y.whichcontest = name /\ y.contest = c
    /\ y.iscontest = (c # "qso") /\ y.showscore_flag = (c # "qso") /\ y.searchflg = TRUE
    /\ y.sectn_mult = IF c = "arrldx_dx" THEN "ONCE" ELSE "NONE"
    /\ y.qso_once = (IF c = "arrl_ss" THEN TRUE ELSE x.qso_once)
    /\ y.multlist = (IF c = "arrl_ss" THEN TRUE ELSE x.multlist)
    /\ y.leading_zeros = (IF c = "arrl_ss" THEN FALSE ELSE x.leading_zeros)
    /\ \A f \in DOMAIN Home \ {"whichcontest", "contest", "iscontest", "showscore_flag", "searchflg", "sectn_mult",
                               "qso_once", "multlist", "leading_zeros"} : y[f] = x[f]

LEMMA SetContestIs ==
    ASSUME NEW x, Settings(x), SaneContest(x), NEW name
    PROVE  ContestSet(x, SetContest(x, name), name)
<1> DEFINE c == lookup_contest(name)
           once == x.qso_once \/ c = "arrl_ss"
           list == x.multlist \/ c = "arrl_ss"
           zeros == x.leading_zeros /\ c # "arrl_ss"
           y == [x EXCEPT !.whichcontest = name, !.contest = c,
                          !.iscontest = c # "qso", !.showscore_flag = c # "qso", !.searchflg = TRUE,
                          !.sectn_mult = IF c = "arrldx_dx" THEN "ONCE" ELSE "NONE",
                          !.qso_once = once, !.multlist = list, !.leading_zeros = zeros]
<1>0. {"whichcontest", "contest", "iscontest", "showscore_flag", "searchflg", "sectn_mult", "qso_once", "multlist",
       "leading_zeros", "points", "recall_mult"} \subseteq DOMAIN Home
  BY DEF Home
<1>1. SetContest(x, name) = y
  BY DEF SetContest
<1>2. /\ once = (IF c = "arrl_ss" THEN TRUE ELSE x.qso_once)
      /\ list = (IF c = "arrl_ss" THEN TRUE ELSE x.multlist)
      /\ zeros = (IF c = "arrl_ss" THEN FALSE ELSE x.leading_zeros)
  <2>1. x.qso_once \in BOOLEAN /\ x.multlist \in BOOLEAN /\ x.leading_zeros \in BOOLEAN
    BY DEF SaneContest
  <2> QED  BY <2>1
<1>3. once \in BOOLEAN /\ list \in BOOLEAN /\ zeros \in BOOLEAN
  OBVIOUS
<1> HIDE DEF once, list, zeros, c
<1>4. /\ Settings(y) /\ y.whichcontest = name /\ y.contest = c
      /\ y.iscontest = (c # "qso") /\ y.showscore_flag = (c # "qso") /\ y.searchflg = TRUE
      /\ y.sectn_mult = IF c = "arrldx_dx" THEN "ONCE" ELSE "NONE"
      /\ y.qso_once = once /\ y.multlist = list /\ y.leading_zeros = zeros
      /\ \A f \in DOMAIN Home \ {"whichcontest", "contest", "iscontest", "showscore_flag", "searchflg", "sectn_mult",
                                 "qso_once", "multlist", "leading_zeros"} : y[f] = x[f]
  BY <1>0 DEF Settings
<1> HIDE DEF y
<1>5. y.points = x.points /\ y.recall_mult = x.recall_mult
  BY <1>0, <1>4
<1>6. SaneContest(y)
  BY <1>2, <1>3, <1>4, <1>5 DEF SaneContest, c
<1> QED  BY <1>1, <1>2, <1>4, <1>6 DEF c, ContestSet

\* A line makes the same of settings both times, or leaves them both times.
AlikeIn(part, a, a1, b, b1) ==
    \A f \in part : a1[f] = b1[f] \/ (a1[f] = a[f] /\ b1[f] = b[f])

Alike(a, a1, b, b1) == AlikeIn(DOMAIN Home, a, a1, b, b1)

ContestPart == {"whichcontest", "qso_once", "multlist", "leading_zeros", "iscontest", "showscore_flag", "searchflg",
                "sectn_mult", "points", "recall_mult"}
NodePart    == {"nodes", "named", "host"}
OtherPart   == Assigned \cup {"fixedmult", "bandweight", "qtc_recv_lazy"}

\* Then the settings stay as related as they were.
LEMMA PartsAgain ==
    ASSUME NEW a, NEW a1, NEW b, NEW b1, NEW k, NEW settled, Again(a, b, k, settled)
    PROVE  /\ AlikeIn(ContestPart, a, a1, b, b1) => AgainContest(a1, b1, k, settled)
           /\ AlikeIn(NodePart, a, a1, b, b1) => AgainNodes(a1, b1, k)
           /\ AlikeIn({"cab"}, a, a1, b, b1) => AgainFields(a1.cab, b1.cab, k.cab)
           /\ AlikeIn(OtherPart, a, a1, b, b1) => AgainOthers(a1, b1, k)
<1>1. \A part, f : AlikeIn(part, a, a1, b, b1) /\ f \in part /\ From(a, b, k, f) => From(a1, b1, k, f)
  BY DEF AlikeIn, From
<1>2. ASSUME AlikeIn(ContestPart, a, a1, b, b1)
      PROVE  AgainContest(a1, b1, k, settled)
  <2>2. \A f \in {"whichcontest", "points", "recall_mult"} :
           a1[f] = b1[f] \/ (a1[f] = a[f] /\ b1[f] = b[f])
    BY <1>2 DEF AlikeIn, ContestPart
  <2>3. AgainContest(a, b, k, settled)
    BY DEF Again
  <2>4. \A c \in Contests : /\ From(a1.points, b1.points, k.points, c)
                            /\ From(a1.recall_mult, b1.recall_mult, k.recall_mult, c)
    BY <2>2, <2>3 DEF AgainContest, From
  <2>5. /\ b1.whichcontest = a1.whichcontest
           \/ (a1.whichcontest = "qso" /\ b1.whichcontest = k.whichcontest)
        /\ settled => b1.whichcontest = a1.whichcontest
    BY <2>2, <2>3 DEF AgainContest
  <2>6. \A f \in {"qso_once", "multlist", "leading_zeros", "iscontest", "showscore_flag", "searchflg", "sectn_mult"} :
           From(a, b, k, f) => From(a1, b1, k, f)
    BY <1>1, <1>2 DEF ContestPart
  <2>7. /\ From(a1, b1, k, "qso_once") /\ From(a1, b1, k, "multlist")
        /\ From(a1, b1, k, "leading_zeros") \/ (~settled /\ k.contest = "arrl_ss")
        /\ settled => \A f \in {"iscontest", "showscore_flag", "searchflg", "sectn_mult"} : From(a1, b1, k, f)
    BY <2>3, <2>6 DEF AgainContest
  <2> QED  BY <2>4, <2>5, <2>7 DEF AgainContest
<1>3. ASSUME AlikeIn(NodePart, a, a1, b, b1)
      PROVE  AgainNodes(a1, b1, k)
  <2>2. a1["host"] = b1["host"] \/ (a1["host"] = a["host"] /\ b1["host"] = b["host"])
    BY <1>3 DEF AlikeIn, NodePart
  <2>3. AgainNodes(a, b, k)
    BY DEF Again
  <2>4. From(a1, b1, k, "nodes") /\ From(a1, b1, k, "named")
    BY <1>1, <1>3, <2>3 DEF AgainNodes, NodePart
  <2>5. \A n \in NodeIds : From(a1.host, b1.host, k.host, n)
    BY <2>2, <2>3 DEF AgainNodes, From
  <2> QED  BY <2>4, <2>5 DEF AgainNodes
<1>4. ASSUME AlikeIn({"cab"}, a, a1, b, b1)
      PROVE  AgainFields(a1.cab, b1.cab, k.cab)
  <2>1. a1["cab"] = b1["cab"] \/ (a1["cab"] = a["cab"] /\ b1["cab"] = b["cab"])
    BY <1>4 DEF AlikeIn
  <2>2. AgainFields(a.cab, b.cab, k.cab)
    BY DEF Again
  <2> QED  BY <2>1, <2>2 DEF AgainFields, From
<1>5. ASSUME AlikeIn(OtherPart, a, a1, b, b1)
      PROVE  AgainOthers(a1, b1, k)
  <2>2. AgainOthers(a, b, k)
    BY DEF Again
  <2>3. \A f \in Assigned : Untouched(a1, b1, k, f)
    BY <1>5, <2>2 DEF AgainOthers, Untouched, AlikeIn, OtherPart
  <2>4. From(a1, b1, k, "fixedmult") /\ From(a1, b1, k, "bandweight")
    BY <1>1, <1>5, <2>2 DEF AgainOthers, OtherPart
  <2>5. a1["qtc_recv_lazy"] = b1["qtc_recv_lazy"]
        \/ (a1["qtc_recv_lazy"] = a["qtc_recv_lazy"] /\ b1["qtc_recv_lazy"] = b["qtc_recv_lazy"])
    BY <1>5 DEF AlikeIn, OtherPart
  <2> QED  BY <2>2, <2>3, <2>4, <2>5 DEF AgainOthers
<1> QED  BY <1>2, <1>3, <1>4, <1>5

\* The parts are disjoint.
LEMMA PartsOfHome ==
    /\ ContestPart \subseteq DOMAIN Home \ {"cab"} /\ NodePart \subseteq DOMAIN Home \ {"cab"}
    /\ OtherPart \subseteq DOMAIN Home \ {"cab"} /\ "cab" \in DOMAIN Home
    /\ ContestPart \cap NodePart = {} /\ ContestPart \cap OtherPart = {}
    /\ NodePart \cap OtherPart = {}
BY DEF ContestPart, NodePart, OtherPart, Assigned, Home

\* All parts together.
LEMMA AlikeAgain ==
    ASSUME NEW a, NEW a1, NEW b, NEW b1, Alike(a, a1, b, b1), NEW k, NEW settled,
           Again(a, b, k, settled)
    PROVE  Again(a1, b1, k, settled)
<1>1. /\ AlikeIn(ContestPart, a, a1, b, b1) /\ AlikeIn(NodePart, a, a1, b, b1)
      /\ AlikeIn({"cab"}, a, a1, b, b1) /\ AlikeIn(OtherPart, a, a1, b, b1)
  BY PartsOfHome DEF Alike, AlikeIn
<1> QED  BY <1>1, PartsAgain DEF Again

\* Handlers that write one setting.
LEMMA OneAlike ==
    ASSUME NEW a, Settings(a), NEW b, Settings(b), NEW f \in DOMAIN Home, NEW val
    PROVE  /\ Alike(a, cfg_string(a, f, val), b, cfg_string(b, f, val))
           /\ Alike(a, cfg_bool(a, f, val), b, cfg_bool(b, f, val))
           /\ Alike(a, cfg_int_const(a, f, val), b, cfg_int_const(b, f, val))
<1>1. "ok" \in DOMAIN Home
  BY DEF Home
<1> USE <1>1 DEF Fail, Alike, AlikeIn, Settings
<1>2. Alike(a, cfg_int_const(a, f, val), b, cfg_int_const(b, f, val))
  BY DEF cfg_int_const
<1>3. Alike(a, cfg_string(a, f, val), b, cfg_string(b, f, val))
  <2>1. CASE val = Bad
    BY <2>1 DEF cfg_string
  <2>2. CASE val # Bad
    BY <2>2 DEF cfg_string
  <2> QED  BY <2>1, <2>2
<1>4. Alike(a, cfg_bool(a, f, val), b, cfg_bool(b, f, val))
  <2>1. CASE val \notin {Missing, "ON", "OFF"}
    BY <2>1 DEF cfg_bool
  <2>2. CASE val \in {Missing, "ON", "OFF"}
    BY <2>2 DEF cfg_bool
  <2> QED  BY <2>1, <2>2
<1> QED  BY <1>2, <1>3, <1>4

\* The handlers that write more than one, or check the parameter.
LEMMA MoreAlike ==
    ASSUME NEW a, Settings(a), NEW b, Settings(b), NEW v, NEW n
    PROVE  /\ Alike(a, cfg_rttymode(a), b, cfg_rttymode(b))
           /\ Alike(a, cfg_mfj1278_keyer(a, v), b, cfg_mfj1278_keyer(b, v))
           /\ Alike(a, cfg_gmfsk(a, v), b, cfg_gmfsk(b, v))
           /\ Alike(a, cfg_fldigi(a, v), b, cfg_fldigi(b, v))
           /\ Alike(a, cfg_thisnode(a, n), b, cfg_thisnode(b, n))
           /\ Alike(a, cfg_mult_list(a, v), b, cfg_mult_list(b, v))
           /\ Alike(a, cfg_section_mult(a, v), b, cfg_section_mult(b, v))
           /\ Alike(a, cfg_call(a, v), b, cfg_call(b, v))
           /\ Alike(a, cfg_myqra(a, v), b, cfg_myqra(b, v))
           /\ Alike(a, cfg_telnetport(a, v), b, cfg_telnetport(b, v))
           /\ Alike(a, cfg_tncport(a), b, cfg_tncport(b))
           /\ Alike(a, cfg_bandmap(a, v), b, cfg_bandmap(b, v))
           /\ Alike(a, cfg_change_rst(a, v), b, cfg_change_rst(b, v))
           /\ Alike(a, cfg_minitest(a, v), b, cfg_minitest(b, v))
           /\ Alike(a, cfg_qtc(a, v), b, cfg_qtc(b, v))
<1>1. {"ok", "trxmode", "digital_mode", "cwkeyer", "digikeyer", "port", "thisnode", "multlist",
       "multsfile", "sectn_mult", "call", "qra", "packet", "cluster", "filter", "change_rst", "rst",
       "minitest", "qtc"} \subseteq DOMAIN Home
  BY DEF Home
<1> USE <1>1 DEF Alike, AlikeIn, Settings
<1>2. Alike(a, cfg_rttymode(a), b, cfg_rttymode(b))
  BY DEF cfg_rttymode
<1>3. Alike(a, cfg_mfj1278_keyer(a, v), b, cfg_mfj1278_keyer(b, v))
  <2>1. CASE v = Bad
    BY <2>1 DEF cfg_mfj1278_keyer, Fail
  <2>2. CASE ~(v = Bad)
    BY <2>2 DEF cfg_mfj1278_keyer, Fail
  <2> QED  BY <2>1, <2>2
<1>4. Alike(a, cfg_gmfsk(a, v), b, cfg_gmfsk(b, v))
  <2>1. CASE v = Bad
    BY <2>1 DEF cfg_gmfsk, Fail
  <2>2. CASE ~(v = Bad)
    BY <2>2 DEF cfg_gmfsk, Fail
  <2> QED  BY <2>1, <2>2
<1>5. Alike(a, cfg_fldigi(a, v), b, cfg_fldigi(b, v))
  <2>1. CASE v = Bad
    BY <2>1 DEF cfg_fldigi, Fail
  <2>2. CASE ~(v = Bad)
    BY <2>2 DEF cfg_fldigi, Fail
  <2> QED  BY <2>1, <2>2
<1>6. Alike(a, cfg_thisnode(a, n), b, cfg_thisnode(b, n))
  <2>1. CASE n >= MaxNodes
    BY <2>1 DEF cfg_thisnode, Fail
  <2>2. CASE ~(n >= MaxNodes)
    BY <2>2 DEF cfg_thisnode, Fail
  <2> QED  BY <2>1, <2>2
<1>7. Alike(a, cfg_mult_list(a, v), b, cfg_mult_list(b, v))
  <2>1. CASE v = Bad
    BY <2>1 DEF cfg_mult_list, Fail
  <2>2. CASE ~(v = Bad)
    BY <2>2 DEF cfg_mult_list, Fail
  <2> QED  BY <2>1, <2>2
<1>8. Alike(a, cfg_section_mult(a, v), b, cfg_section_mult(b, v))
  <2>1. CASE v \in {Missing, "ON", "OFF"}
    BY <2>1 DEF cfg_section_mult
  <2>2. CASE v \notin {Missing, "ON", "OFF"} /\ v \notin {"ONCE", "BAND", "BAND+MODE", "NONE"}
    BY <2>2 DEF cfg_section_mult, set_multi_mode, Fail
  <2>3. CASE v \in {"ONCE", "BAND", "BAND+MODE", "NONE"}
    <3>1. v \notin {Missing, "ON", "OFF"}
      BY <2>3 DEF Missing
    <3> QED  BY <2>3, <3>1 DEF cfg_section_mult, set_multi_mode
  <2> QED  BY <2>1, <2>2, <2>3
<1>9. Alike(a, cfg_call(a, v), b, cfg_call(b, v))
  BY DEF cfg_call
<1>10. Alike(a, cfg_myqra(a, v), b, cfg_myqra(b, v))
  BY DEF cfg_myqra
<1>11. Alike(a, cfg_telnetport(a, v), b, cfg_telnetport(b, v))
  <2>1. CASE v = Bad
    BY <2>1 DEF cfg_telnetport, Fail
  <2>2. CASE ~(v = Bad)
    BY <2>2 DEF cfg_telnetport, Fail
  <2> QED  BY <2>1, <2>2
<1>12. Alike(a, cfg_tncport(a), b, cfg_tncport(b))
  BY DEF cfg_tncport
<1>13. Alike(a, cfg_bandmap(a, v), b, cfg_bandmap(b, v))
  BY DEF cfg_bandmap
<1>14. Alike(a, cfg_change_rst(a, v), b, cfg_change_rst(b, v))
  <2>1. CASE v = Bad
    BY <2>1 DEF cfg_change_rst, Fail
  <2>2. CASE ~(v = Bad)
    BY <2>2 DEF cfg_change_rst, Fail
  <2> QED  BY <2>1, <2>2
<1>15. Alike(a, cfg_minitest(a, v), b, cfg_minitest(b, v))
  <2>1. CASE v = Bad
    BY <2>1 DEF cfg_minitest, Fail
  <2>2. CASE ~(v = Bad)
    BY <2>2 DEF cfg_minitest, Fail
  <2> QED  BY <2>1, <2>2
<1>16. Alike(a, cfg_qtc(a, v), b, cfg_qtc(b, v))
  <2>1. CASE v \notin {"RECV", "SEND", "BOTH"}
    BY <2>1 DEF cfg_qtc, Fail
  <2>2. CASE ~(v \notin {"RECV", "SEND", "BOTH"})
    BY <2>2 DEF cfg_qtc, Fail
  <2> QED  BY <2>1, <2>2
<1> QED
  BY <1>2, <1>3, <1>4, <1>5, <1>6, <1>7, <1>8, <1>9, <1>10, <1>11, <1>12, <1>13, <1>14, <1>15, <1>16

-----------------------------------------------------------------------------
\* One value for a field of the header, both times.
LEMMA FieldAgain ==
    ASSUME NEW a, Whole(a), NEW b, Whole(b), NEW k, AgainFields(a, b, k), NEW f, NEW v
    PROVE  Whole(AddField(a, f, v)) /\ AgainFields(AddField(a, f, v), AddField(b, f, v), k)
<1> DEFINE new(cab) == IF v = NoValue THEN [cab[f] EXCEPT !.value = NoValue, !.disabled = FALSE]
                       ELSE [value |-> IF v = Dash THEN NoValue ELSE v,
                             hint |-> v = Hint, disabled |-> v = Dash]
<1>1. \A cab : AddField(cab, f, v) = [cab EXCEPT ![f] = new(cab)]
  BY DEF AddField
<1>2. ASSUME f \in Fields
      PROVE  /\ new(a) = [value |-> new(a).value, hint |-> new(a).hint, disabled |-> new(a).disabled]
             /\ \A c \in {"value", "hint", "disabled"} : f \notin Written => From(new(a), new(b), k[f], c)
  <2>1. CASE v = NoValue
    <3>0. ASSUME NEW cab, Whole(cab)
          PROVE  new(cab) = [value |-> NoValue, hint |-> cab[f].hint, disabled |-> FALSE]
      <4>1. new(cab) = [cab[f] EXCEPT !.value = NoValue, !.disabled = FALSE]
        BY <2>1
      <4>2. PICK p, q, d : cab[f] = [value |-> p, hint |-> q, disabled |-> d]
        BY <1>2, <3>0 DEF Whole
      <4> HIDE DEF new
      <4> QED  BY <4>1, <4>2
    <3>1. new(a) = [value |-> NoValue, hint |-> a[f].hint, disabled |-> FALSE]
      BY <3>0
    <3>2. new(b) = [value |-> NoValue, hint |-> b[f].hint, disabled |-> FALSE]
      BY <3>0
    <3>3. f \notin Written => From(a[f], b[f], k[f], "hint")
      BY <1>2 DEF AgainFields
    <3> HIDE DEF new
    <3> QED  BY <3>1, <3>2, <3>3 DEF From
  <2>2. CASE v # NoValue
    <3>1. /\ new(a) = new(b)
          /\ new(a) = [value |-> IF v = Dash THEN NoValue ELSE v,
                       hint |-> v = Hint, disabled |-> v = Dash]
      BY <2>2
    <3> HIDE DEF new
    <3> QED  BY <3>1 DEF From
  <2> QED  BY <2>1, <2>2
<1> HIDE DEF new
<1>3. Whole(AddField(a, f, v))
  BY <1>1, <1>2 DEF Whole, HasFields
<1>4. ASSUME NEW g \in Fields \ Written, NEW c \in {"value", "hint", "disabled"}
      PROVE  From(AddField(a, f, v)[g], AddField(b, f, v)[g], k[g], c)
  <2>1. CASE g = f
    <3>1. AddField(a, f, v)[g] = new(a) /\ AddField(b, f, v)[g] = new(b)
      BY <1>1, <2>1 DEF Whole, HasFields
    <3> QED  BY <1>2, <2>1, <3>1
  <2>2. CASE g # f
    <3>1. AddField(a, f, v)[g] = a[g] /\ AddField(b, f, v)[g] = b[g]
      BY <1>1, <2>2 DEF Whole, HasFields
    <3> QED  BY <3>1 DEF AgainFields
  <2> QED  BY <2>1, <2>2
<1> QED  BY <1>3, <1>4 DEF AgainFields

\* The header x made of p the first time, and y made of q the second time.
AgainHeader(p, x, q, y, k) ==
    /\ IsHeader(x) /\ IsHeader(y) /\ Whole(x.fields) /\ Whole(y.fields)
    /\ y.ok = x.ok /\ AgainFields(x.fields, y.fields, k)
    /\ x.format = y.format \/ (x.format = p.format /\ y.format = q.format)

\* One entry, both times.
LEMMA EntryAgain ==
    ASSUME NEW p, NEW q, NEW x, NEW y, NEW k, AgainHeader(p, x, q, y, k), NEW f, NEW v
    PROVE  AgainHeader(p, AddCabrilloField(x, f, v), q, AddCabrilloField(y, f, v), k)
<1> DEFINE x1 == AddCabrilloField(x, f, v)
           y1 == AddCabrilloField(y, f, v)
<1>1. IsHeader(x) /\ IsHeader(y)
  BY DEF AgainHeader
<1>2. IsHeader(x1) /\ IsHeader(y1)
  BY <1>1, EntryAdded
<1>3. CASE f = QsoFormat
  <2>1. x1 = [x EXCEPT !.format = v] /\ y1 = [y EXCEPT !.format = v]
    BY <1>3 DEF AddCabrilloField
  <2>2. /\ x1.fields = x.fields /\ x1.format = v /\ x1.ok = x.ok
        /\ y1.fields = y.fields /\ y1.format = v /\ y1.ok = y.ok
    BY <1>1, <2>1 DEF IsHeader
  <2> HIDE DEF x1, y1
  <2> QED  BY <1>2, <2>2 DEF AgainHeader, x1, y1
<1>4. CASE f # QsoFormat /\ f \in Fields
  <2> DEFINE nx == AddField(x.fields, f, v)
             ny == AddField(y.fields, f, v)
  <2>1. x1 = [x EXCEPT !.fields = nx] /\ y1 = [y EXCEPT !.fields = ny]
    BY <1>4 DEF AddCabrilloField
  <2>2. Whole(nx) /\ Whole(ny) /\ AgainFields(nx, ny, k)
    <3>1. AgainFields(y.fields, y.fields, k)
      BY DEF AgainFields, From
    <3>2. Whole(x.fields) /\ Whole(y.fields) /\ AgainFields(x.fields, y.fields, k)
      BY DEF AgainHeader
    <3> QED  BY <3>1, <3>2, FieldAgain
  <2> HIDE DEF nx, ny
  <2>3. /\ x1.fields = nx /\ x1.format = x.format /\ x1.ok = x.ok
        /\ y1.fields = ny /\ y1.format = y.format /\ y1.ok = y.ok
    BY <1>1, <2>1 DEF IsHeader
  <2> HIDE DEF x1, y1
  <2> QED  BY <1>2, <2>2, <2>3 DEF AgainHeader, x1, y1
<1>5. CASE f # QsoFormat /\ f \notin Fields
  <2>1. x1 = [x EXCEPT !.ok = FALSE] /\ y1 = [y EXCEPT !.ok = FALSE]
    BY <1>5 DEF AddCabrilloField
  <2>2. /\ x1.fields = x.fields /\ x1.format = x.format /\ x1.ok = FALSE
        /\ y1.fields = y.fields /\ y1.format = y.format /\ y1.ok = FALSE
    BY <1>1, <2>1 DEF IsHeader
  <2> HIDE DEF x1, y1
  <2> QED  BY <1>2, <2>2 DEF AgainHeader, x1, y1
<1> QED  BY <1>3, <1>4, <1>5

\* A template, both times.
LEMMA TemplateAgain ==
    ASSUME NEW p, NEW q, NEW k, AgainHeader(p, p, q, q, k), NEW list, Len(list) \in Nat
    PROVE  AgainHeader(p, ReadTemplate(p, list), q, ReadTemplate(q, list), k)
<1>1. PICK fa : TemplateSteps(fa, p, list, Len(list)) /\ ReadTemplate(p, list) = fa[Len(list)]
  BY TemplateIs
<1>2. PICK fb : TemplateSteps(fb, q, list, Len(list)) /\ ReadTemplate(q, list) = fb[Len(list)]
  BY TemplateIs
<1> DEFINE Good(x, y) == AgainHeader(p, x, q, y, k)
           S == {n \in Nat : n <= Len(list) => Good(fa[n], fb[n])}
<1>3. 0 \in S
  <2>1. fa[0] = p /\ fb[0] = q
    BY <1>1, <1>2 DEF TemplateSteps
  <2> QED  BY <2>1
<1>4. ASSUME NEW x, NEW y, Good(x, y), NEW line
      PROVE  Good(TemplateLine(x, line), TemplateLine(y, line))
  <2>0. x.ok = y.ok
    BY <1>4 DEF AgainHeader
  <2>1. CASE ~x.ok \/ Skipped(line)
    BY <1>4, <2>0, <2>1 DEF TemplateLine
  <2>2. CASE ~(~x.ok \/ Skipped(line))
    <3>1. /\ TemplateLine(x, line) = AddCabrilloField(x, line.field, line.value)
          /\ TemplateLine(y, line) = AddCabrilloField(y, line.field, line.value)
      BY <2>0, <2>2 DEF TemplateLine
    <3> QED  BY <1>4, <3>1, EntryAgain
  <2> QED  BY <2>1, <2>2
<1>5. ASSUME NEW n \in Nat, n \in S
      PROVE  n + 1 \in S
  <2> SUFFICES ASSUME n + 1 <= Len(list) PROVE Good(fa[n + 1], fb[n + 1])
    OBVIOUS
  <2>1. n + 1 \in 0 .. Len(list) /\ n + 1 # 0 /\ (n + 1) - 1 = n
    OBVIOUS
  <2>2. fa[n + 1] = TemplateLine(fa[n], list[n + 1]) /\ fb[n + 1] = TemplateLine(fb[n], list[n + 1])
    BY <1>1, <1>2, <2>1 DEF TemplateSteps
  <2>3. Good(fa[n], fb[n])
    BY <1>5
  <2> HIDE DEF Good
  <2> QED  BY <1>4, <2>2, <2>3
<1> HIDE DEF S
<1>6. Len(list) \in S
  BY <1>3, <1>5, SetInduction
<1>7. Good(fa[Len(list)], fb[Len(list)])
  BY <1>6 DEF S
<1> QED  BY <1>1, <1>2, <1>7

\* The lines about the header.
LEMMA HeaderLinesAgain ==
    ASSUME NEW a, Sane(a), a.ok, NEW b, Sane(b), b.ok, NEW k, NEW settled, Again(a, b, k, settled),
           NEW l \in ConfigLines, l.key \in {"CABRILLO-FIELD", "CABRILLO-TEMPLATE"}, ~Refused(l)
    PROVE  LET a1 == Handled(a, l)
               b1 == Handled(b, l)
           IN  /\ Whole(a1.cab) /\ b1.ok = a1.ok
               /\ Again(a1, b1, k, settled)
<1> DEFINE a1 == Handled(a, l)
           b1 == Handled(b, l)
           p  == HeaderOf(a)
           q  == HeaderOf(b)
<1>1. {"ok", "cab", "cabrillo"} \subseteq DOMAIN Home
  BY DEF Home
<1>0. AgainHeader(p, p, q, q, k.cab)
  <2>1. Whole(a.cab) /\ Whole(b.cab) /\ AgainFields(a.cab, b.cab, k.cab)
    BY DEF Sane, Again
  <2> QED  BY <2>1 DEF AgainHeader, HeaderOf, IsHeader, Whole
<1> HIDE DEF p, q
<1>2. PICK ra, rb : a1 = With(a, ra) /\ b1 = With(b, rb) /\ AgainHeader(p, ra, q, rb, k.cab)
  <2>2. CASE l.key = "CABRILLO-FIELD"
    <3> DEFINE w == IF l.val = Missing THEN NoValue ELSE l.val
    <3>1. /\ a1 = With(a, AddCabrilloField(p, l.field, w))
          /\ b1 = With(b, AddCabrilloField(q, l.field, w))
      BY <2>2, Handlers DEF cfg_cabrillo_field, p, q
    <3> QED  BY <1>0, <3>1, EntryAgain
  <2>3. CASE l.key = "CABRILLO-TEMPLATE"
    <3>1. a1 = With(a, ReadTemplate(p, l.template)) /\ b1 = With(b, ReadTemplate(q, l.template))
      BY <2>3, Handlers DEF cfg_cabrillo_template, p, q
    <3>2. Len(l.template) \in Nat
      <4>1. l.template \in Seq([field : STRING, value : STRING])
        BY <2>3, StartsAssumption
      <4> QED  BY <4>1
    <3> QED  BY <1>0, <3>1, <3>2, TemplateAgain
  <2> QED  BY <2>2, <2>3
<1> HIDE DEF a1, b1
<1>3. /\ a1.cab = ra.fields /\ b1.cab = rb.fields /\ a1.ok = ra.ok /\ b1.ok = rb.ok
      /\ a1["cabrillo"] = ra.format /\ b1["cabrillo"] = rb.format
      /\ \A f \in DOMAIN Home \ {"cab", "cabrillo", "ok"} : a1[f] = a[f] /\ b1[f] = b[f]
  BY <1>1, <1>2 DEF With, Settings, Sane
<1>4. a1["cabrillo"] = b1["cabrillo"] \/ (a1["cabrillo"] = a["cabrillo"] /\ b1["cabrillo"] = b["cabrillo"])
  <2>1. p.format = a.cabrillo /\ q.format = b.cabrillo
    BY DEF p, q, HeaderOf
  <2>2. ra.format = rb.format \/ (ra.format = p.format /\ rb.format = q.format)
    BY <1>2 DEF AgainHeader
  <2> QED  BY <1>3, <2>1, <2>2
<1>5. Again(a1, b1, k, settled)
  <2>1. /\ AlikeIn(ContestPart, a, a1, b, b1) /\ AlikeIn(NodePart, a, a1, b, b1)
        /\ AlikeIn(OtherPart, a, a1, b, b1)
    <3>1. /\ \A f \in ContestPart \cup NodePart : f \in DOMAIN Home \ {"cab", "cabrillo", "ok"}
          /\ \A f \in OtherPart : f = "cabrillo" \/ f \in DOMAIN Home \ {"cab", "cabrillo", "ok"}
      BY PartsOfHome DEF ContestPart, NodePart, OtherPart, Assigned
    <3> QED  BY <1>3, <1>4, <3>1 DEF AlikeIn
  <2>2. AgainFields(a1.cab, b1.cab, k.cab)
    BY <1>2, <1>3 DEF AgainHeader
  <2> QED  BY <2>1, <2>2, PartsAgain DEF Again
<1>6. Whole(a1.cab) /\ b1.ok = a1.ok
  BY <1>2, <1>3 DEF AgainHeader
<1> QED  BY <1>5, <1>6 DEF a1, b1

\* The first multiplier and the first weights stay.
LEMMA FirstAgain ==
    ASSUME NEW a, Sane(a), a.ok, NEW b, Sane(b), b.ok, NEW k, NEW settled, Again(a, b, k, settled),
           NEW l, l.key \in {"POWERMULT", "BANDWEIGHT_POINTS"}, Onward(Handled(a, l), k)
    PROVE  LET a1 == Handled(a, l)
               b1 == Handled(b, l)
           IN  b1.ok = a1.ok /\ Again(a1, b1, k, settled)
<1> DEFINE a1 == Handled(a, l)
           b1 == Handled(b, l)
           first(x, f, none) == IF x[f] = none THEN l.val ELSE x[f]
<1>1. PICK f \in {"fixedmult", "bandweight"}, none \in {"0", ""} :
         /\ f = "fixedmult" => none = "0"
         /\ f = "bandweight" => none = ""
         /\ a1 = [a EXCEPT ![f] = first(a, f, none)]
         /\ b1 = [b EXCEPT ![f] = first(b, f, none)]
  <2>1. CASE l.key = "POWERMULT"
    <3>1. a1 = cfg_powermult(a, l.val) /\ b1 = cfg_powermult(b, l.val)
      BY <2>1, Handlers
    <3> QED  BY <3>1 DEF cfg_powermult
  <2>2. CASE l.key = "BANDWEIGHT_POINTS"
    <3>1. a1 = cfg_bandweight(a, l.val) /\ b1 = cfg_bandweight(b, l.val)
      BY <2>2, Handlers
    <3> QED  BY <3>1 DEF cfg_bandweight
  <2> QED  BY <2>1, <2>2
<1>2. f \in DOMAIN Home /\ f \in OtherPart /\ "ok" \in DOMAIN Home /\ f \notin Assigned
  BY DEF Home, OtherPart, Assigned
<1> DEFINE va == first(a, f, none)
           vb == first(b, f, none)
<1> HIDE DEF a1, b1, va, vb
<1>p. a1 = [a EXCEPT ![f] = va] /\ b1 = [b EXCEPT ![f] = vb]
  BY <1>1 DEF va, vb
<1>3. a1[f] = va /\ b1[f] = vb /\ \A g \in DOMAIN Home \ {f} : a1[g] = a[g] /\ b1[g] = b[g]
  BY <1>p, <1>2 DEF Settings, Sane
<1>4. AgainContest(a1, b1, k, settled) /\ AgainNodes(a1, b1, k) /\ AgainFields(a1.cab, b1.cab, k.cab)
  <2>1. f \notin ContestPart \cup NodePart \cup {"cab"}
    BY DEF ContestPart, NodePart
  <2>2. /\ AlikeIn(ContestPart, a, a1, b, b1) /\ AlikeIn(NodePart, a, a1, b, b1)
        /\ AlikeIn({"cab"}, a, a1, b, b1)
    BY <1>3, <2>1, PartsOfHome DEF AlikeIn
  <2> QED  BY <2>2, PartsAgain
<1>5. From(a1, b1, k, f)
  <2>1. From(a, b, k, f)
    BY DEF Again, AgainOthers
  <2>2. a1[f] # none => k[f] = a1[f]
    BY <1>1 DEF Onward, a1
  <2>3. a1[f] = (IF a[f] = none THEN l.val ELSE a[f]) /\ b1[f] = (IF b[f] = none THEN l.val ELSE b[f])
    BY <1>3 DEF va, vb
  <2>4. b[f] = a[f] \/ b[f] = k[f]
    BY <2>1 DEF From
  <2>5. b1[f] = a1[f] \/ b1[f] = k[f]
    <3>1. CASE a[f] = none
      BY <2>3, <2>4, <3>1
    <3>2. CASE a[f] # none
      BY <2>2, <2>3, <2>4, <3>2
    <3> QED  BY <3>1, <3>2
  <2> QED  BY <2>5 DEF From
<1>6. AgainOthers(a1, b1, k)
  <2>1. AgainOthers(a, b, k)
    BY DEF Again
  <2>2. \A g \in OtherPart \ {f} : a1[g] = a[g] /\ b1[g] = b[g]
    BY <1>3, PartsOfHome
  <2>3. \A g \in Assigned : Untouched(a1, b1, k, g)
    BY <1>2, <2>1, <2>2 DEF AgainOthers, Untouched, OtherPart
  <2>4. From(a1, b1, k, "fixedmult") /\ From(a1, b1, k, "bandweight")
    BY <1>5, <2>1, <2>2 DEF AgainOthers, From, OtherPart
  <2>5. a1["qtc_recv_lazy"] = a["qtc_recv_lazy"] /\ b1["qtc_recv_lazy"] = b["qtc_recv_lazy"]
    BY <2>2 DEF OtherPart
  <2> QED  BY <2>1, <2>3, <2>4, <2>5 DEF AgainOthers
<1>7. b1.ok = a1.ok
  <2>1. b1["ok"] = b["ok"] /\ a1["ok"] = a["ok"]
    BY <1>2, <1>3
  <2> QED  BY <2>1
<1> QED  BY <1>4, <1>5, <1>6, <1>7 DEF Again, a1, b1

\* A node named by a letter has its place.
NodeNamed(x, x1, n, val) ==
    /\ x1.host = [i \in NodeIds |-> IF i = n THEN val ELSE x.host[i]]
    /\ x1.lan_active = TRUE /\ x1.named = TRUE
    /\ x1.nodes = IF x.nodes > n + 1 THEN x.nodes ELSE n + 1
    /\ \A f \in DOMAIN Home \ {"host", "lan_active", "named", "nodes"} : x1[f] = x[f]

LEMMA NodeIs ==
    ASSUME NEW l \in ConfigLines, l.key = "NODE_X", l.node < MaxNodes, NEW x, Sane(x)
    PROVE  LET x1 == Handled(x, l) IN
           l.node \in Nat /\ NodeNamed(x, x1, l.node, l.val) /\ SaneNodes(x1) /\ x.nodes <= x1.nodes
<1> DEFINE x1 == Handled(x, l)
           n == l.node
           node == [x EXCEPT !.host[n] = l.val, !.lan_active = TRUE,
                             !.named = TRUE, !.nodes = Max({x.nodes, n + 1})]
<1>0. {"host", "lan_active", "named", "nodes"} \subseteq DOMAIN Home
  BY DEF Home
<1>1. x1 = cfg_node_x(x, n, l.val)
  BY Handlers
<1>2. n \in Nat /\ ~(n >= MaxNodes)
  <2>1. n \in Nat
    BY StartsAssumption
  <2> QED  BY <2>1, NodesAssumption
<1>3. /\ x.nodes \in Nat /\ x.host = [i \in NodeIds |-> x.host[i]] /\ (x.nodes > 0 => x.named = TRUE)
      /\ Settings(x)
  BY DEF Sane, SaneNodes
<1>4. x1 = node
  <2>1. ~(n >= MaxNodes \/ (~x.named /\ x.nodes > 0))
    BY <1>2, <1>3
  <2>2. cfg_node_x(x, n, l.val) = [parse_node(x, n, l.val) EXCEPT !.named = TRUE, !.nodes = Max({@, n + 1})]
    BY <2>1 DEF cfg_node_x
  <2>3. parse_node(x, n, l.val).nodes = x.nodes
    BY <1>0, <1>3 DEF parse_node, Settings
  <2> QED  BY <1>0, <1>1, <1>3, <2>2, <2>3 DEF parse_node, Settings
<1>5. Max({x.nodes, n + 1}) = IF x.nodes > n + 1 THEN x.nodes ELSE n + 1
  BY <1>2, <1>3 DEF Max
<1> HIDE DEF x1
<1>6. NodeNamed(x, x1, n, l.val)
  BY <1>0, <1>3, <1>4, <1>5 DEF Settings, NodeNamed
<1>7. SaneNodes(x1) /\ x.nodes <= x1.nodes
  BY <1>2, <1>3, <1>6 DEF SaneNodes, NodeNamed
<1> QED  BY <1>2, <1>6, <1>7 DEF x1

\* No line that counts is about a node that there is no place for.
LEMMA NodeFits ==
    ASSUME NEW l, l.key = "NODE_X", NEW x, Settings(x), Handled(x, l).ok
    PROVE  ~(l.node >= MaxNodes)
<1>1. l.node >= MaxNodes => Handled(x, l) = Fail(x)
  BY Handlers DEF cfg_node_x
<1>2. Fail(x).ok = FALSE
  BY DEF Fail, Settings, Home
<1> QED  BY <1>1, <1>2

\* A named node, both times.
LEMMA NodeAgain ==
    ASSUME NEW a, Sane(a), a.ok, NEW b, Sane(b), b.ok, NEW k, NEW settled, Again(a, b, k, settled),
           NEW l \in ConfigLines, l.key = "NODE_X", Handled(a, l).ok, Onward(Handled(a, l), k),
           k.nodes \in Nat
    PROVE  LET a1 == Handled(a, l)
               b1 == Handled(b, l)
           IN  b1.ok = a1.ok /\ Again(a1, b1, k, settled)
<1> DEFINE a1 == Handled(a, l)
           b1 == Handled(b, l)
           n == l.node
<1>1. l.node < MaxNodes /\ l.node \in Nat
  <2>1. l.node \in Nat
    BY StartsAssumption
  <2> QED  BY <2>1, NodeFits, NodesAssumption DEF Sane
<1>2. NodeNamed(a, a1, n, l.val) /\ NodeNamed(b, b1, n, l.val)
  BY <1>1, NodeIs
<1>3. a.nodes \in Nat /\ b.nodes \in Nat
  BY DEF Sane, SaneNodes
<1>4. a1.nodes <= k.nodes
  BY DEF Onward
<1> HIDE DEF a1, b1
<1>10. AgainNodes(a1, b1, k)
  <2>1. AgainNodes(a, b, k)
    BY DEF Again
  <2>3. From(a1, b1, k, "nodes")
    <3>1. b.nodes = a.nodes \/ b.nodes = k.nodes
      BY <2>1 DEF AgainNodes, From
    <3> QED  BY <1>1, <1>2, <1>3, <1>4, <3>1 DEF From, NodeNamed
  <2>4. \A i \in NodeIds : From(a1.host, b1.host, k.host, i)
    BY <1>2, <2>1 DEF AgainNodes, From, NodeNamed
  <2>5. From(a1, b1, k, "named")
    BY <1>2 DEF From, NodeNamed
  <2> QED  BY <2>3, <2>4, <2>5 DEF AgainNodes
<1>11. AgainContest(a1, b1, k, settled) /\ AgainFields(a1.cab, b1.cab, k.cab) /\ AgainOthers(a1, b1, k)
  <2>1. /\ ContestPart \cap {"host", "lan_active", "named", "nodes"} = {}
        /\ OtherPart \cap {"host", "named", "nodes"} = {}
    BY DEF ContestPart, OtherPart, Assigned
  <2>2. /\ AlikeIn(ContestPart, a, a1, b, b1) /\ AlikeIn(OtherPart, a, a1, b, b1)
        /\ AlikeIn({"cab"}, a, a1, b, b1)
    BY <1>2, <2>1, PartsOfHome DEF AlikeIn, NodeNamed
  <2> QED  BY <2>2, PartsAgain
<1>12. b1.ok = a1.ok
  <2>1. b1["ok"] = b["ok"] /\ a1["ok"] = a["ok"]
    BY <1>2 DEF NodeNamed, Home
  <2> QED  BY <2>1
<1> QED  BY <1>10, <1>11, <1>12 DEF Again, a1, b1

\* The names given to setcontest(): that of a CONTEST line, or those that the
\* settings have, which may be the first contest and the last.
BothNamed(a, b, k, settled, na, nb, settled1) ==
    \/ na = nb /\ (settled1 /\ k.contest = "arrl_ss" => lookup_contest(na) = "arrl_ss")
    \/ na = a.whichcontest /\ nb = b.whichcontest /\ settled1 = settled

\* setcontest(), both times.
LEMMA ContestAgain ==
    ASSUME NEW a, Settings(a), SaneContest(a), NEW b, Settings(b), SaneContest(b), NEW k, SaneContest(k),
           NEW settled, Again(a, b, k, settled), NEW na, NEW nb, NEW settled1,
           BothNamed(a, b, k, settled, na, nb, settled1)
    PROVE  LET a1 == SetContest(a, na)
               b1 == SetContest(b, nb)
           IN  /\ Settings(a1) /\ SaneContest(a1) /\ Settings(b1) /\ SaneContest(b1)
               /\ a1.ok = a.ok /\ b1.ok = b.ok /\ Again(a1, b1, k, settled1)
<1> DEFINE a1 == SetContest(a, na)
           b1 == SetContest(b, nb)
           ca == lookup_contest(na)
           cb == lookup_contest(nb)
<1>1. ContestSet(a, a1, na) /\ ContestSet(b, b1, nb)
  BY SetContestIs
<1> HIDE DEF a1, b1
<1>2. a1.ok = a.ok /\ b1.ok = b.ok /\ a1.points = a.points /\ b1.points = b.points
      /\ a1.recall_mult = a.recall_mult /\ b1.recall_mult = b.recall_mult
  <2>1. {"ok", "points", "recall_mult"} \subseteq
            DOMAIN Home \ {"whichcontest", "contest", "iscontest", "showscore_flag", "searchflg", "sectn_mult",
                           "qso_once", "multlist", "leading_zeros"}
    BY DEF Home
  <2>2. \A f \in {"ok", "points", "recall_mult"} : a1[f] = a[f] /\ b1[f] = b[f]
    BY <1>1, <2>1 DEF ContestSet
  <2> QED  BY <2>2
<1>3. AgainNodes(a1, b1, k) /\ AgainFields(a1.cab, b1.cab, k.cab) /\ AgainOthers(a1, b1, k)
  <2>1. NodePart \cup OtherPart \cup {"cab"} \subseteq
            DOMAIN Home \ {"whichcontest", "contest", "iscontest", "showscore_flag", "searchflg", "sectn_mult",
                           "qso_once", "multlist", "leading_zeros"}
    BY DEF Home, NodePart, OtherPart, Assigned
  <2>2. \A f \in NodePart \cup OtherPart \cup {"cab"} : a1[f] = a[f] /\ b1[f] = b[f]
    BY <1>1, <2>1 DEF ContestSet
  <2>3. AlikeIn(NodePart, a, a1, b, b1) /\ AlikeIn(OtherPart, a, a1, b, b1) /\ AlikeIn({"cab"}, a, a1, b, b1)
    BY <2>2 DEF AlikeIn
  <2> QED  BY <2>3, PartsAgain
<1>4. AgainContest(a, b, k, settled)
  BY DEF Again
<1>5. AgainContest(a1, b1, k, settled1)
  <2>1. \A c \in Contests : /\ From(a1.points, b1.points, k.points, c)
                            /\ From(a1.recall_mult, b1.recall_mult, k.recall_mult, c)
    BY <1>2, <1>4 DEF AgainContest
  <2>2. CASE na = nb /\ (settled1 /\ k.contest = "arrl_ss" => ca = "arrl_ss")
    <3>1. From(a1, b1, k, "qso_once") /\ From(a1, b1, k, "multlist")
      BY <1>1, <1>4, <2>2 DEF AgainContest, From, ContestSet
    <3>2. From(a1, b1, k, "leading_zeros") \/ (~settled1 /\ k.contest = "arrl_ss")
      BY <1>1, <1>4, <2>2 DEF AgainContest, From, ContestSet
    <3>3. \A f \in {"iscontest", "showscore_flag", "searchflg", "sectn_mult"} : From(a1, b1, k, f)
      BY <1>1, <2>2 DEF From, ContestSet
    <3>4. b1.whichcontest = a1.whichcontest
      BY <1>1, <2>2 DEF ContestSet
    <3> QED  BY <2>1, <3>1, <3>2, <3>3, <3>4 DEF AgainContest
  <2>3. CASE na = a.whichcontest /\ nb = b.whichcontest /\ settled1 = settled /\ na # nb
    <3>1. /\ ~settled /\ na = "qso" /\ ca = "qso" /\ nb = k.whichcontest /\ cb = k.contest
          /\ a1.whichcontest = "qso" /\ b1.whichcontest = k.whichcontest
      BY <1>1, <1>4, <2>3 DEF AgainContest, SaneContest, lookup_contest, Contests, ContestSet
    <3>2. From(a1, b1, k, "qso_once") /\ From(a1, b1, k, "multlist")
      BY <1>1, <1>4, <3>1 DEF AgainContest, From, SaneContest, ContestSet
    <3>3. From(a1, b1, k, "leading_zeros") \/ (~settled1 /\ k.contest = "arrl_ss")
      BY <1>1, <1>4, <2>3, <3>1 DEF AgainContest, From, ContestSet
    <3> QED  BY <2>1, <2>3, <3>1, <3>2, <3>3 DEF AgainContest
  <2>4. CASE na = a.whichcontest /\ nb = b.whichcontest /\ settled1 = settled /\ na = nb
    <3>1. From(a1, b1, k, "qso_once") /\ From(a1, b1, k, "multlist")
      BY <1>1, <1>4, <2>4 DEF AgainContest, From, ContestSet
    <3>2. From(a1, b1, k, "leading_zeros") \/ (~settled1 /\ k.contest = "arrl_ss")
      BY <1>1, <1>4, <2>4 DEF AgainContest, From, ContestSet
    <3>3. \A f \in {"iscontest", "showscore_flag", "searchflg", "sectn_mult"} : From(a1, b1, k, f)
      BY <1>1, <2>4 DEF From, ContestSet
    <3>4. b1.whichcontest = a1.whichcontest
      BY <1>1, <2>4 DEF ContestSet
    <3> QED  BY <2>1, <3>1, <3>2, <3>3, <3>4 DEF AgainContest
  <2> QED  BY <2>2, <2>3, <2>4 DEF BothNamed
<1>6. Settings(a1) /\ SaneContest(a1) /\ Settings(b1) /\ SaneContest(b1)
  BY <1>1 DEF ContestSet
<1> QED  BY <1>2, <1>3, <1>5, <1>6 DEF Again, a1, b1

\* One of the lists, and the contest is set anew.
Listed(x, f, v) == SetContest([x EXCEPT ![f] = v], x.whichcontest)

\* A list, both times.
LEMMA ListAgain ==
    ASSUME NEW a, Settings(a), SaneContest(a), NEW b, Settings(b), SaneContest(b), NEW k, SaneContest(k),
           NEW settled, Again(a, b, k, settled),
           NEW f \in {"dx_sections", "countrylist", "pfxnummulti", "continentlist"}, NEW v
    PROVE  LET a1 == Listed(a, f, v)
               b1 == Listed(b, f, v)
           IN  /\ SaneContest(a1) /\ SaneContest(b1)
               /\ a1.ok = a.ok /\ b1.ok = b.ok /\ Again(a1, b1, k, settled)
<1> DEFINE a2 == [a EXCEPT ![f] = v]
           b2 == [b EXCEPT ![f] = v]
<1>0. /\ f \in DOMAIN Home /\ "whichcontest" \in DOMAIN Home \ {f}
      /\ {"ok", "contest", "qso_once", "multlist", "leading_zeros", "points", "recall_mult"}
             \subseteq DOMAIN Home \ {f}
  BY DEF Home
<1>1. ASSUME NEW x, Settings(x), SaneContest(x)
      PROVE  LET y == [x EXCEPT ![f] = v] IN
             /\ Settings(y) /\ SaneContest(y) /\ y[f] = v
             /\ \A g \in DOMAIN Home \ {f} : y[g] = x[g]
  <2> DEFINE y == [x EXCEPT ![f] = v]
  <2>1. Settings(y) /\ y[f] = v /\ \A g \in DOMAIN Home \ {f} : y[g] = x[g]
    BY <1>0, <1>1 DEF Settings
  <2> HIDE DEF y
  <2>2. \A g \in {"whichcontest", "ok", "contest", "qso_once", "multlist", "leading_zeros",
                  "points", "recall_mult"} :
           y[g] = x[g]
    BY <1>0, <2>1
  <2>3. SaneContest(y)
    BY <1>1, <2>2 DEF SaneContest
  <2> QED  BY <2>1, <2>3 DEF y
<1>2. /\ Settings(a2) /\ SaneContest(a2) /\ a2[f] = v /\ \A g \in DOMAIN Home \ {f} : a2[g] = a[g]
      /\ Settings(b2) /\ SaneContest(b2) /\ b2[f] = v /\ \A g \in DOMAIN Home \ {f} : b2[g] = b[g]
  BY <1>1
<1> HIDE DEF a2, b2
<1>3. Again(a2, b2, k, settled)
  <2>1. Alike(a, a2, b, b2)
    BY <1>2 DEF Alike, AlikeIn
  <2> QED  BY <2>1, AlikeAgain
<1>4. a2.whichcontest = a.whichcontest /\ b2.whichcontest = b.whichcontest /\ a2.ok = a.ok /\ b2.ok = b.ok
  <2>1. \A g \in {"whichcontest", "ok"} : a2[g] = a[g] /\ b2[g] = b[g]
    BY <1>0, <1>2
  <2> QED  BY <2>1
<1>5. LET a1 == SetContest(a2, a2.whichcontest)
          b1 == SetContest(b2, b2.whichcontest)
      IN  /\ SaneContest(a1) /\ SaneContest(b1)
          /\ a1.ok = a2.ok /\ b1.ok = b2.ok /\ Again(a1, b1, k, settled)
  <2> DEFINE na == a2.whichcontest
             nb == b2.whichcontest
  <2>1. BothNamed(a2, b2, k, settled, na, nb, settled)
    BY DEF BothNamed
  <2>2. Settings(a2) /\ SaneContest(a2) /\ Settings(b2) /\ SaneContest(b2)
    BY <1>2
  <2> HIDE DEF na, nb
  <2>3. /\ SaneContest(SetContest(a2, na)) /\ SaneContest(SetContest(b2, nb))
        /\ SetContest(a2, na).ok = a2.ok /\ SetContest(b2, nb).ok = b2.ok
        /\ Again(SetContest(a2, na), SetContest(b2, nb), k, settled)
    BY <1>3, <2>1, <2>2, ContestAgain
  <2> QED  BY <2>3 DEF na, nb
<1> QED  BY <1>4, <1>5 DEF a2, b2, Listed

\* Points and multipliers of the contest, whose name is settled.
Ruled(x, f, v) == [x EXCEPT ![f][x.contest] = v]

\* Then it is the same contest both times.
LEMMA RuleAgain ==
    ASSUME NEW a, Settings(a), SaneContest(a), NEW b, Settings(b), SaneContest(b), NEW k,
           Again(a, b, k, TRUE), NEW f \in {"points", "recall_mult"}, NEW v
    PROVE  LET a1 == Ruled(a, f, v)
               b1 == Ruled(b, f, v)
           IN  /\ SaneContest(a1) /\ SaneContest(b1)
               /\ a1.ok = a.ok /\ b1.ok = b.ok /\ Again(a1, b1, k, TRUE)
<1> DEFINE a1 == Ruled(a, f, v)
           b1 == Ruled(b, f, v)
           Set(x, y) == /\ y[f] = [c \in Contests |-> IF c = x.contest THEN v ELSE x[f][c]]
                        /\ \A g \in DOMAIN Home \ {f} : y[g] = x[g]
<1>0. f \in DOMAIN Home /\ "ok" \in DOMAIN Home \ {f}
  BY DEF Home
<1>1. ASSUME NEW x, Settings(x), SaneContest(x), NEW y, y = Ruled(x, f, v)
      PROVE  Set(x, y) /\ SaneContest(y)
  <2>1. x[f] = [c \in Contests |-> x[f][c]]
    BY <1>1 DEF SaneContest
  <2>2. y = [x EXCEPT ![f] = [x[f] EXCEPT ![x.contest] = v]]
    BY <1>1 DEF Ruled
  <2>3. y[f] = [x[f] EXCEPT ![x.contest] = v] /\ \A g \in DOMAIN Home \ {f} : y[g] = x[g]
    BY <1>0, <1>1, <2>2 DEF Settings
  <2>4. [x[f] EXCEPT ![x.contest] = v] = [c \in Contests |-> IF c = x.contest THEN v ELSE x[f][c]]
    BY <2>1
  <2>5. Set(x, y)
    BY <2>3, <2>4
  <2>6. y[f] = [c \in Contests |-> y[f][c]]
    BY <2>3, <2>4
  <2>7. \A g \in {"contest", "whichcontest", "qso_once", "multlist", "leading_zeros",
                  "points", "recall_mult"} \ {f} :
           y[g] = x[g]
    BY <2>3 DEF Home
  <2>8. SaneContest(y)
    <3>1. CASE f = "points"
      BY <1>1, <2>6, <2>7, <3>1 DEF SaneContest
    <3>2. CASE f = "recall_mult"
      BY <1>1, <2>6, <2>7, <3>2 DEF SaneContest
    <3> QED  BY <3>1, <3>2
  <2> QED  BY <2>5, <2>8
<1>2. Set(a, a1) /\ SaneContest(a1) /\ Set(b, b1) /\ SaneContest(b1)
  <2> HIDE DEF Set
  <2> QED  BY <1>1
<1> HIDE DEF a1, b1
<1>3. AgainContest(a, b, k, TRUE) /\ a.contest = b.contest
  BY DEF Again, AgainContest, SaneContest
<1>4. AgainNodes(a1, b1, k) /\ AgainFields(a1.cab, b1.cab, k.cab) /\ AgainOthers(a1, b1, k)
  <2>1. f \notin NodePart \cup OtherPart \cup {"cab"}
    BY DEF NodePart, OtherPart, Assigned
  <2>2. AlikeIn(NodePart, a, a1, b, b1) /\ AlikeIn(OtherPart, a, a1, b, b1) /\ AlikeIn({"cab"}, a, a1, b, b1)
    BY <1>2, <2>1, PartsOfHome DEF AlikeIn
  <2> QED  BY <2>2, PartsAgain
<1>5. AgainContest(a1, b1, k, TRUE)
  <2>1. \A g \in ContestPart \ {f} : a1[g] = a[g] /\ b1[g] = b[g]
    BY <1>2, PartsOfHome
  <2>2. \A c \in Contests : From(a1[f], b1[f], k[f], c)
    BY <1>2, <1>3 DEF AgainContest, From
  <2>3. \A g \in {"points", "recall_mult"} : \A c \in Contests : From(a1[g], b1[g], k[g], c)
    BY <1>3, <2>1, <2>2 DEF AgainContest, From, ContestPart
  <2>4. \A g \in {"whichcontest", "qso_once", "multlist", "leading_zeros", "iscontest",
                  "showscore_flag", "searchflg", "sectn_mult"} :
           a1[g] = a[g] /\ b1[g] = b[g]
    BY <2>1 DEF ContestPart
  <2> QED  BY <1>3, <2>3, <2>4 DEF AgainContest, From
<1>6. a1["ok"] = a["ok"] /\ b1["ok"] = b["ok"]
  BY <1>0, <1>2
<1> QED  BY <1>2, <1>4, <1>5, <1>6 DEF Again, a1, b1

-----------------------------------------------------------------------------
\* Settings as they are without a line about them in between.
LEMMA AgainSelf ==
    ASSUME NEW x, NEW k
    PROVE  Again(x, x, k, TRUE)
BY DEF Again, AgainContest, AgainNodes, AgainFields, AgainOthers, From, Untouched

RuleKeys == {"ONE_POINT", "TWO_POINTS", "RECALL_MULTS"}
ListKeys == {"DX_&_SECTIONS", "COUNTRYLIST", "PFX_NUM_MULTIS", "CONTINENTLIST"}

\* Lines about the contest that are in order, by what they set.
LEMMA ContestLineIs ==
    ASSUME NEW l
    PROVE  /\ l.key \in RuleKeys => \E f \in {"points", "recall_mult"} : \E v :
                 \A x : Settings(x) /\ Handled(x, l).ok =>
                    \A y : Handled(y, l) = Ruled(y, f, v)
           /\ l.key \in ListKeys =>
                 \E f \in {"dx_sections", "countrylist", "pfxnummulti", "continentlist"} : \E v :
                 \A x : Settings(x) /\ Handled(x, l).ok =>
                    \A y : Handled(y, l) = Listed(y, f, v)
           /\ l.key = "CONTEST" =>
                 \A x : Settings(x) /\ Handled(x, l).ok => \A y : Handled(y, l) = SetContest(y, l.val)
<1>0. ASSUME NEW x, Settings(x), NEW v
      PROVE  /\ Fail(x).ok = FALSE /\ Fail([x EXCEPT !.countrylist = v]).ok = FALSE
             /\ Fail([x EXCEPT !.continentlist = v]).ok = FALSE
  BY <1>0 DEF Fail, Settings, Home
<1>1. ASSUME l.key \in RuleKeys
      PROVE  \E f \in {"points", "recall_mult"} : \E v :
                 \A x : Settings(x) /\ Handled(x, l).ok =>
                    \A y : Handled(y, l) = Ruled(y, f, v)
  <2>1. CASE l.key = "ONE_POINT"
    <3>1. \A y : Handled(y, l) = Ruled(y, "points", "1")
      BY <2>1, Handlers DEF cfg_n_points, Ruled
    <3> QED  BY <3>1
  <2>2. CASE l.key = "TWO_POINTS"
    <3>1. \A y : Handled(y, l) = Ruled(y, "points", "2")
      BY <2>2, Handlers DEF cfg_n_points, Ruled
    <3> QED  BY <3>1
  <2>3. CASE l.key = "RECALL_MULTS"
    <3>1. \A y : Handled(y, l) = cfg_contest_bool(y, l.val)
      BY <2>3, Handlers
    <3>2. CASE l.val \in {Missing, "ON", "OFF"}
      <4>1. \A y : Handled(y, l) = Ruled(y, "recall_mult", Truth(l.val))
        BY <3>1, <3>2 DEF cfg_contest_bool, Ruled
      <4> QED  BY <4>1
    <3>3. CASE l.val \notin {Missing, "ON", "OFF"}
      <4>1. \A y : Handled(y, l) = Fail(y)
        BY <3>1, <3>3 DEF cfg_contest_bool
      <4> QED  BY <1>0, <4>1
    <3> QED  BY <3>2, <3>3
  <2> QED  BY <1>1, <2>1, <2>2, <2>3 DEF RuleKeys
<1>2. ASSUME l.key \in ListKeys
      PROVE  \E f \in {"dx_sections", "countrylist", "pfxnummulti", "continentlist"} : \E v :
                 \A x : Settings(x) /\ Handled(x, l).ok =>
                    \A y : Handled(y, l) = Listed(y, f, v)
  <2>1. CASE l.key = "DX_&_SECTIONS"
    <3>1. \A y : Handled(y, l) = Listed(y, "dx_sections", TRUE)
      BY <2>1, Handlers DEF cfg_dx_n_sections, Listed
    <3> QED  BY <3>1
  <2>2. CASE l.key = "PFX_NUM_MULTIS"
    <3>1. \A y : Handled(y, l) = Listed(y, "pfxnummulti", l.val)
      BY <2>2, Handlers DEF cfg_pfx_num_multis, Listed
    <3> QED  BY <3>1
  <2>3. CASE l.key = "COUNTRYLIST"
    <3>1. CASE l.val = Bad
      <4>1. \A y : Handled(y, l) = Fail([y EXCEPT !.countrylist = "part"])
        BY <2>3, <3>1, Handlers DEF cfg_countrylist
      <4>2. ASSUME NEW x, Settings(x), Handled(x, l).ok PROVE FALSE
        <5>1. Handled(x, l) = Fail([x EXCEPT !.countrylist = "part"])
          BY <4>1
        <5>2. Fail([x EXCEPT !.countrylist = "part"]).ok = FALSE
          BY <1>0, <4>2
        <5> QED  BY <4>2, <5>1, <5>2
      <4> QED  BY <4>2
    <3>2. CASE l.val # Bad
      <4>1. \A y : Handled(y, l) = Listed(y, "countrylist", l.val)
        BY <2>3, <3>2, Handlers DEF cfg_countrylist, Listed
      <4> QED  BY <4>1
    <3> QED  BY <3>1, <3>2
  <2>4. CASE l.key = "CONTINENTLIST"
    <3>1. CASE l.val = Bad
      <4>1. \A y : Handled(y, l) = Fail([y EXCEPT !.continentlist = "part"])
        BY <2>4, <3>1, Handlers DEF cfg_continentlist
      <4>2. ASSUME NEW x, Settings(x), Handled(x, l).ok PROVE FALSE
        <5>1. Handled(x, l) = Fail([x EXCEPT !.continentlist = "part"])
          BY <4>1
        <5>2. Fail([x EXCEPT !.continentlist = "part"]).ok = FALSE
          BY <1>0, <4>2
        <5> QED  BY <4>2, <5>1, <5>2
      <4> QED  BY <4>2
    <3>2. CASE l.val # Bad
      <4>1. \A y : Handled(y, l) = Listed(y, "continentlist", l.val)
        BY <2>4, <3>2, Handlers DEF cfg_continentlist, Listed
      <4> QED  BY <4>1
    <3> QED  BY <3>1, <3>2
  <2> QED  BY <1>2, <2>1, <2>2, <2>3, <2>4 DEF ListKeys
<1>3. ASSUME l.key = "CONTEST", NEW x, Settings(x), Handled(x, l).ok, NEW y
      PROVE  Handled(y, l) = SetContest(y, l.val)
  <2>1. Handled(x, l) = cfg_contest(x, l.val) /\ Handled(y, l) = cfg_contest(y, l.val)
    BY <1>3, Handlers
  <2> QED  BY <1>0, <1>3, <2>1 DEF cfg_contest
<1> QED  BY <1>1, <1>2, <1>3

\* The lines that write the same whatever the settings are: of the contest, and
\* of everything else.
AlikeContest == {"CONTEST_MODE", "SCOREWINDOW", "CHECKWINDOW", "LEADING_ZEROS_SERIAL", "MULT_LIST",
                 "SECTION_MULT", "EXCLUDE_MULTILIST"}
AlikeKeys == DOMAIN Texts \cup DOMAIN Selections \cup AlikeContest \cup
    {"RADIO_CONTROL", "QTC_RECV_LAZY", "THISNODE", "MFJ1278_KEYER", "GMFSK", "FLDIGI", "RTTYMODE",
     "CALL", "MYQRA", "TELNETPORT", "TNCPORT", "BANDMAP", "CHANGE_RST", "MINITEST", "BAND_X", "QTC"}

\* Every keyword is of one of these kinds.
LEMMA KindsOfLine ==
    ASSUME NEW l, ~Refused(l), l.key # "ADDNODE"
    PROVE  \/ l.key \in AlikeKeys
           \/ l.key \in RuleKeys
           \/ l.key \in ListKeys
           \/ l.key = "CONTEST"
           \/ l.key = "NODE_X"
           \/ l.key \in {"POWERMULT", "BANDWEIGHT_POINTS"}
           \/ l.key \in {"CABRILLO-FIELD", "CABRILLO-TEMPLATE"}
<1>1. l.key \in Keywords
  BY DEF Refused
<1> QED  BY <1>1 DEF Keywords, NoParam, Optional, Flags, AlikeKeys, AlikeContest, RuleKeys, ListKeys

\* The lists that can be excluded.
SameLists(a, b) == /\ a.countrylist # "" => b.countrylist # ""
                   /\ a.continentlist # "" => b.continentlist # ""

\* What lines of the first kind do to settings read again.
LEMMA LineAlike ==
    ASSUME NEW a, Settings(a), NEW b, Settings(b), NEW l, l.key \in AlikeKeys,
           SameLists(a, b),
           Handled(a, l).ok
    PROVE  Alike(a, Handled(a, l), b, Handled(b, l))
<1> DEFINE k == l.key
           v == l.val
<1>1. CASE k \in DOMAIN Flags
  <2>1. Handled(a, l) = cfg_bool(a, Flags[k], v) /\ Handled(b, l) = cfg_bool(b, Flags[k], v)
    BY <1>1 DEF Handled, Flags, Texts, Selections
  <2>2. Flags[k] \in DOMAIN Home
    <3>1. Flags[k] \in {"iscontest", "showscore_flag", "searchflg", "trx_control", "qtc_recv_lazy", "leading_zeros"}
      BY <1>1 DEF Flags
    <3>2. {"iscontest", "showscore_flag", "searchflg", "trx_control", "qtc_recv_lazy", "leading_zeros"}
              \subseteq DOMAIN Home
      BY DEF Home
    <3> QED  BY <3>1, <3>2
  <2> QED  BY <2>1, <2>2, OneAlike
<1>2. CASE k \in DOMAIN Texts
  <2>1. Handled(a, l) = cfg_string(a, Texts[k], v) /\ Handled(b, l) = cfg_string(b, Texts[k], v)
    BY <1>2 DEF Handled, Flags, Texts, Selections
  <2>2. Texts[k] \in DOMAIN Home
    <3>1. Texts[k] \in {"logfile", "cqdelay", "message", "digi_message", "cabrillo", "digital_mode"}
      BY <1>2 DEF Texts
    <3>2. {"logfile", "cqdelay", "message", "digi_message", "cabrillo", "digital_mode"} \subseteq DOMAIN Home
      BY DEF Home
    <3> QED  BY <3>1, <3>2
  <2> QED  BY <2>1, <2>2, OneAlike
<1>3. CASE k \in DOMAIN Selections
  <2>1. /\ Handled(a, l) = cfg_int_const(a, Selections[k][1], Selections[k][2])
        /\ Handled(b, l) = cfg_int_const(b, Selections[k][1], Selections[k][2])
    BY <1>3 DEF Handled, Flags, Texts, Selections
  <2>2. Selections[k][1] \in DOMAIN Home
    <3>1. Selections[k][1] \in {"cwkeyer", "trxmode", "packet", "cluster"}
      BY <1>3 DEF Selections
    <3>2. {"cwkeyer", "trxmode", "packet", "cluster"} \subseteq DOMAIN Home
      BY DEF Home
    <3> QED  BY <3>1, <3>2
  <2> QED  BY <2>1, <2>2, OneAlike
<1>4. CASE k \in {"THISNODE", "MFJ1278_KEYER", "GMFSK", "FLDIGI", "RTTYMODE"}
  <2>1. k = "THISNODE" => \A z : Handled(z, l) = cfg_thisnode(z, l.node)
    BY Handlers
  <2>2. k = "MFJ1278_KEYER" => \A z : Handled(z, l) = cfg_mfj1278_keyer(z, v)
    BY DEF Handled, Flags, Texts, Selections
  <2>3. k = "GMFSK" => \A z : Handled(z, l) = cfg_gmfsk(z, v)
    BY DEF Handled, Flags, Texts, Selections
  <2>4. k = "FLDIGI" => \A z : Handled(z, l) = cfg_fldigi(z, v)
    BY DEF Handled, Flags, Texts, Selections
  <2>5. k = "RTTYMODE" => \A z : Handled(z, l) = cfg_rttymode(z)
    BY DEF Handled, Flags, Texts, Selections
  <2> HIDE DEF k, v
  <2> QED  BY <1>4, <2>1, <2>2, <2>3, <2>4, <2>5, MoreAlike
<1>5. CASE k \in {"CALL", "MYQRA", "TELNETPORT", "TNCPORT", "BANDMAP"}
  <2>1. k = "CALL" => \A z : Handled(z, l) = cfg_call(z, v)
    BY DEF Handled, Flags, Texts, Selections
  <2>2. k = "MYQRA" => \A z : Handled(z, l) = cfg_myqra(z, v)
    BY DEF Handled, Flags, Texts, Selections
  <2>3. k = "TELNETPORT" => \A z : Handled(z, l) = cfg_telnetport(z, v)
    BY DEF Handled, Flags, Texts, Selections
  <2>4. k = "TNCPORT" => \A z : Handled(z, l) = cfg_tncport(z)
    BY DEF Handled, Flags, Texts, Selections
  <2>5. k = "BANDMAP" => \A z : Handled(z, l) = cfg_bandmap(z, v)
    BY DEF Handled, Flags, Texts, Selections
  <2> HIDE DEF k, v
  <2> QED  BY <1>5, <2>1, <2>2, <2>3, <2>4, <2>5, MoreAlike
<1>6. CASE k \in {"CHANGE_RST", "MINITEST", "QTC", "MULT_LIST", "SECTION_MULT"}
  <2>1. k = "CHANGE_RST" => \A z : Handled(z, l) = cfg_change_rst(z, v)
    BY DEF Handled, Flags, Texts, Selections
  <2>2. k = "MINITEST" => \A z : Handled(z, l) = cfg_minitest(z, v)
    BY DEF Handled, Flags, Texts, Selections
  <2>3. k = "QTC" => \A z : Handled(z, l) = cfg_qtc(z, v)
    BY DEF Handled, Flags, Texts, Selections
  <2>4. k = "MULT_LIST" => \A z : Handled(z, l) = cfg_mult_list(z, v)
    BY Handlers
  <2>5. k = "SECTION_MULT" => \A z : Handled(z, l) = cfg_section_mult(z, v)
    BY Handlers
  <2> HIDE DEF k, v
  <2> QED  BY <1>6, <2>1, <2>2, <2>3, <2>4, <2>5, MoreAlike
<1>7. CASE k = "BAND_X"
  <2>1. \A z : Handled(z, l) = cfg_string(z, "corners", v)
    BY <1>7 DEF Handled, Flags, Texts, Selections, cfg_band
  <2>2. "corners" \in DOMAIN Home
    BY DEF Home
  <2> QED  BY <2>1, <2>2, OneAlike
<1>8. CASE k = "EXCLUDE_MULTILIST"
  <2>1. \A z : Handled(z, l) = cfg_exclude_multilist(z, v)
    BY <1>8, Handlers
  <2>2. {"ok", "exclude"} \subseteq DOMAIN Home
    BY DEF Home
  <2>3. CASE v = "CONTINENTLIST" /\ a.continentlist # ""
    <3>1. b.continentlist # ""
      BY <2>3 DEF SameLists
    <3>2. /\ Handled(a, l) = [a EXCEPT !.exclude = "CONTINENT"]
          /\ Handled(b, l) = [b EXCEPT !.exclude = "CONTINENT"]
      BY <2>1, <2>3, <3>1 DEF cfg_exclude_multilist
    <3> QED  BY <2>2, <3>2 DEF Alike, AlikeIn, Settings
  <2>4. CASE v = "COUNTRYLIST" /\ a.countrylist # ""
    <3>1. b.countrylist # ""
      BY <2>4 DEF SameLists
    <3>2. /\ Handled(a, l) = [a EXCEPT !.exclude = "COUNTRY"]
          /\ Handled(b, l) = [b EXCEPT !.exclude = "COUNTRY"]
      BY <2>1, <2>4, <3>1 DEF cfg_exclude_multilist
    <3> QED  BY <2>2, <3>2 DEF Alike, AlikeIn, Settings
  <2>5. CASE ~(v = "CONTINENTLIST" /\ a.continentlist # "") /\ ~(v = "COUNTRYLIST" /\ a.countrylist # "")
    <3>1. Handled(a, l) = Fail(a)
      BY <2>1, <2>5 DEF cfg_exclude_multilist
    <3>2. Fail(a).ok = FALSE
      BY <2>2 DEF Fail, Settings
    <3> QED  BY <3>1, <3>2
  <2> QED  BY <2>3, <2>4, <2>5
<1>9. \/ k \in DOMAIN Flags \cup DOMAIN Texts \cup DOMAIN Selections
      \/ k \in {"THISNODE", "MFJ1278_KEYER", "GMFSK", "FLDIGI", "RTTYMODE"}
      \/ k \in {"CALL", "MYQRA", "TELNETPORT", "TNCPORT", "BANDMAP"}
      \/ k \in {"CHANGE_RST", "MINITEST", "QTC", "MULT_LIST", "SECTION_MULT"}
      \/ k \in {"BAND_X", "EXCLUDE_MULTILIST"}
  BY DEF AlikeKeys, AlikeContest, Flags
<1> QED  BY <1>1, <1>2, <1>3, <1>4, <1>5, <1>6, <1>7, <1>8, <1>9

\* One line without an error, but ADDNODE: the settings stay sane, and the
\* contest keeps its name, unless the line gives one.
LEMMA LineSane ==
    ASSUME NEW x, Sane(x), x.ok, NEW l \in ConfigLines, ~Refused(l), l.key # "ADDNODE", Handled(x, l).ok
    PROVE  LET x1 == Handled(x, l) IN
           /\ Sane(x1) /\ Onward(x, x1)
           /\ l.key # "CONTEST" => x1.whichcontest = x.whichcontest
<1> DEFINE x1 == Handled(x, l)
           t == Topic(l.key)
<1>0. Settings(x) /\ SaneContest(x) /\ SaneNodes(x) /\ Whole(x.cab) /\ Again(x, x, x, TRUE)
  BY AgainSelf DEF Sane
<1>1. Settings(x1) /\ Frame(x, x1, t)
  <2>1. Agree(x, x, t)
    BY DEF Agree
  <2> QED  BY <1>0, <2>1, LineConfined DEF Confined
<1>2. /\ l.key \in AlikeContest \cup RuleKeys \cup ListKeys \cup {"CONTEST"} => t = "CONTEST"
      /\ l.key \in {"NODE_X", "THISNODE"} => t = "ADDNODE"
      /\ l.key \in {"CABRILLO", "CABRILLO-FIELD", "CABRILLO-TEMPLATE"} => t = "CABRILLO-FIELD"
      /\ l.key = "POWERMULT" => t = "POWERMULT"
      /\ l.key = "BANDWEIGHT_POINTS" => t = "BANDWEIGHT_POINTS"
      /\ l.key \in AlikeKeys \ (AlikeContest \cup {"THISNODE", "CABRILLO"}) =>
            t \notin {"CONTEST", "ADDNODE", "CABRILLO-FIELD", "POWERMULT", "BANDWEIGHT_POINTS"}
  <2>1. /\ l.key \in AlikeContest \cup RuleKeys \cup ListKeys \cup {"CONTEST"} => l.key \in Topics[1]
        /\ l.key \in {"NODE_X", "THISNODE"} => l.key \in Topics[2]
        /\ l.key \in {"CABRILLO", "CABRILLO-FIELD", "CABRILLO-TEMPLATE"} => l.key \in Topics[6]
        /\ l.key \in {"POWERMULT", "BANDWEIGHT_POINTS"} => \A i \in 1 .. 6 : l.key \notin Topics[i]
    BY DEF Topics, AlikeContest, RuleKeys, ListKeys
  <2>2. l.key \in AlikeKeys \ (AlikeContest \cup {"THISNODE", "CABRILLO"}) =>
            \/ l.key \in Topics[3] \cup Topics[4] \cup Topics[5]
            \/ /\ \A i \in 1 .. 6 : l.key \notin Topics[i]
               /\ l.key \notin {"CONTEST", "ADDNODE", "CABRILLO-FIELD", "POWERMULT", "BANDWEIGHT_POINTS"}
    BY DEF Topics, AlikeKeys, AlikeContest, Texts, Selections
  <2> QED  BY <2>1, <2>2, TopicsAre
<1> HIDE DEF x1, t
<1> SUFFICES Sane(x1) /\ Onward(x, x1) /\ (l.key # "CONTEST" => x1.whichcontest = x.whichcontest)
  BY DEF x1
<1>3. /\ t # "CONTEST" => /\ SaneContest(x1) /\ x1.whichcontest = x.whichcontest
      /\ t # "ADDNODE" => SaneNodes(x1) /\ x1.nodes = x.nodes
      /\ t # "CABRILLO-FIELD" => x1.cab = x.cab
      /\ t # "POWERMULT" => x1.fixedmult = x.fixedmult
      /\ t # "BANDWEIGHT_POINTS" => x1.bandweight = x.bandweight
  <2>1. \A f \in {"whichcontest", "contest", "qso_once", "multlist", "leading_zeros",
                  "points", "recall_mult"} :
           t # "CONTEST" => x1[f] = x[f]
    BY <1>1 DEF Frame, Home
  <2>2. \A f \in {"nodes", "host", "named"} : t # "ADDNODE" => x1[f] = x[f]
    BY <1>1 DEF Frame, Home
  <2>3. /\ t # "CABRILLO-FIELD" => x1["cab"] = x["cab"]
        /\ t # "POWERMULT" => x1["fixedmult"] = x["fixedmult"]
        /\ t # "BANDWEIGHT_POINTS" => x1["bandweight"] = x["bandweight"]
    BY <1>1 DEF Frame, Home
  <2>4. t # "CONTEST" => SaneContest(x1) /\ x1.whichcontest = x.whichcontest
    BY <1>0, <2>1 DEF SaneContest
  <2>5. t # "ADDNODE" => SaneNodes(x1) /\ x1.nodes = x.nodes
    BY <1>0, <2>2 DEF SaneNodes
  <2> QED  BY <2>3, <2>4, <2>5
<1>4. /\ t # "CABRILLO-FIELD" => Whole(x1.cab)
      /\ x.fixedmult # "0" => x1.fixedmult = x.fixedmult
      /\ x.bandweight # "" => x1.bandweight = x.bandweight
  <2>1. t # "CABRILLO-FIELD" => Whole(x1.cab)
    BY <1>0, <1>3
  <2>2. t = "POWERMULT" /\ x.fixedmult # "0" => x1.fixedmult = x.fixedmult
    <3>1. t = "POWERMULT" => l.key = "POWERMULT"
      BY <1>2, KindsOfLine
    <3>2. l.key = "POWERMULT" => x1 = cfg_powermult(x, l.val)
      BY Handlers DEF x1
    <3>3. cfg_powermult(x, l.val).fixedmult = IF x.fixedmult = "0" THEN l.val ELSE x.fixedmult
      BY <1>0 DEF cfg_powermult, Settings, Home
    <3> QED  BY <3>1, <3>2, <3>3
  <2>3. t = "BANDWEIGHT_POINTS" /\ x.bandweight # "" => x1.bandweight = x.bandweight
    <3>1. t = "BANDWEIGHT_POINTS" => l.key = "BANDWEIGHT_POINTS"
      BY <1>2, KindsOfLine
    <3>2. l.key = "BANDWEIGHT_POINTS" => x1 = cfg_bandweight(x, l.val)
      BY Handlers DEF x1
    <3>3. cfg_bandweight(x, l.val).bandweight = IF x.bandweight = "" THEN l.val ELSE x.bandweight
      BY <1>0 DEF cfg_bandweight, Settings, Home
    <3> QED  BY <3>1, <3>2, <3>3
  <2> QED  BY <1>3, <2>1, <2>2, <2>3
<1>h. Settings(x1) /\ SaneContest(x1) /\ SaneNodes(x1) /\ Whole(x1.cab) => Sane(x1)
  BY DEF Sane
<1>n. x1.nodes = x.nodes => Onward(x, x1)
  <2>1. x.nodes \in Nat
    BY <1>0 DEF SaneNodes
  <2>2. x1.nodes = x.nodes => x.nodes <= x1.nodes
    BY <2>1
  <2> QED  BY <1>4, <2>2 DEF Onward
<1>5. CASE l.key \in AlikeContest
  <2>1. PICK f \in {"iscontest", "showscore_flag", "searchflg", "leading_zeros", "multlist",
                   "sectn_mult", "exclude"} :
           /\ f = "leading_zeros" => x1[f] \in BOOLEAN
           /\ f = "multlist" => x1[f] = TRUE
           /\ \A g \in DOMAIN Home \ {f, "multsfile"} : x1[g] = x[g]
    <3>0. {"ok", "iscontest", "showscore_flag", "searchflg", "leading_zeros", "multlist", "multsfile",
           "sectn_mult", "exclude"} \subseteq DOMAIN Home /\ Fail(x).ok = FALSE
      BY <1>0 DEF Home, Fail, Settings
    <3>1. ASSUME NEW g \in {"iscontest", "showscore_flag", "searchflg", "leading_zeros", "sectn_mult", "exclude"},
                 NEW w, x1 = [x EXCEPT ![g] = w],
                 g = "leading_zeros" => w \in BOOLEAN
          PROVE  \E f \in {"iscontest", "showscore_flag", "searchflg", "leading_zeros", "multlist", "sectn_mult",
                         "exclude"} :
                    /\ f = "leading_zeros" => x1[f] \in BOOLEAN
                    /\ f = "multlist" => x1[f] = TRUE
                    /\ \A h \in DOMAIN Home \ {f, "multsfile"} : x1[h] = x[h]
      <4>1. x1[g] = w /\ \A h \in DOMAIN Home \ {g, "multsfile"} : x1[h] = x[h]
        BY <1>0, <3>0, <3>1 DEF Settings
      <4> QED  BY <3>1, <4>1
    <3>2. CASE l.key \in {"CONTEST_MODE", "SCOREWINDOW", "CHECKWINDOW", "LEADING_ZEROS_SERIAL"}
      <4>1. PICK g \in {"iscontest", "showscore_flag", "searchflg", "leading_zeros"} : x1 = cfg_bool(x, g, l.val)
        BY <3>2, Handlers DEF x1
      <4>2. l.val \in {Missing, "ON", "OFF"} /\ x1 = [x EXCEPT ![g] = Truth(l.val)]
        BY <3>0, <4>1 DEF cfg_bool, x1
      <4>3. Truth(l.val) \in BOOLEAN
        BY DEF Truth
      <4> QED  BY <3>1, <4>2, <4>3
    <3>3. CASE l.key = "SECTION_MULT"
      <4>1. x1 = cfg_section_mult(x, l.val) /\ x1.ok
        BY <3>3, Handlers DEF x1
      <4>2. PICK w : x1 = [x EXCEPT !["sectn_mult"] = w]
        BY <3>0, <4>1 DEF cfg_section_mult, set_multi_mode
      <4> QED  BY <3>1, <4>2
    <3>4. CASE l.key = "EXCLUDE_MULTILIST"
      <4>1. x1 = cfg_exclude_multilist(x, l.val) /\ x1.ok
        BY <3>4, Handlers DEF x1
      <4>2. PICK w : x1 = [x EXCEPT !["exclude"] = w]
        BY <3>0, <4>1 DEF cfg_exclude_multilist
      <4> QED  BY <3>1, <4>2
    <3>5. CASE l.key = "MULT_LIST"
      <4>1. x1 = cfg_mult_list(x, l.val) /\ x1.ok
        BY <3>5, Handlers DEF x1
      <4>2. x1 = [x EXCEPT !.multsfile = l.val, !.multlist = TRUE]
        BY <3>0, <4>1 DEF cfg_mult_list
      <4>3. x1["multlist"] = TRUE /\ \A h \in DOMAIN Home \ {"multlist", "multsfile"} : x1[h] = x[h]
        BY <1>0, <3>0, <4>2 DEF Settings
      <4> QED  BY <4>3
    <3> QED  BY <1>5, <3>2, <3>3, <3>4, <3>5 DEF AlikeContest
  <2>2. \A g \in {"whichcontest", "contest", "qso_once", "points", "recall_mult"} : x1[g] = x[g]
    BY <2>1 DEF Home
  <2>3. /\ x1["leading_zeros"] \in BOOLEAN /\ x1["multlist"] \in BOOLEAN
        /\ x["multlist"] = TRUE => x1["multlist"] = TRUE
    <3>1. x["leading_zeros"] \in BOOLEAN /\ x["multlist"] \in BOOLEAN
      BY <1>0 DEF SaneContest
    <3>2. f # "leading_zeros" => x1["leading_zeros"] = x["leading_zeros"]
      BY <2>1 DEF Home
    <3>3. f # "multlist" => x1["multlist"] = x["multlist"]
      BY <2>1 DEF Home
    <3> QED  BY <2>1, <3>1, <3>2, <3>3
  <2>4. SaneContest(x1) /\ x1.whichcontest = x.whichcontest
    BY <1>0, <2>2, <2>3 DEF SaneContest
  <2>5. SaneNodes(x1) /\ x1.nodes = x.nodes /\ Whole(x1.cab)
    BY <1>2, <1>3, <1>4, <1>5
  <2> QED  BY <1>1, <1>h, <1>n, <2>4, <2>5
<1>6. CASE l.key \in RuleKeys
  <2>1. PICK f \in {"points", "recall_mult"} :
           \E v : x1 = Ruled(x, f, v)
    BY <1>0, <1>6, ContestLineIs DEF x1
  <2>v. PICK v : x1 = Ruled(x, f, v)
    BY <2>1
  <2>2. SaneContest(x1)
    BY <1>0, <2>v, RuleAgain
  <2>3. x1.whichcontest = x.whichcontest
    <3>1. x1 = [x EXCEPT ![f] = [x[f] EXCEPT ![x.contest] = v]]
      BY <2>v DEF Ruled
    <3> QED  BY <1>0, <3>1 DEF Settings, Home
  <2>4. SaneNodes(x1) /\ x1.nodes = x.nodes /\ Whole(x1.cab)
    BY <1>2, <1>3, <1>4, <1>6
  <2> QED  BY <1>1, <1>h, <1>n, <2>2, <2>3, <2>4
<1>7. CASE l.key \in ListKeys
  <2>1. PICK f \in {"dx_sections", "countrylist", "pfxnummulti", "continentlist"} :
           \E v : x1 = Listed(x, f, v)
    BY <1>0, <1>7, ContestLineIs DEF x1
  <2>v. PICK v : x1 = Listed(x, f, v)
    BY <2>1
  <2>3. SaneContest(x1)
    BY <1>0, <2>v, ListAgain
  <2>4. x1.whichcontest = x.whichcontest
    <3>1. DOMAIN [x EXCEPT ![f] = v] = DOMAIN Home
      BY <1>0 DEF Settings
    <3> QED  BY <2>v, <3>1 DEF SetContest, Home, Listed
  <2>5. SaneNodes(x1) /\ x1.nodes = x.nodes /\ Whole(x1.cab)
    BY <1>2, <1>3, <1>4, <1>7
  <2> QED  BY <1>1, <1>h, <1>n, <2>3, <2>4, <2>5
<1>8. CASE l.key = "CONTEST"
  <2>1. x1 = SetContest(x, l.val)
    BY <1>0, <1>8, ContestLineIs DEF x1
  <2>2. SaneContest(x1)
    BY <1>0, <2>1, SetContestIs DEF ContestSet
  <2>3. SaneNodes(x1) /\ x1.nodes = x.nodes /\ Whole(x1.cab)
    BY <1>2, <1>3, <1>4, <1>8
  <2> QED  BY <1>1, <1>h, <1>n, <1>8, <2>2, <2>3
<1>9. CASE l.key = "NODE_X"
  <2>1. l.node < MaxNodes
    <3>1. l.node \in Nat
      BY <1>9, StartsAssumption
    <3> QED  BY <1>0, <1>9, <3>1, NodeFits, NodesAssumption
  <2>2. SaneNodes(x1) /\ x.nodes <= x1.nodes
    BY <1>9, <2>1, NodeIs DEF x1
  <2>3. SaneContest(x1) /\ x1.whichcontest = x.whichcontest /\ Whole(x1.cab)
    BY <1>2, <1>3, <1>4, <1>9
  <2> QED  BY <1>1, <1>4, <2>2, <2>3 DEF Sane, Onward
<1>10. CASE l.key = "THISNODE"
  <2>1. x1 = cfg_thisnode(x, l.node)
    BY <1>10, Handlers DEF x1
  <2>2. \A f \in {"nodes", "host", "named"} : x1[f] = x[f]
    <3>1. x1 = [x EXCEPT !.ok = FALSE] \/ x1 = [x EXCEPT !.thisnode = l.node]
      BY <2>1 DEF cfg_thisnode, Fail
    <3> QED  BY <1>0, <3>1 DEF Settings, Home
  <2>3. SaneNodes(x1) /\ x1.nodes = x.nodes
    BY <1>0, <2>2 DEF SaneNodes
  <2>4. SaneContest(x1) /\ x1.whichcontest = x.whichcontest /\ Whole(x1.cab)
    BY <1>2, <1>3, <1>4, <1>10
  <2> QED  BY <1>1, <1>h, <1>n, <2>3, <2>4
<1>11. CASE l.key \in {"CABRILLO-FIELD", "CABRILLO-TEMPLATE"}
  <2>1. Whole(x1.cab)
    BY <1>0, <1>11, HeaderLinesAgain DEF x1
  <2>2. SaneContest(x1) /\ x1.whichcontest = x.whichcontest /\ SaneNodes(x1) /\ x1.nodes = x.nodes
    BY <1>2, <1>3, <1>11
  <2> QED  BY <1>1, <1>h, <1>n, <2>1, <2>2
<1>12. CASE t \notin {"CONTEST", "ADDNODE", "CABRILLO-FIELD"}
  BY <1>1, <1>3, <1>4, <1>12, <1>h, <1>n
<1>13. CASE l.key = "CABRILLO"
  <2>1. x1 = cfg_string(x, "cabrillo", l.val)
    BY <1>13 DEF Handled, Flags, Texts, Selections, x1
  <2>2. x1.cab = x.cab
    BY <1>0, <2>1 DEF cfg_string, Fail, Settings, Home
  <2>3. SaneContest(x1) /\ x1.whichcontest = x.whichcontest /\ SaneNodes(x1) /\ x1.nodes = x.nodes
    BY <1>2, <1>3, <1>13
  <2> QED  BY <1>0, <1>1, <1>h, <1>n, <2>2, <2>3
<1> QED
  BY <1>2, <1>5, <1>6, <1>7, <1>8, <1>9, <1>10, <1>11, <1>12, <1>13, KindsOfLine

\* The same line, both times.
LEMMA LineAgain ==
    ASSUME NEW a, Sane(a), a.ok, NEW b, Sane(b), b.ok, NEW k, SaneContest(k), k.nodes \in Nat,
           NEW settled \in BOOLEAN, NEW settled1, Again(a, b, k, settled),
           NEW l \in ConfigLines, ~Refused(l), l.key # "ADDNODE",
           Handled(a, l).ok, Onward(Handled(a, l), k),
           l.key \in RuleKeys => settled = TRUE,
           l.key = "CONTEST" => (settled1 /\ k.contest = "arrl_ss" => lookup_contest(l.val) = "arrl_ss"),
           l.key # "CONTEST" => settled1 = settled
    PROVE  LET a1 == Handled(a, l)
               b1 == Handled(b, l)
           IN  b1.ok /\ Sane(b1) /\ Again(a1, b1, k, settled1)
<1> DEFINE a1 == Handled(a, l)
           b1 == Handled(b, l)
<1>0. Settings(a) /\ SaneContest(a) /\ Settings(b) /\ SaneContest(b)
  BY DEF Sane
<1> SUFFICES b1.ok /\ Again(a1, b1, k, settled1)
  BY LineSane
<1>1. CASE l.key \in AlikeKeys
  <2>1. SameLists(a, b)
    <3>1. \A f \in {"countrylist", "continentlist"} : Untouched(a, b, k, f)
      BY DEF Again, AgainOthers, Assigned
    <3>2. Defaults["countrylist"] = "" /\ Defaults["continentlist"] = ""
      BY DEF Defaults
    <3> QED  BY <3>1, <3>2 DEF SameLists, Untouched
  <2>2. Alike(a, a1, b, b1)
    BY <1>0, <1>1, <2>1, LineAlike
  <2>3. "ok" \in DOMAIN Home
    BY DEF Home
  <2>4. settled1 = settled
    BY <1>1 DEF AlikeKeys, AlikeContest, Texts, Selections
  <2> HIDE DEF a1, b1
  <2>5. a1["ok"] = b1["ok"] \/ b1["ok"] = b["ok"]
    BY <2>2, <2>3 DEF Alike, AlikeIn
  <2>6. b1.ok
    BY <2>5 DEF a1
  <2> QED  BY <2>2, <2>4, <2>6, AlikeAgain
<1>2. CASE l.key \in RuleKeys
  <2>1. PICK f \in {"points", "recall_mult"} :
           \E v : \A y : Handled(y, l) = Ruled(y, f, v)
    BY <1>0, <1>2, ContestLineIs
  <2>v. PICK v : \A y : Handled(y, l) = Ruled(y, f, v)
    BY <2>1
  <2>2. settled = TRUE /\ settled1 = TRUE
    BY <1>2 DEF RuleKeys
  <2>3. a1 = Ruled(a, f, v) /\ b1 = Ruled(b, f, v)
    BY <2>v
  <2> HIDE DEF a1, b1
  <2>4. Again(a, b, k, TRUE)
    BY <2>2
  <2>5. b1.ok = b.ok /\ Again(a1, b1, k, TRUE)
    BY <1>0, <2>3, <2>4, RuleAgain
  <2> QED  BY <2>2, <2>5
<1>3. CASE l.key \in ListKeys
  <2>1. PICK f \in {"dx_sections", "countrylist", "pfxnummulti", "continentlist"} :
           \E v : \A y : Handled(y, l) = Listed(y, f, v)
    BY <1>0, <1>3, ContestLineIs
  <2>v. PICK v : \A y : Handled(y, l) = Listed(y, f, v)
    BY <2>1
  <2>2. settled1 = settled
    BY <1>3 DEF ListKeys
  <2>3. a1 = Listed(a, f, v) /\ b1 = Listed(b, f, v)
    BY <2>v
  <2> HIDE DEF a1, b1
  <2>4. b1.ok /\ Again(a1, b1, k, settled)
    <3>1. Again(Listed(a, f, v), Listed(b, f, v), k, settled)
      BY <1>0, ListAgain
    <3>2. Listed(b, f, v).ok
      BY <1>0, ListAgain
    <3> QED  BY <2>3, <3>1, <3>2
  <2> QED  BY <2>2, <2>4
<1>4. CASE l.key = "CONTEST"
  <2>1. a1 = SetContest(a, l.val) /\ b1 = SetContest(b, l.val)
    BY <1>0, <1>4, ContestLineIs
  <2>2. BothNamed(a, b, k, settled, l.val, l.val, settled1)
    BY <1>4 DEF BothNamed
  <2> HIDE DEF a1, b1
  <2>3. b1.ok = b.ok /\ Again(a1, b1, k, settled1)
    BY <1>0, <2>1, <2>2, ContestAgain
  <2> QED  BY <2>3
<1>5. CASE l.key = "NODE_X"
  <2>1. settled1 = settled
    BY <1>5
  <2>2. b1.ok = a1.ok /\ Again(a1, b1, k, settled)
    BY <1>5, NodeAgain
  <2> QED  BY <2>1, <2>2
<1>6. CASE l.key \in {"POWERMULT", "BANDWEIGHT_POINTS"}
  <2>1. settled1 = settled
    BY <1>6
  <2>2. b1.ok /\ Again(a1, b1, k, settled)
    <3>1. b1.ok
      BY <1>6, FirstAgain
    <3>2. Again(Handled(a, l), Handled(b, l), k, settled)
      BY <1>6, FirstAgain
    <3> QED  BY <3>1, <3>2
  <2> QED  BY <2>1, <2>2
<1>7. CASE l.key \in {"CABRILLO-FIELD", "CABRILLO-TEMPLATE"}
  <2>1. settled1 = settled
    BY <1>7
  <2>2. b1.ok = a1.ok /\ Again(a1, b1, k, settled)
    BY <1>7, HeaderLinesAgain
  <2> QED  BY <2>1, <2>2
<1> QED  BY <1>1, <1>2, <1>3, <1>4, <1>5, <1>6, <1>7, KindsOfLine

-----------------------------------------------------------------------------
\* A file that is read without an error: every line of it.
LEMMA EveryLine ==
    ASSUME NEW x, Settings(x), NEW file \in Seq(ConfigLines), NEW f, FileSteps(f, x, file, Len(file)),
           f[Len(file)].ok
    PROVE  /\ f[0] = x /\ f[0].ok
           /\ \A i \in 1 .. Len(file) : f[i].ok /\ (Settings(f[i - 1]) =>
                  /\ ~Refused(file[i]) /\ f[i] = Handled(f[i - 1], file[i]) /\ Handled(f[i - 1], file[i]).ok)
<1>1. Len(file) \in Nat /\ f[0] = x
  BY DEF FileSteps
<1>2. \A i \in 1 .. Len(file) : f[i] = IF f[i - 1].ok THEN Apply(f[i - 1], file[i]) ELSE f[i - 1]
  BY DEF FileSteps
<1> DEFINE S == {n \in Nat : n <= Len(file) => f[Len(file) - n].ok}
<1>3. 0 \in S
  BY <1>1
<1>4. ASSUME NEW n \in Nat, n \in S
      PROVE  n + 1 \in S
  <2> SUFFICES ASSUME n + 1 <= Len(file) PROVE f[Len(file) - (n + 1)].ok
    OBVIOUS
  <2> DEFINE i == Len(file) - n
  <2>1. i \in 1 .. Len(file) /\ i - 1 = Len(file) - (n + 1)
    BY <1>1
  <2>2. f[i].ok
    BY <1>1, <1>4
  <2> HIDE DEF i
  <2> QED  BY <1>2, <2>1, <2>2
<1> HIDE DEF S
<1>5. \A n \in Nat : n \in S
  BY <1>3, <1>4, SetInduction
<1>6. \A i \in 0 .. Len(file) : f[i].ok
  <2> TAKE i \in 0 .. Len(file)
  <2>1. Len(file) - i \in Nat /\ Len(file) - i <= Len(file) /\ Len(file) - (Len(file) - i) = i
    BY <1>1
  <2> QED  BY <1>5, <2>1 DEF S
<1>7. ASSUME NEW i \in 1 .. Len(file), Settings(f[i - 1])
      PROVE  ~Refused(file[i]) /\ f[i] = Handled(f[i - 1], file[i]) /\ Handled(f[i - 1], file[i]).ok
  <2>1. i - 1 \in 0 .. Len(file) /\ i \in 0 .. Len(file)
    BY <1>1
  <2>2. f[i] = Apply(f[i - 1], file[i]) /\ f[i].ok
    BY <1>2, <1>6, <2>1
  <2>3. Refused(file[i]) => f[i] = Fail(f[i - 1])
    BY <2>2 DEF Apply
  <2>4. Fail(f[i - 1]).ok = FALSE
    BY <1>7 DEF Fail, Settings, Home
  <2> QED  BY <2>2, <2>3, <2>4 DEF Apply
<1>8. \A i \in 1 .. Len(file) : i \in 0 .. Len(file)
  BY <1>1
<1>9. 0 \in 0 .. Len(file)
  BY <1>1
<1> QED  BY <1>1, <1>6, <1>7, <1>8, <1>9

\* Lines after the i-th name the contest no more.
Named(file, i) == \A j \in 1 .. Len(file) : j > i => file[j].key # "CONTEST"

NoMoreNodes(file) == \A i \in 1 .. Len(file) : file[i].key # "ADDNODE"

\* From one settings to the next, and on.
LEMMA OnwardTwice ==
    ASSUME NEW x, x.nodes \in Nat, NEW y, y.nodes \in Nat, NEW z, z.nodes \in Nat,
           Onward(x, y), Onward(y, z)
    PROVE  Onward(x, z)
<1>1. x.nodes <= z.nodes
  <2>1. x.nodes <= y.nodes /\ y.nodes <= z.nodes
    BY DEF Onward
  <2> QED  BY <2>1
<1>2. x.fixedmult # "0" => z.fixedmult = x.fixedmult
  BY DEF Onward
<1>3. x.bandweight # "" => z.bandweight = x.bandweight
  BY DEF Onward
<1> QED  BY <1>1, <1>2, <1>3 DEF Onward

\* What stays from line to line.
LEMMA FileSane ==
    ASSUME NEW x, Sane(x), NEW file \in Seq(ConfigLines), NoMoreNodes(file),
           NEW f, FileSteps(f, x, file, Len(file)), f[Len(file)].ok
    PROVE  /\ \A i \in 0 .. Len(file) : Sane(f[i]) /\ Onward(f[i], f[Len(file)])
           /\ \A i \in 0 .. Len(file) : Named(file, i) => f[Len(file)].whichcontest = f[i].whichcontest
<1>0. Len(file) \in Nat /\ Settings(x) /\ \A i \in 1 .. Len(file) : file[i] \in ConfigLines
  BY DEF Sane
<1>1. /\ f[0] = x
      /\ \A i \in 0 .. Len(file) : f[i].ok
      /\ \A i \in 1 .. Len(file) : Settings(f[i - 1]) =>
            ~Refused(file[i]) /\ f[i] = Handled(f[i - 1], file[i]) /\ Handled(f[i - 1], file[i]).ok
  <2>1. \A i \in 0 .. Len(file) : i = 0 \/ i \in 1 .. Len(file)
    BY <1>0
  <2> QED  BY <1>0, <2>1, EveryLine
<1>2. ASSUME NEW i \in 1 .. Len(file), Sane(f[i - 1])
      PROVE  /\ Sane(f[i]) /\ Onward(f[i - 1], f[i])
             /\ file[i].key # "CONTEST" => f[i].whichcontest = f[i - 1].whichcontest
  <2>1. f[i - 1].ok /\ file[i] \in ConfigLines /\ file[i].key # "ADDNODE"
    <3>1. i - 1 \in 0 .. Len(file)
      BY <1>0
    <3> QED  BY <1>0, <1>1, <3>1 DEF NoMoreNodes
  <2>2. ~Refused(file[i]) /\ f[i] = Handled(f[i - 1], file[i]) /\ Handled(f[i - 1], file[i]).ok
    BY <1>1, <1>2 DEF Sane
  <2> QED  BY <1>2, <2>1, <2>2, LineSane
<1> DEFINE S == {i \in Nat : i <= Len(file) => Sane(f[i])}
<1>3. 0 \in S
  BY <1>1
<1>4. ASSUME NEW i \in Nat, i \in S
      PROVE  i + 1 \in S
  <2> SUFFICES ASSUME i + 1 <= Len(file) PROVE Sane(f[i + 1])
    OBVIOUS
  <2>1. i + 1 \in 1 .. Len(file) /\ (i + 1) - 1 = i /\ i <= Len(file)
    BY <1>0
  <2>2. Sane(f[i])
    BY <1>4, <2>1
  <2> QED  BY <1>2, <2>1, <2>2
<1> HIDE DEF S
<1>5. \A i \in Nat : i \in S
  BY <1>3, <1>4, SetInduction
<1>6. \A i \in 0 .. Len(file) : Sane(f[i])
  BY <1>0, <1>5 DEF S
<1> DEFINE Ends(i) == /\ Onward(f[i], f[Len(file)])
                      /\ Named(file, i) => f[Len(file)].whichcontest = f[i].whichcontest
           T == {n \in Nat : n <= Len(file) => Ends(Len(file) - n)}
<1>7. 0 \in T
  <2>1. f[Len(file)].nodes \in Nat
    <3>1. Len(file) \in 0 .. Len(file)
      BY <1>0
    <3> QED  BY <1>6, <3>1 DEF Sane, SaneNodes
  <2>2. Onward(f[Len(file)], f[Len(file)])
    BY <2>1 DEF Onward
  <2>3. Len(file) - 0 = Len(file)
    BY <1>0
  <2> QED  BY <2>2, <2>3
<1>8. ASSUME NEW n \in Nat, n \in T
      PROVE  n + 1 \in T
  <2> SUFFICES ASSUME n + 1 <= Len(file) PROVE Ends(Len(file) - (n + 1))
    OBVIOUS
  <2> DEFINE i == Len(file) - n
  <2>1. i \in 1 .. Len(file) /\ i - 1 = Len(file) - (n + 1) /\ i - 1 \in 0 .. Len(file) /\ i \in Nat
    BY <1>0
  <2>2. Ends(i)
    <3>1. n <= Len(file)
      BY <1>0
    <3> QED  BY <1>8, <3>1
  <2>3. Sane(f[i - 1]) /\ Sane(f[i]) /\ Sane(f[Len(file)])
    BY <1>0, <1>6, <2>1
  <2> HIDE DEF i
  <2>4. /\ Onward(f[i - 1], f[i])
        /\ file[i].key # "CONTEST" => f[i].whichcontest = f[i - 1].whichcontest
    BY <1>2, <2>1, <2>3
  <2>5. Onward(f[i - 1], f[Len(file)])
    <3>1. f[i - 1].nodes \in Nat /\ f[i].nodes \in Nat /\ f[Len(file)].nodes \in Nat
      BY <2>3 DEF Sane, SaneNodes
    <3>2. Onward(f[i], f[Len(file)])
      BY <2>2
    <3> QED  BY <2>4, <3>1, <3>2, OnwardTwice
  <2>6. Named(file, i - 1) => file[i].key # "CONTEST" /\ Named(file, i)
    BY <2>1 DEF Named
  <2>7. Ends(i - 1)
    BY <2>2, <2>4, <2>5, <2>6
  <2> QED  BY <2>1, <2>7
<1> HIDE DEF T, Ends
<1>9. \A n \in Nat : n \in T
  BY <1>7, <1>8, SetInduction
<1>10. \A i \in 0 .. Len(file) : Ends(i)
  <2> TAKE i \in 0 .. Len(file)
  <2>1. Len(file) - i \in Nat /\ Len(file) - i <= Len(file) /\ Len(file) - (Len(file) - i) = i
    BY <1>0
  <2> QED  BY <1>9, <2>1 DEF T
<1> QED  BY <1>6, <1>10 DEF Ends

\* A file read again: points and multipliers in it belong to the contest that it
\* names last.
LEMMA FileAgain ==
    ASSUME NEW a, Sane(a), NEW b, Sane(b), b.ok, NEW k, SaneContest(k), k.nodes \in Nat,
           NEW file \in Seq(ConfigLines), NoMoreNodes(file),
           \A i, j \in 1 .. Len(file) : file[i].key \in RuleKeys /\ file[j].key = "CONTEST" => j < i,
           ReadFile(a, file).ok, Onward(ReadFile(a, file), k), Again(a, b, k, Named(file, 0)),
           k.contest = "arrl_ss" => ReadFile(a, file).contest = "arrl_ss"
    PROVE  LET ra == ReadFile(a, file)
               rb == ReadFile(b, file)
           IN  Sane(ra) /\ Sane(rb) /\ rb.ok /\ Again(ra, rb, k, TRUE)
<1>0. Len(file) \in Nat /\ \A i \in 1 .. Len(file) : file[i] \in ConfigLines /\ file[i].key # "ADDNODE"
  BY DEF NoMoreNodes
<1>1. PICK fa : FileSteps(fa, a, file, Len(file)) /\ ReadFile(a, file) = fa[Len(file)]
  BY <1>0, FileResult
<1>2. PICK fb : FileSteps(fb, b, file, Len(file)) /\ ReadFile(b, file) = fb[Len(file)]
  BY <1>0, FileResult
<1>3. /\ fa[0] = a
      /\ \A i \in 0 .. Len(file) : fa[i].ok /\ Sane(fa[i]) /\ Onward(fa[i], fa[Len(file)])
                                   /\ (Named(file, i) => fa[Len(file)].whichcontest = fa[i].whichcontest)
      /\ \A i \in 1 .. Len(file) : ~Refused(file[i]) /\ fa[i] = Handled(fa[i - 1], file[i])
                                   /\ Handled(fa[i - 1], file[i]).ok
  <2>1. \A i \in 0 .. Len(file) : i = 0 \/ i \in 1 .. Len(file)
    BY <1>0
  <2>2. \A i \in 1 .. Len(file) : i - 1 \in 0 .. Len(file)
    BY <1>0
  <2>3. Settings(a)
    BY DEF Sane
  <2>4. \A i \in 0 .. Len(file) : Sane(fa[i]) /\ Onward(fa[i], fa[Len(file)])
                                  /\ (Named(file, i) => fa[Len(file)].whichcontest = fa[i].whichcontest)
    BY <1>1, FileSane
  <2>5. \A i \in 1 .. Len(file) : Settings(fa[i - 1])
    BY <2>2, <2>4 DEF Sane
  <2>6. /\ fa[0] = a /\ fa[0].ok
        /\ \A i \in 1 .. Len(file) : fa[i].ok /\ (Settings(fa[i - 1]) =>
              /\ ~Refused(file[i]) /\ fa[i] = Handled(fa[i - 1], file[i]) /\ Handled(fa[i - 1], file[i]).ok)
    BY <1>1, <2>3, EveryLine
  <2> QED  BY <2>1, <2>4, <2>5, <2>6
<1>4. /\ fb[0] = b
      /\ \A i \in 1 .. Len(file) : fb[i - 1].ok => fb[i] = Apply(fb[i - 1], file[i])
  BY <1>0, <1>2 DEF FileSteps
<1>5. \A i \in 0 .. Len(file) : Onward(fa[i], k)
  <2> TAKE i \in 0 .. Len(file)
  <2>1. Len(file) \in 0 .. Len(file)
    BY <1>0
  <2>2. fa[i].nodes \in Nat /\ fa[Len(file)].nodes \in Nat
    BY <1>3, <2>1 DEF Sane, SaneNodes
  <2> QED  BY <1>1, <1>3, <2>2, OnwardTwice
<1> DEFINE Good(i) == fb[i].ok /\ Sane(fb[i]) /\ Again(fa[i], fb[i], k, Named(file, i))
           S == {i \in Nat : i <= Len(file) => Good(i)}
<1>6. 0 \in S
  BY <1>3, <1>4
<1>7. ASSUME NEW i \in Nat, i \in S
      PROVE  i + 1 \in S
  <2> SUFFICES ASSUME i + 1 <= Len(file) PROVE Good(i + 1)
    OBVIOUS
  <2> DEFINE l == file[i + 1]
             settled == Named(file, i)
             settled1 == Named(file, i + 1)
  <2>1. /\ i + 1 \in 1 .. Len(file) /\ (i + 1) - 1 = i /\ i <= Len(file)
        /\ i \in 0 .. Len(file) /\ i + 1 \in 0 .. Len(file)
    BY <1>0
  <2>2. fb[i].ok /\ Sane(fb[i]) /\ Again(fa[i], fb[i], k, settled)
    BY <1>7, <2>1
  <2>3. /\ fa[i].ok /\ Sane(fa[i]) /\ l \in ConfigLines /\ l.key # "ADDNODE" /\ ~Refused(l)
        /\ fa[i + 1] = Handled(fa[i], l) /\ Handled(fa[i], l).ok /\ Onward(Handled(fa[i], l), k)
        /\ fb[i + 1] = Handled(fb[i], l)
    <3>1. /\ fa[i].ok /\ Sane(fa[i]) /\ l \in ConfigLines /\ l.key # "ADDNODE"
          /\ ~Refused(l) /\ fa[i + 1] = Handled(fa[i], l) /\ Handled(fa[i], l).ok
      BY <1>0, <1>3, <2>1
    <3>2. Onward(fa[i + 1], k)
      BY <1>5, <2>1
    <3>3. fb[i + 1] = Apply(fb[i], l)
      BY <1>4, <2>1, <2>2
    <3> QED  BY <3>1, <3>2, <3>3 DEF Apply
  <2>4. settled \in BOOLEAN
    BY DEF Named
  <2>5. l.key \in RuleKeys => settled = TRUE
    <3>1. l.key \in RuleKeys => \A j \in 1 .. Len(file) : j > i => file[j].key # "CONTEST"
      BY <1>0, <2>1
    <3> QED  BY <3>1 DEF Named
  <2>6. l.key = "CONTEST" => (settled1 /\ k.contest = "arrl_ss" => lookup_contest(l.val) = "arrl_ss")
    <3> SUFFICES ASSUME l.key = "CONTEST", settled1, k.contest = "arrl_ss"
                 PROVE  lookup_contest(l.val) = "arrl_ss"
      OBVIOUS
    <3>1. fa[Len(file)].whichcontest = fa[i + 1].whichcontest
      BY <1>3, <2>1
    <3>2. Settings(fa[i]) /\ SaneContest(fa[i])
      BY <2>3 DEF Sane
    <3>3. fa[i + 1] = SetContest(fa[i], l.val)
      BY <2>3, <3>2, ContestLineIs
    <3>4. fa[i + 1].whichcontest = l.val
      <4>1. ContestSet(fa[i], fa[i + 1], l.val)
        BY <3>2, <3>3, SetContestIs
      <4> QED  BY <4>1 DEF ContestSet
    <3>5. Len(file) \in 0 .. Len(file)
      BY <1>0
    <3>6. fa[Len(file)].contest = lookup_contest(fa[Len(file)].whichcontest)
      BY <1>3, <3>5 DEF Sane, SaneContest
    <3> QED  BY <1>1, <3>1, <3>4, <3>6
  <2>7. l.key # "CONTEST" => settled1 = settled
    <3> SUFFICES ASSUME l.key # "CONTEST" PROVE settled1 = settled
      OBVIOUS
    <3>1. \A j \in 1 .. Len(file) : j > i => j = i + 1 \/ j > i + 1
      BY <1>0
    <3>2. \A j \in 1 .. Len(file) : j > i + 1 => j > i
      BY <1>0
    <3> QED  BY <3>1, <3>2 DEF Named
  <2> HIDE DEF l, settled, settled1
  <2>8. fb[i + 1].ok /\ Sane(fb[i + 1]) /\ Again(fa[i + 1], fb[i + 1], k, settled1)
    <3> DEFINE x == fa[i]
               y == fb[i]
    <3>1. /\ Sane(x) /\ x.ok /\ Sane(y) /\ y.ok /\ Again(x, y, k, settled)
          /\ Handled(x, l).ok /\ Onward(Handled(x, l), k)
      BY <2>2, <2>3
    <3> HIDE DEF x, y
    <3>2. Handled(y, l).ok /\ Sane(Handled(y, l)) /\ Again(Handled(x, l), Handled(y, l), k, settled1)
      BY <2>3, <2>4, <2>5, <2>6, <2>7, <3>1, LineAgain
    <3> QED  BY <2>3, <3>2 DEF x, y
  <2> QED  BY <2>8 DEF settled1
<1> HIDE DEF S
<1>8. Len(file) \in S
  BY <1>0, <1>6, <1>7, SetInduction
<1>9. Good(Len(file))
  BY <1>0, <1>8 DEF S
<1>10. Named(file, Len(file)) = TRUE
  BY <1>0 DEF Named
<1>11. Sane(fa[Len(file)])
  <2>1. Len(file) \in 0 .. Len(file)
    BY <1>0
  <2> QED  BY <1>3, <2>1
<1> QED  BY <1>1, <1>2, <1>9, <1>10, <1>11

-----------------------------------------------------------------------------
\* The two steps of ReadRules.
RulesRead(x) == IF x.whichcontest \in DOMAIN start.rules THEN ReadFile(x, start.rules[x.whichcontest])
                ELSE [SetContest(x, "qso") EXCEPT !.logfile = "qso.log"]

Completed(y) == [y EXCEPT !.digi_message = IF @ = NoValue THEN "|" \o y.message ELSE @]

\* Only the messages for digital modes may change.
LEMMA CompletedIs ==
    ASSUME NEW y, Settings(y)
    PROVE  LET z == Completed(y) IN
           /\ Settings(z) /\ \A f \in DOMAIN Home \ {"digi_message"} : z[f] = y[f]
           /\ z.digi_message = IF y.digi_message = NoValue THEN "|" \o y.message ELSE y.digi_message
           /\ SaneContest(y) => SaneContest(z)
           /\ Sane(y) => Sane(z) /\ Onward(y, z)
           /\ z.ok = y.ok /\ z.whichcontest = y.whichcontest /\ z.contest = y.contest
<1> DEFINE text == IF y.digi_message = NoValue THEN "|" \o y.message ELSE y.digi_message
           z == [y EXCEPT !.digi_message = text]
<1>1. Completed(y) = z
  BY DEF Completed
<1> HIDE DEF text
<1>2. Settings(z) /\ z.digi_message = text /\ \A f \in DOMAIN Home \ {"digi_message"} : z[f] = y[f]
  BY DEF Settings, Home
<1> HIDE DEF z
<1>3. \A f \in {"whichcontest", "contest", "qso_once", "multlist", "leading_zeros", "points", "recall_mult",
                "nodes", "named", "host", "cab", "fixedmult", "bandweight", "ok"} : z[f] = y[f]
  BY <1>2 DEF Home
<1>4. SaneContest(y) => SaneContest(z)
  BY <1>3 DEF SaneContest
<1>5. SaneNodes(y) => SaneNodes(z)
  BY <1>3 DEF SaneNodes
<1>6. z["cab"] = y["cab"]
  BY <1>3
<1>7. Sane(y) => Sane(z)
  BY <1>2, <1>4, <1>5, <1>6 DEF Sane
<1>8. Sane(y) => Onward(y, z)
  <2>1. y.nodes \in Nat /\ z["nodes"] = y["nodes"] => y.nodes <= z.nodes
    OBVIOUS
  <2>2. Sane(y) => y.nodes \in Nat
    BY DEF Sane, SaneNodes
  <2>3. z["nodes"] = y["nodes"] /\ z["fixedmult"] = y["fixedmult"] /\ z["bandweight"] = y["bandweight"]
    BY <1>3
  <2> QED  BY <2>1, <2>2, <2>3 DEF Onward
<1> QED  BY <1>1, <1>2, <1>3, <1>4, <1>7, <1>8 DEF text

\* Rules that name no other contest and add no nodes.
SteadyRules == \A c \in DOMAIN start.rules : LET file == start.rules[c] IN
                   /\ file \in Seq(ConfigLines) /\ NoMoreNodes(file) /\ Named(file, 0)

\* Without its rules it is no contest.
LEMMA NoRules ==
    ASSUME NEW x, Sane(x), x.whichcontest \notin DOMAIN start.rules
    PROVE  LET y == RulesRead(x) IN
           /\ Sane(y) /\ Onward(x, y) /\ y.ok = x.ok /\ y.whichcontest = "qso"
           /\ \A z : LET w == SetContest(z, "qso") IN
                     \/ Alike(SetContest(x, "qso"), y, w, [w EXCEPT !.logfile = "qso.log"])
                     \/ ~Settings(z) \/ ~SaneContest(z)
<1> DEFINE w == SetContest(x, "qso")
           y == RulesRead(x)
<1>1. ContestSet(x, w, "qso")
  BY SetContestIs DEF Sane
<1>2. y = [w EXCEPT !.logfile = "qso.log"]
  BY DEF RulesRead
<1> HIDE DEF w, y
<1>3. Settings(w) /\ SaneContest(w) /\ w.whichcontest = "qso"
  BY <1>1 DEF ContestSet
<1>4. Settings(y) /\ y["logfile"] = "qso.log" /\ \A f \in DOMAIN Home \ {"logfile"} : y[f] = w[f]
  BY <1>2, <1>3 DEF Settings, Home
<1>5. \A f \in {"whichcontest", "contest", "qso_once", "multlist", "leading_zeros", "points", "recall_mult"} :
         y[f] = w[f]
  BY <1>4 DEF Home
<1>6. \A f \in {"nodes", "named", "host", "cab", "fixedmult", "bandweight", "ok"} : y[f] = x[f]
  <2>1. {"nodes", "named", "host", "cab", "fixedmult", "bandweight", "ok"} \subseteq
            DOMAIN Home \ {"whichcontest", "contest", "iscontest", "showscore_flag", "searchflg", "sectn_mult",
                           "qso_once", "multlist", "leading_zeros", "logfile"}
    BY DEF Home
  <2> QED  BY <1>1, <1>4, <2>1 DEF ContestSet
<1>7. SaneContest(y) /\ y.whichcontest = "qso"
  BY <1>3, <1>5 DEF SaneContest
<1>8. SaneNodes(y) /\ Whole(y.cab)
  <2>1. SaneNodes(x) /\ Whole(x.cab)
    BY DEF Sane
  <2> QED  BY <1>6, <2>1 DEF SaneNodes
<1>9. Onward(x, y)
  <2>1. x.nodes \in Nat /\ y["nodes"] = x["nodes"]
    BY <1>6 DEF Sane, SaneNodes
  <2>2. x.nodes <= y.nodes
    BY <2>1
  <2>3. y["fixedmult"] = x["fixedmult"] /\ y["bandweight"] = x["bandweight"]
    BY <1>6
  <2> QED  BY <2>2, <2>3 DEF Onward
<1>10. y["ok"] = x["ok"]
  BY <1>6
<1>11. ASSUME NEW z, Settings(z), SaneContest(z)
       PROVE  Alike(w, y, SetContest(z, "qso"), [SetContest(z, "qso") EXCEPT !.logfile = "qso.log"])
  <2> DEFINE wz == SetContest(z, "qso")
  <2>1. Settings(wz)
    BY <1>11, SetContestIs DEF ContestSet
  <2> HIDE DEF wz
  <2>2. LET yz == [wz EXCEPT !.logfile = "qso.log"]
        IN  yz["logfile"] = "qso.log" /\ \A f \in DOMAIN Home \ {"logfile"} : yz[f] = wz[f]
    BY <2>1 DEF Settings, Home
  <2>3. Alike(w, y, wz, [wz EXCEPT !.logfile = "qso.log"])
    BY <1>4, <2>2 DEF Alike, AlikeIn
  <2> QED  BY <2>3 DEF wz
<1> QED  BY <1>4, <1>7, <1>8, <1>9, <1>10, <1>11 DEF Sane, w, y

-----------------------------------------------------------------------------
\* The rules that were read add to sane settings.
LEMMA RulesSane ==
    ASSUME SteadyRules, NEW a, Sane(a), a.ok, ReadRules(a).ok
    PROVE  LET y == RulesRead(a)
               k == ReadRules(a)
           IN  /\ k = Completed(y) /\ Sane(y) /\ y.ok /\ Sane(k)
               /\ Onward(y, k) /\ Onward(a, k) /\ k.contest = y.contest
               /\ a.whichcontest = "qso" => k.whichcontest = "qso"
               /\ k.contest = "arrl_ss" => a.contest = "arrl_ss"
               /\ a.whichcontest \notin DOMAIN start.rules => k.contest = "qso"
<1> DEFINE y == RulesRead(a)
           k == ReadRules(a)
<1>1. k = Completed(y)
  BY DEF ReadRules, RulesRead, Completed
<1>2. /\ Sane(y) /\ y.ok /\ Onward(a, y)
      /\ a.whichcontest \in DOMAIN start.rules => y.whichcontest = a.whichcontest
      /\ a.whichcontest \notin DOMAIN start.rules => y.whichcontest = "qso"
  <2>1. CASE a.whichcontest \in DOMAIN start.rules
    <3> DEFINE file == start.rules[a.whichcontest]
    <3>1. y = ReadFile(a, file)
      BY <2>1 DEF RulesRead
    <3>2. file \in Seq(ConfigLines) /\ NoMoreNodes(file) /\ Named(file, 0)
      BY <2>1 DEF SteadyRules
    <3> HIDE DEF file, y, k
    <3>3. Len(file) \in Nat
      BY <3>2
    <3>4. PICK f : FileSteps(f, a, file, Len(file)) /\ ReadFile(a, file) = f[Len(file)]
      BY <3>3, FileResult
    <3>5. Settings(y)
      <4>1. Settings(a)
        BY DEF Sane
      <4>2. HasFields(a.cab)
        BY DEF Sane, Whole
      <4>3. SetTo(a.cab, file, 0) /\ \A i \in 1 .. Len(file) : file[0 + i] = file[i]
        BY DEF SetTo
      <4> QED  BY <3>1, <3>2, <4>1, <4>2, <4>3, FileGiven
    <3>6. y.ok
      <4>1. Completed(y).ok = y.ok
        BY <3>5, CompletedIs
      <4> QED  BY <1>1, <4>1 DEF k
    <3>7. /\ \A i \in 0 .. Len(file) : Sane(f[i]) /\ Onward(f[i], f[Len(file)])
          /\ \A i \in 0 .. Len(file) : Named(file, i) => f[Len(file)].whichcontest = f[i].whichcontest
      BY <3>1, <3>2, <3>4, <3>6, FileSane
    <3>8. 0 \in 0 .. Len(file) /\ Len(file) \in 0 .. Len(file) /\ f[0] = a
      BY <3>3, <3>4 DEF FileSteps
    <3> QED  BY <2>1, <3>1, <3>2, <3>4, <3>6, <3>7, <3>8
  <2>2. CASE a.whichcontest \notin DOMAIN start.rules
    BY <2>2, NoRules
  <2> QED  BY <2>1, <2>2
<1> HIDE DEF y, k
<1>3. Sane(k) /\ Onward(y, k) /\ k.contest = y.contest /\ k.whichcontest = y.whichcontest
  <2>1. Settings(y)
    BY <1>2 DEF Sane
  <2> QED  BY <1>1, <1>2, <2>1, CompletedIs
<1>4. Onward(a, k)
  <2>1. a.nodes \in Nat /\ y.nodes \in Nat /\ k.nodes \in Nat
    BY <1>2, <1>3 DEF Sane, SaneNodes
  <2> QED  BY <1>2, <1>3, <2>1, OnwardTwice
<1>5. a.contest = lookup_contest(a.whichcontest) /\ k.contest = lookup_contest(k.whichcontest)
  BY <1>3 DEF Sane, SaneContest
<1>6. lookup_contest("qso") = "qso"
  BY DEF lookup_contest, Contests
<1> QED  BY <1>1, <1>2, <1>3, <1>4, <1>5, <1>6 DEF y, k

\* The same settings, but for what devices and exports change.
Same(x, k) ==
    /\ \A f \in DOMAIN Home \ {"ok", "cab", "trx_control", "digikeyer", "qtc_recv_lazy"} : x[f] = k[f]
    /\ \A f \in Fields \ Written : \A c \in {"value", "hint", "disabled"} : x.cab[f][c] = k.cab[f][c]

\* The rules read again: no setting is left that is as it was before.
LEMMA RulesAgain ==
    ASSUME SteadyRules, NEW a, Sane(a), a.ok, NEW b, Sane(b), b.ok,
           ReadRules(a).ok, Again(a, b, ReadRules(a), TRUE)
    PROVE  LET k == ReadRules(a)
               z == ReadRules(b)
           IN  z.ok /\ Sane(z) /\ Same(z, k) /\ z.qtc_recv_lazy = k.qtc_recv_lazy
<1> DEFINE k == ReadRules(a)
           z == ReadRules(b)
           ra == RulesRead(a)
           rb == RulesRead(b)
<1>1. /\ k = Completed(ra) /\ Sane(ra) /\ ra.ok /\ Sane(k) /\ Onward(ra, k) /\ k.contest = ra.contest
      /\ a.whichcontest \notin DOMAIN start.rules => k.contest = "qso"
  BY RulesSane
<1>2. z = Completed(rb)
  BY DEF ReadRules, RulesRead, Completed
<1>3. b.whichcontest = a.whichcontest
  BY DEF Again, AgainContest
<1>4. SaneContest(k) /\ k.nodes \in Nat
  BY <1>1 DEF Sane, SaneNodes
<1>5. Sane(rb) /\ rb.ok /\ Again(ra, rb, k, TRUE)
  <2>1. CASE a.whichcontest \in DOMAIN start.rules
    <3> DEFINE file == start.rules[a.whichcontest]
    <3>1. ra = ReadFile(a, file) /\ rb = ReadFile(b, file)
      BY <1>3, <2>1 DEF RulesRead
    <3>2. file \in Seq(ConfigLines) /\ NoMoreNodes(file) /\ Named(file, 0)
      BY <2>1 DEF SteadyRules
    <3> HIDE DEF file, ra, rb, k
    <3>3. \A i, j \in 1 .. Len(file) : file[i].key \in RuleKeys /\ file[j].key = "CONTEST" => j < i
      <4>1. Len(file) \in Nat
        BY <3>2
      <4> QED  BY <3>2, <4>1 DEF Named
    <3>4. Named(file, 0) = TRUE
      BY <3>2 DEF Named
    <3>5. Again(a, b, k, Named(file, 0))
      BY <3>4 DEF k
    <3>6. ReadFile(a, file).ok /\ Onward(ReadFile(a, file), k)
          /\ (k.contest = "arrl_ss" => ReadFile(a, file).contest = "arrl_ss")
      BY <1>1, <3>1
    <3> QED  BY <1>4, <3>1, <3>2, <3>3, <3>5, <3>6, FileAgain
  <2>2. CASE a.whichcontest \notin DOMAIN start.rules
    <3> DEFINE wa == SetContest(a, "qso")
               wb == SetContest(b, "qso")
    <3>1. BothNamed(a, b, k, TRUE, "qso", "qso", TRUE)
      BY <1>1, <2>2 DEF BothNamed
    <3>2. Settings(a) /\ SaneContest(a) /\ Settings(b) /\ SaneContest(b)
      BY DEF Sane
    <3>3. Again(wa, wb, k, TRUE)
      BY <1>4, <3>1, <3>2, ContestAgain
    <3>4. rb = [wb EXCEPT !.logfile = "qso.log"]
      BY <1>3, <2>2 DEF RulesRead
    <3>5. Sane(rb) /\ rb.ok
      BY <1>3, <2>2, NoRules
    <3> HIDE DEF k, ra, rb
    <3>6. Alike(wa, ra, wb, rb)
      BY <2>2, <3>2, <3>4, NoRules DEF ra
    <3> HIDE DEF wa, wb
    <3> QED  BY <3>3, <3>5, <3>6, AlikeAgain
  <2> QED  BY <2>1, <2>2
<1> HIDE DEF k, z, ra, rb
<1>6. /\ Settings(z) /\ Sane(z) /\ z.ok
      /\ \A f \in DOMAIN Home \ {"digi_message"} : z[f] = rb[f] /\ k[f] = ra[f]
      /\ z.digi_message = IF rb.digi_message = NoValue THEN "|" \o rb.message ELSE rb.digi_message
      /\ k.digi_message = IF ra.digi_message = NoValue THEN "|" \o ra.message ELSE ra.digi_message
  <2>1. Settings(ra) /\ Settings(rb)
    BY <1>1, <1>5 DEF Sane
  <2> QED  BY <1>1, <1>2, <1>5, <2>1, CompletedIs
<1>7. AgainContest(ra, rb, k, TRUE) /\ AgainNodes(ra, rb, k) /\ AgainFields(ra.cab, rb.cab, k.cab)
      /\ AgainOthers(ra, rb, k)
  BY <1>5 DEF Again
<1>8. \A f \in {"whichcontest", "qso_once", "multlist", "leading_zeros", "iscontest", "showscore_flag", "searchflg",
                "sectn_mult", "nodes", "named", "fixedmult", "bandweight"} : z[f] = k[f]
  <2>1. \A f \in {"qso_once", "multlist", "leading_zeros", "iscontest", "showscore_flag", "searchflg", "sectn_mult",
                  "nodes", "named", "fixedmult", "bandweight"} : From(ra, rb, k, f)
    BY <1>7 DEF AgainContest, AgainNodes, AgainOthers
  <2>2. rb["whichcontest"] = ra["whichcontest"]
    BY <1>7 DEF AgainContest
  <2>3. \A f \in {"whichcontest", "qso_once", "multlist", "leading_zeros", "iscontest", "showscore_flag", "searchflg",
                  "sectn_mult", "nodes", "named", "fixedmult", "bandweight"} :
           z[f] = rb[f] /\ k[f] = ra[f]
    BY <1>6 DEF Home
  <2> QED  BY <2>1, <2>2, <2>3 DEF From
<1>9. z["contest"] = k["contest"]
  <2>1. z.contest = lookup_contest(z.whichcontest) /\ k.contest = lookup_contest(k.whichcontest)
    BY <1>1, <1>6 DEF Sane, SaneContest
  <2> QED  BY <1>8, <2>1
<1>10. \A f \in Assigned \ {"digi_message"} : z[f] = k[f]
  <2>1. \A f \in Assigned \ {"digi_message"} : z[f] = rb[f] /\ k[f] = ra[f]
    BY <1>6, PartsOfHome DEF OtherPart
  <2>2. \A f \in Assigned : Untouched(ra, rb, k, f)
    BY <1>7 DEF AgainOthers
  <2> QED  BY <2>1, <2>2 DEF Untouched
<1>11. z["digi_message"] = k["digi_message"]
  <2>1. rb.message = ra.message
    <3>1. z["message"] = k["message"] /\ z["message"] = rb["message"] /\ k["message"] = ra["message"]
      BY <1>6, <1>10 DEF Assigned, Home
    <3> QED  BY <3>1
  <2>2. Untouched(ra, rb, k, "digi_message")
    BY <1>7 DEF AgainOthers, Assigned
  <2>3. Defaults.digi_message = NoValue
    BY DEF Defaults
  <2>4. \/ rb.digi_message = ra.digi_message
        \/ rb.digi_message = k.digi_message /\ ra.digi_message = NoValue
    BY <2>2, <2>3 DEF Untouched
  <2> QED  BY <1>6, <2>1, <2>4
<1>12. z.qtc_recv_lazy = k.qtc_recv_lazy
  <2>1. z["qtc_recv_lazy"] = rb["qtc_recv_lazy"] /\ k["qtc_recv_lazy"] = ra["qtc_recv_lazy"]
    BY <1>6 DEF Home
  <2> QED  BY <1>7, <2>1 DEF AgainOthers
<1>13. z["points"] = k["points"] /\ z["recall_mult"] = k["recall_mult"]
  <2>1. /\ z.points = [c \in Contests |-> z.points[c]]
        /\ z.recall_mult = [c \in Contests |-> z.recall_mult[c]]
        /\ k.points = [c \in Contests |-> k.points[c]]
        /\ k.recall_mult = [c \in Contests |-> k.recall_mult[c]]
    BY <1>1, <1>6 DEF Sane, SaneContest
  <2>2. \A f \in {"points", "recall_mult"} : z[f] = rb[f] /\ k[f] = ra[f]
    BY <1>6 DEF Home
  <2>3. \A c \in Contests : z.points[c] = k.points[c] /\ z.recall_mult[c] = k.recall_mult[c]
    BY <1>7, <2>2 DEF AgainContest, From
  <2> QED  BY <2>1, <2>3
<1>14. z["host"] = k["host"]
  <2>1. z.host = [n \in NodeIds |-> z.host[n]] /\ k.host = [n \in NodeIds |-> k.host[n]]
    BY <1>1, <1>6 DEF Sane, SaneNodes
  <2>2. z["host"] = rb["host"] /\ k["host"] = ra["host"]
    BY <1>6 DEF Home
  <2>3. \A n \in NodeIds : z.host[n] = k.host[n]
    BY <1>7, <2>2 DEF AgainNodes, From
  <2> QED  BY <2>1, <2>3
<1>15. \A f \in Fields \ Written : \A c \in {"value", "hint", "disabled"} : z.cab[f][c] = k.cab[f][c]
  <2>1. z["cab"] = rb["cab"] /\ k["cab"] = ra["cab"]
    BY <1>6 DEF Home
  <2> QED  BY <1>7, <2>1 DEF AgainFields, From
<1>16. \A f \in DOMAIN Home \ {"ok", "cab", "trx_control", "digikeyer", "qtc_recv_lazy"} : z[f] = k[f]
  <2>1. DOMAIN Home \ {"ok", "cab", "trx_control", "digikeyer", "qtc_recv_lazy"} \subseteq
            {"whichcontest", "qso_once", "multlist", "leading_zeros", "iscontest", "showscore_flag", "searchflg",
             "sectn_mult", "nodes", "named", "fixedmult", "bandweight"} \cup
            (Assigned \ {"digi_message"}) \cup {"digi_message", "contest", "points", "recall_mult", "host"}
    BY DEF Home, Assigned
  <2> QED  BY <1>8, <1>9, <1>10, <1>11, <1>13, <1>14, <2>1
<1> QED  BY <1>6, <1>12, <1>15, <1>16 DEF Same, k, z

-----------------------------------------------------------------------------
\* A file read once more, after what it and the rules made of the defaults.
Like(x, k) == Same(x, k) /\ x.qtc_recv_lazy \in {k.qtc_recv_lazy, FALSE}

\* Before the file is read again, its settings are the defaults' or the last ones.
LEMMA LikeAgain ==
    ASSUME NEW k, NEW x, Like(x, k), NEW settled, settled => k.whichcontest = "qso"
    PROVE  Again(Defaults, x, k, settled)
<1>1. \A f \in DOMAIN Home \ {"ok", "cab", "trx_control", "digikeyer", "qtc_recv_lazy"} : x[f] = k[f]
  BY DEF Like, Same
<1>2. \A f \in {"whichcontest", "qso_once", "multlist", "leading_zeros", "iscontest", "showscore_flag", "searchflg",
                "sectn_mult", "points", "recall_mult", "nodes", "named", "host", "fixedmult", "bandweight"} :
         x[f] = k[f]
  BY <1>1 DEF Home
<1>3. Defaults.whichcontest = "qso" /\ Defaults.qtc_recv_lazy = FALSE
  BY DEF Defaults
<1> HIDE DEF Defaults
<1>4. AgainContest(Defaults, x, k, settled)
  <2>1. \A f \in {"qso_once", "multlist", "leading_zeros", "iscontest", "showscore_flag", "searchflg", "sectn_mult"} :
           From(Defaults, x, k, f)
    BY <1>2 DEF From
  <2>2. x.whichcontest = k.whichcontest /\ x.points = k.points /\ x.recall_mult = k.recall_mult
    BY <1>2
  <2>3. \A c \in Contests : /\ From(Defaults.points, x.points, k.points, c)
                            /\ From(Defaults.recall_mult, x.recall_mult, k.recall_mult, c)
    BY <2>2 DEF From
  <2>4. settled => x.whichcontest = Defaults.whichcontest
    BY <1>3, <2>2
  <2> QED  BY <1>3, <2>1, <2>2, <2>3, <2>4 DEF AgainContest
<1>5. AgainNodes(Defaults, x, k)
  BY <1>2 DEF AgainNodes, From
<1>6. AgainFields(Defaults.cab, x.cab, k.cab)
  BY DEF AgainFields, From, Like, Same
<1>7. AgainOthers(Defaults, x, k)
  <2>1. \A f \in Assigned : x[f] = k[f]
    BY <1>1 DEF Assigned, Home
  <2> QED  BY <1>2, <1>3, <2>1 DEF AgainOthers, Untouched, From, Like
<1> QED  BY <1>4, <1>5, <1>6, <1>7 DEF Again

\* logcfg.dat where lines count as often as they are read.
SteadyLines(file) ==
    /\ file \in Seq(ConfigLines) /\ NoMoreNodes(file)
    /\ \A i, j \in 1 .. Len(file) : file[i].key \in RuleKeys /\ file[j].key = "CONTEST" => j < i

\* What both files make of the defaults.
LEMMA FirstRead ==
    ASSUME SteadyRules, NEW file, SteadyLines(file),
           ReadFile(Defaults, file).ok, ReadRules(ReadFile(Defaults, file)).ok
    PROVE  LET a == ReadFile(Defaults, file)
               k == ReadRules(a)
           IN  /\ Sane(a) /\ Sane(k) /\ Onward(a, k)
               /\ Named(file, 0) => k.whichcontest = "qso"
               /\ k.contest = "arrl_ss" => a.contest = "arrl_ss"
<1> DEFINE a == ReadFile(Defaults, file)
<1>0. file \in Seq(ConfigLines) /\ NoMoreNodes(file) /\ Len(file) \in Nat
  BY DEF SteadyLines
<1>1. PICK f : FileSteps(f, Defaults, file, Len(file)) /\ a = f[Len(file)]
  BY <1>0, FileResult
<1>2. f[0] = Defaults /\ 0 \in 0 .. Len(file) /\ Len(file) \in 0 .. Len(file)
  BY <1>0, <1>1 DEF FileSteps
<1>3. Defaults.whichcontest = "qso"
  BY DEF Defaults
<1> HIDE DEF a, Defaults
<1>4. Sane(a) /\ (Named(file, 0) => a.whichcontest = "qso")
  <2>1. f[Len(file)].ok
    BY <1>1 DEF a
  <2>2. /\ \A i \in 0 .. Len(file) : Sane(f[i])
        /\ \A i \in 0 .. Len(file) : Named(file, i) => f[Len(file)].whichcontest = f[i].whichcontest
    BY <1>0, <1>1, <2>1, DefaultsSane, FileSane
  <2> QED  BY <1>1, <1>2, <1>3, <2>2
<1>5. a.ok /\ ReadRules(a).ok
  BY DEF a
<1> QED  BY <1>4, <1>5, RulesSane DEF a

\* Then both files make the same of settings that are as they were after that.
LEMMA ReadTwice ==
    ASSUME SteadyRules, NEW file, SteadyLines(file),
           ReadFile(Defaults, file).ok, ReadRules(ReadFile(Defaults, file)).ok,
           NEW x, Sane(x), x.ok, Like(x, ReadRules(ReadFile(Defaults, file)))
    PROVE  LET k == ReadRules(ReadFile(Defaults, file))
               y == ReadFile(x, file)
               z == ReadRules(y)
           IN  /\ y.ok /\ Settings(y)
               /\ z.ok /\ Sane(z) /\ Same(z, k) /\ z.qtc_recv_lazy = k.qtc_recv_lazy
<1> DEFINE a == ReadFile(Defaults, file)
           k == ReadRules(a)
           y == ReadFile(x, file)
           settled == Named(file, 0)
<1>1. /\ Sane(a) /\ Sane(k) /\ Onward(a, k) /\ (settled => k.whichcontest = "qso")
      /\ k.contest = "arrl_ss" => a.contest = "arrl_ss"
  BY FirstRead
<1>2. Again(Defaults, x, k, settled)
  BY <1>1, LikeAgain
<1>3. SaneContest(k) /\ k.nodes \in Nat
  BY <1>1 DEF Sane, SaneNodes
<1>4. a.ok /\ k.ok
  OBVIOUS
<1> HIDE DEF k, y
<1>5. Sane(y) /\ y.ok /\ Again(a, y, k, TRUE)
  <2>1. /\ file \in Seq(ConfigLines) /\ NoMoreNodes(file)
        /\ \A i, j \in 1 .. Len(file) : file[i].key \in RuleKeys /\ file[j].key = "CONTEST" => j < i
    BY DEF SteadyLines
  <2>2. /\ Sane(ReadFile(x, file)) /\ ReadFile(x, file).ok
        /\ Again(ReadFile(Defaults, file), ReadFile(x, file), k, TRUE)
    BY <1>1, <1>2, <1>3, <2>1, DefaultsSane, FileAgain
  <2> QED  BY <2>2 DEF y
<1> HIDE DEF a, settled
<1>6. LET z == ReadRules(y) IN z.ok /\ Sane(z) /\ Same(z, k) /\ z.qtc_recv_lazy = k.qtc_recv_lazy
  BY <1>1, <1>4, <1>5, RulesAgain DEF k
<1>7. Settings(y)
  BY <1>5 DEF Sane
<1> QED  BY <1>5, <1>6, <1>7 DEF y, k, a

\* A line at the end.
LEMMA OneMoreRead ==
    ASSUME NEW x, NEW file \in Seq(ConfigLines), NEW l \in ConfigLines, ReadFile(x, file).ok
    PROVE  ReadFile(x, Append(file, l)) = Apply(ReadFile(x, file), l)
<1> DEFINE more == Append(file, l)
           n == Len(file)
<1>0. /\ n \in Nat /\ Len(more) = n + 1 /\ n + 1 \in Nat
      /\ more[n + 1] = l /\ \A i \in 1 .. n : more[i] = file[i]
  OBVIOUS
<1> HIDE DEF more
<1>1. PICK f : FileSteps(f, x, file, n) /\ ReadFile(x, file) = f[n]
  BY <1>0, FileResult
<1>2. PICK g : FileSteps(g, x, more, n + 1) /\ ReadFile(x, more) = g[n + 1]
  BY <1>0, FileResult
<1> HIDE DEF n
<1> DEFINE S == {i \in Nat : i <= n => g[i] = f[i]}
<1>3. 0 \in S
  BY <1>0, <1>1, <1>2 DEF FileSteps
<1>4. ASSUME NEW i \in Nat, i \in S
      PROVE  i + 1 \in S
  <2> SUFFICES ASSUME i + 1 <= n PROVE g[i + 1] = f[i + 1]
    OBVIOUS
  <2>1. /\ i + 1 \in 0 .. n /\ i + 1 \in 0 .. n + 1 /\ i + 1 # 0 /\ (i + 1) - 1 = i /\ i + 1 \in 1 .. n
        /\ i <= n
    BY <1>0
  <2>2. g[i] = f[i] /\ more[i + 1] = file[i + 1]
    BY <1>0, <1>4, <2>1
  <2>3. f[i + 1] = IF f[i].ok THEN Apply(f[i], file[i + 1]) ELSE f[i]
    BY <1>1, <2>1 DEF FileSteps
  <2>4. g[i + 1] = IF g[i].ok THEN Apply(g[i], more[i + 1]) ELSE g[i]
    BY <1>2, <2>1 DEF FileSteps
  <2> QED  BY <2>2, <2>3, <2>4
<1> HIDE DEF S
<1>5. n \in S
  BY <1>0, <1>3, <1>4, SetInduction
<1>6. g[n] = f[n]
  BY <1>0, <1>5 DEF S
<1>7. g[n + 1] = IF g[n].ok THEN Apply(g[n], more[n + 1]) ELSE g[n]
  <2>1. n + 1 \in 0 .. n + 1 /\ n + 1 # 0 /\ (n + 1) - 1 = n
    BY <1>0
  <2> QED  BY <1>2, <2>1 DEF FileSteps
<1> QED  BY <1>0, <1>1, <1>2, <1>6, <1>7 DEF more

\* An empty file changes nothing.
LEMMA NoLinesRead == ASSUME NEW x PROVE ReadFile(x, <<>>) = x
<1>1. Len(<<>>) = 0 /\ 0 \in Nat
  OBVIOUS
<1>2. PICK f : FileSteps(f, x, <<>>, 0) /\ ReadFile(x, <<>>) = f[0]
  BY <1>1, FileResult
<1> QED  BY <1>2 DEF FileSteps

-----------------------------------------------------------------------------
\* :CFG finds, and leaves, what both files make of the defaults.
FirstReading == ReadRules(ReadFile(Defaults, lines))

Reread == Sane(s) /\ s.ok = TRUE /\ Like(s, kept)

RereadInv ==
    /\ stage = "logcfg" => ~edited /\ s = ReadFile(Defaults, lines)
    /\ stage \notin {"logcfg", "exit"} /\ ~edited /\ Steady =>
          /\ ReadFile(Defaults, lines).ok /\ kept = FirstReading /\ kept.ok /\ Reread
          /\ stage = "reread" => s.qtc_recv_lazy = kept.qtc_recv_lazy

\* The premise of the property, file by file.
LEMMA SteadyIs ==
    ASSUME start \in Starts, lines \in Seq(ConfigLines), Steady
    PROVE  SteadyRules /\ SteadyLines(lines)
<1>1. ASSUME NEW c \in DOMAIN start.rules
      PROVE  LET file == start.rules[c] IN file \in Seq(ConfigLines) /\ NoMoreNodes(file) /\ Named(file, 0)
  <2> DEFINE file == start.rules[c]
  <2>1. file \in Seq(ConfigLines)
    BY StartsAssumption
  <2>2. \A l \in Range(file) : l.key \notin {"CONTEST", "ADDNODE"}
    BY DEF Steady
  <2> HIDE DEF file
  <2>3. \A i \in 1 .. Len(file) : file[i] \in Range(file)
    BY <2>1 DEF Range
  <2> QED  BY <2>1, <2>2, <2>3 DEF NoMoreNodes, Named, file
<1>2. DOMAIN lines = 1 .. Len(lines)
  OBVIOUS
<1> QED  BY <1>1, <1>2 DEF SteadyRules, SteadyLines, Steady, NoMoreNodes, RuleKeys

\* Before the first line.
LEMMA InitReread == ConfigInit => RereadInv
BY NoLinesRead DEF ConfigInit, RereadInv

\* Without :CFG: the settings that change are not those compared.
LEMMA StaysLike ==
    ASSUME NEW x, Sane(x), NEW k, Like(x, k), NEW y, Settings(y), Whole(y.cab),
           \A f \in DOMAIN Home \ {"cab", "trx_control", "digikeyer", "qtc_recv_lazy"} : y[f] = x[f],
           \A f \in Fields \ Written : y.cab[f] = x.cab[f],
           y.qtc_recv_lazy \in {x.qtc_recv_lazy, FALSE}
    PROVE  Sane(y) /\ Like(y, k)
<1>1. \A f \in {"whichcontest", "contest", "qso_once", "multlist", "leading_zeros", "points", "recall_mult",
                "nodes", "named", "host"} : y[f] = x[f]
  BY DEF Home
<1>2. SaneContest(y)
  BY <1>1 DEF SaneContest, Sane
<1>3. SaneNodes(y)
  BY <1>1 DEF SaneNodes, Sane
<1>4. Sane(y)
  BY <1>2, <1>3 DEF Sane
<1> QED  BY <1>4 DEF Like, Same

\* :WRITE fills fields that are left out when the settings are compared.
LEMMA FilledIs ==
    ASSUME NEW cab, Whole(cab), NEW call, NEW qra
    PROVE  LET new == Filled(cab, call, "score", qra) IN
           Whole(new) /\ \A f \in Fields \ Written : new[f] = cab[f]
<1> DEFINE new == Filled(cab, call, "score", qra)
<1>1. HasFields(new) /\ \A f \in Fields \ Written : new[f] = cab[f]
  BY DEF HasFields, Filled, Written
<1>2. ASSUME NEW f \in Fields
      PROVE  \E p, q, d : new[f] = [value |-> p, hint |-> q, disabled |-> d]
  <2>1. PICK p, q, d : cab[f] = [value |-> p, hint |-> q, disabled |-> d]
    BY DEF Whole
  <2>2. \/ new[f] = cab[f] \/ \E v : new[f] = [cab[f] EXCEPT !.value = v]
        \/ \E v : new[f] = [cab[f] EXCEPT !.value = v, !.disabled = FALSE]
    BY DEF Filled
  <2> HIDE DEF new
  <2> QED  BY <2>1, <2>2
<1> HIDE DEF new
<1>3. ASSUME NEW f \in Fields
      PROVE  new[f] = [value |-> new[f].value, hint |-> new[f].hint, disabled |-> new[f].disabled]
  <2>1. PICK p, q, d : new[f] = [value |-> p, hint |-> q, disabled |-> d]
    BY <1>2
  <2> QED  BY <2>1
<1> QED  BY <1>1, <1>3 DEF Whole, new

\* The second reading meets the first one, and all other steps leave what is compared.
LEMMA NextReread == ReadingInv /\ GivenInv /\ RereadInv /\ [ConfigNext]_configVars => RereadInv'
<1> SUFFICES ASSUME ReadingInv, GivenInv, RereadInv, [ConfigNext]_configVars PROVE RereadInv'
  OBVIOUS
<1>g. start \in Starts /\ lines \in Seq(ConfigLines) /\ Settings(s)
  BY DEF GivenInv
<1>h. {"ok", "cab", "qtc_recv_lazy", "trx_control", "digikeyer"} \subseteq DOMAIN Home
  BY DEF Home
<1>s. start' = start /\ lines' = lines => /\ ReadFile(Defaults, lines)' = ReadFile(Defaults, lines)
                                         /\ FirstReading' = FirstReading
                                         /\ (Steady' <=> Steady)
  BY DEF FirstReading, ReadRules, Steady
<1>1. CASE ReadLine
  <2>1. PICK l \in start.lines : lines' = Append(lines, l) /\ s' = Apply(s, l)
    BY <1>1 DEF ReadLine
  <2>2. stage = "logcfg" /\ s.ok /\ edited' = edited /\ stage' \in {"logcfg", "exit"}
    BY <1>1 DEF ReadLine, ReadingInv
  <2>3. l \in ConfigLines
    BY <1>g DEF ConfigLines
  <2>4. s = ReadFile(Defaults, lines) /\ ~edited
    BY <2>2 DEF RereadInv
  <2>5. s' = ReadFile(Defaults, lines')
    BY <1>g, <2>1, <2>2, <2>3, <2>4, OneMoreRead
  <2> QED  BY <2>2, <2>4, <2>5 DEF RereadInv
<1>2. CASE EndOfConfig
  <2> DEFINE a == ReadFile(Defaults, lines)
  <2>1. /\ stage = "logcfg" /\ s' = ReadRules(s) /\ kept' = s' /\ start' = start /\ lines' = lines
        /\ stage' # "logcfg" /\ stage' # "reread" /\ (stage' # "exit" => s'.ok)
    BY <1>2 DEF EndOfConfig
  <2>2. s = a /\ s.ok
    BY <2>1 DEF RereadInv, ReadingInv
  <2>3. ASSUME stage' # "exit", Steady
        PROVE  /\ a.ok /\ s' = FirstReading /\ s'.ok = TRUE
               /\ Sane(s') /\ Like(s', s')
    <3>1. a.ok /\ ReadRules(a).ok /\ SteadyRules /\ SteadyLines(lines)
      BY <1>g, <2>1, <2>2, <2>3, SteadyIs
    <3>2. Sane(ReadRules(a))
      BY <3>1, FirstRead
    <3>3. s' = ReadRules(a) /\ s'.ok = TRUE /\ s' = FirstReading
      BY <2>1, <2>2, <2>3 DEF FirstReading
    <3>4. Like(s', s')
      BY DEF Like, Same
    <3> QED  BY <3>1, <3>2, <3>3, <3>4
  <2> QED  BY <1>s, <2>1, <2>3 DEF RereadInv, Reread
<1>3. CASE CheckDatabases \/ InitDevices \/ GoOn \/ WriteHeader
  <2>1. /\ start' = start /\ lines' = lines /\ kept' = kept /\ edited' = edited
        /\ stage \notin {"logcfg", "exit"} /\ stage' # "logcfg" /\ stage' # "reread"
    BY <1>3 DEF CheckDatabases, InitDevices, GoOn, WriteHeader
  <2> SUFFICES ASSUME ~edited, Steady, ReadFile(Defaults, lines).ok,
                      kept = FirstReading, kept.ok, Reread
               PROVE  Reread'
    BY <1>s, <2>1 DEF RereadInv
  <2>2. Sane(s) /\ s.ok = TRUE /\ Like(s, kept) /\ Whole(s.cab)
    BY DEF Reread, Sane
  <2>3. /\ Settings(s') /\ Whole(s'.cab)
        /\ \A f \in DOMAIN Home \ {"cab", "trx_control", "digikeyer", "qtc_recv_lazy"} : s'[f] = s[f]
        /\ \A f \in Fields \ Written : s'.cab[f] = s.cab[f]
        /\ s'.qtc_recv_lazy \in {s.qtc_recv_lazy, FALSE}
    <3>1. CASE CheckDatabases
      <4> DEFINE lazy == s.qtc_recv_lazy /\ s.trxmode # "DIGI"
      <4>1. s' = [s EXCEPT !.qtc_recv_lazy = lazy]
        BY <3>1 DEF CheckDatabases
      <4>2. lazy \in {s.qtc_recv_lazy, FALSE}
        OBVIOUS
      <4> HIDE DEF lazy
      <4> QED  BY <1>g, <1>h, <2>2, <4>1, <4>2 DEF Settings
    <3>2. CASE InitDevices
      <4>1. PICK radio, fldigi \in BOOLEAN :
               s' = [s EXCEPT !.trx_control = @ /\ radio, !.digikeyer = FldigiInit(s, fldigi)]
        BY <3>2 DEF InitDevices
      <4> QED  BY <1>g, <1>h, <2>2, <4>1 DEF Settings
    <3>3. CASE GoOn
      BY <1>g, <2>2, <3>3 DEF GoOn
    <3>4. CASE WriteHeader
      <4> DEFINE new == Filled(s.cab, s.call, "score", s.qra)
      <4>1. s' = [s EXCEPT !.cab = new]
        BY <3>4 DEF WriteHeader
      <4>2. Whole(new) /\ \A f \in Fields \ Written : new[f] = s.cab[f]
        BY <2>2, FilledIs
      <4> HIDE DEF new
      <4> QED  BY <1>g, <1>h, <4>1, <4>2 DEF Settings
    <3> QED  BY <1>3, <3>1, <3>2, <3>3, <3>4
  <2>4. Sane(s') /\ Like(s', kept)
    BY <2>2, <2>3, StaysLike
  <2>5. s'["ok"] = s["ok"]
    BY <1>h, <2>3
  <2> QED  BY <2>1, <2>2, <2>4, <2>5 DEF Reread
<1>4. CASE RereadConfig
  <2>1. PICK file : /\ lines' = file /\ edited' = (edited \/ file # lines)
                    /\ LET y == ReadFile([s EXCEPT !.ok = TRUE], file) IN
                       s' = [ReadRules([y EXCEPT !.ok = TRUE]) EXCEPT !.ok = @ /\ y.ok]
    BY <1>4 DEF RereadConfig
  <2>2. stage = "running" /\ stage' = "reread" /\ start' = start /\ kept' = kept
    BY <1>4 DEF RereadConfig
  <2> SUFFICES ASSUME ~edited, lines' = lines, Steady, ReadFile(Defaults, lines).ok,
                      kept = FirstReading, kept.ok, Reread
               PROVE  Reread' /\ s'.qtc_recv_lazy = kept.qtc_recv_lazy
    BY <1>s, <2>1, <2>2 DEF RereadInv
  <2> DEFINE y == ReadFile(s, lines)
             z == ReadRules(y)
  <2>3. Sane(s) /\ s.ok = TRUE /\ Like(s, kept) /\ SteadyRules /\ SteadyLines(lines)
    BY <1>g, SteadyIs DEF Reread
  <2>4. /\ y.ok /\ Settings(y) /\ z.ok /\ Sane(z) /\ Same(z, kept) /\ z.qtc_recv_lazy = kept.qtc_recv_lazy
    BY <2>3, ReadTwice DEF FirstReading
  <2>5. s' = z
    <3>1. ASSUME NEW x, Settings(x), x.ok PROVE [x EXCEPT !.ok = TRUE] = x
      BY <1>h, <3>1 DEF Settings
    <3>2. [s EXCEPT !.ok = TRUE] = s
      BY <1>g, <2>3, <3>1
    <3>3. [y EXCEPT !.ok = TRUE] = y
      BY <2>4, <3>1
    <3>4. s' = [z EXCEPT !.ok = @ /\ y.ok]
      BY <2>1, <3>2, <3>3
    <3>5. [z EXCEPT !.ok = @ /\ y.ok] = [z EXCEPT !.ok = TRUE]
      <4>1. (z.ok /\ y.ok) = TRUE
        BY <2>4
      <4> HIDE DEF y, z
      <4> QED  BY <4>1
    <3> HIDE DEF y, z
    <3> QED  BY <2>4, <3>1, <3>4, <3>5 DEF Sane
  <2> HIDE DEF y, z
  <2>6. Like(s', kept) /\ Sane(s') /\ s'.ok = TRUE
    BY <2>4, <2>5 DEF Like
  <2> QED  BY <2>2, <2>4, <2>5, <2>6 DEF Reread
<1>5. CASE UNCHANGED configVars
  <2>1. /\ start' = start /\ stage' = stage /\ lines' = lines /\ s' = s
        /\ kept' = kept /\ edited' = edited
    BY <1>5 DEF configVars
  <2> QED  BY <1>s, <2>1 DEF RereadInv, Reread
<1> QED  BY <1>1, <1>2, <1>3, <1>4, <1>5 DEF ConfigNext

\* :CFG without a change in the files brings the settings that were read at the
\* start, for all files whose lines count as often as they are read.
THEOREM RereadIsIdle == ConfigSpec => []RereadSame
<1>1. GivenInv /\ RereadInv => RereadSame
  <2> SUFFICES ASSUME GivenInv, RereadInv, stage = "reread", ~edited, Steady
               PROVE  Comparable(s) = Comparable(kept)
    BY DEF RereadSame
  <2>1. /\ kept = ReadRules(ReadFile(Defaults, lines)) /\ kept.ok
        /\ ReadFile(Defaults, lines).ok /\ Reread /\ s.qtc_recv_lazy = kept.qtc_recv_lazy
    BY DEF RereadInv, FirstReading
  <2>2. start \in Starts /\ lines \in Seq(ConfigLines)
    BY DEF GivenInv
  <2>3. Sane(kept)
    <3>1. SteadyRules /\ SteadyLines(lines)
      BY <2>2, SteadyIs
    <3> QED  BY <2>1, <3>1, FirstRead
  <2>4. Sane(s) /\ s.ok = TRUE /\ kept.ok = TRUE /\ Same(s, kept)
    BY <2>1 DEF Reread, Like
  <2> DEFINE cab(x) == [f \in Fields \ Written |-> x.cab[f]]
             new(x) == [x EXCEPT !.cab = cab(x), !.trx_control = TRUE, !.digikeyer = "NO"]
  <2>5. \A x : Comparable(x) = new(x)
    BY DEF Comparable
  <2>6. cab(s) = cab(kept)
    <3>1. \A f \in Fields \ Written : s.cab[f] = kept.cab[f]
      <4> TAKE f \in Fields \ Written
      <4>1. s.cab[f] = [value |-> s.cab[f].value, hint |-> s.cab[f].hint, disabled |-> s.cab[f].disabled]
        BY <2>4 DEF Sane, Whole
      <4>2. kept.cab[f] = [value |-> kept.cab[f].value, hint |-> kept.cab[f].hint,
                           disabled |-> kept.cab[f].disabled]
        BY <2>3 DEF Sane, Whole
      <4>3. \A c \in {"value", "hint", "disabled"} : s.cab[f][c] = kept.cab[f][c]
        BY <2>4 DEF Same
      <4> QED  BY <4>1, <4>2, <4>3
    <3> QED  BY <3>1
  <2> HIDE DEF cab
  <2>7. \A f \in DOMAIN Home \ {"cab", "trx_control", "digikeyer"} : s[f] = kept[f]
    <3>1. \A f \in DOMAIN Home \ {"ok", "cab", "trx_control", "digikeyer", "qtc_recv_lazy"} : s[f] = kept[f]
      BY <2>4 DEF Same
    <3>2. s["ok"] = kept["ok"] /\ s["qtc_recv_lazy"] = kept["qtc_recv_lazy"]
      BY <2>1, <2>4
    <3> QED  BY <3>1, <3>2
  <2>8. {"cab", "trx_control", "digikeyer"} \subseteq DOMAIN Home
    BY DEF Home
  <2>9. ASSUME NEW x, Settings(x)
        PROVE  new(x) = [f \in DOMAIN Home |-> IF f = "cab" THEN cab(x) ELSE IF f = "trx_control" THEN TRUE
                                               ELSE IF f = "digikeyer" THEN "NO" ELSE x[f]]
    BY <2>8, <2>9 DEF Settings
  <2> HIDE DEF new
  <2>10. new(s) = new(kept)
    <3>1. Settings(s) /\ Settings(kept)
      BY <2>3, <2>4 DEF Sane
    <3>2. /\ new(s) = [f \in DOMAIN Home |->
                          IF f = "cab" THEN cab(s) ELSE IF f = "trx_control" THEN TRUE
                          ELSE IF f = "digikeyer" THEN "NO" ELSE s[f]]
          /\ new(kept) = [f \in DOMAIN Home |->
                             IF f = "cab" THEN cab(kept) ELSE IF f = "trx_control" THEN TRUE
                             ELSE IF f = "digikeyer" THEN "NO" ELSE kept[f]]
      BY <2>9, <3>1
    <3>3. \A f \in DOMAIN Home : f \notin {"cab", "trx_control", "digikeyer"} => s[f] = kept[f]
      BY <2>7
    <3> QED  BY <2>6, <3>2, <3>3
  <2> QED  BY <2>5, <2>10
<1> QED
  BY <1>1, InitReading, NextReading, InitGiven, NextGiven, InitReread, NextReread, PTL DEF ConfigSpec

===============================================================================
