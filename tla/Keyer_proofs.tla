----------------------------- MODULE Keyer_proofs -----------------------------
(***************************************************************************)
(* Proofs about the text on its way to the keyer: types, and that without  *)
(* QTC blocks it reaches the device in the order of writing, for any sizes *)
(* of buffer and line, any messages and any number of stops and failures.  *)
(***************************************************************************)
EXTENDS Keyer, TLAPS

\* Pieces in the order of writing; ^r counts for nothing.
Rising(s) == \A i, j \in DOMAIN s : i < j /\ s[i] # Rx /\ s[j] # Rx => s[i] < s[j]

\* The pieces of s are older than those of t, or not younger than the n-th.
Before(s, t) == \A i \in DOMAIN s, j \in DOMAIN t : s[i] # Rx /\ t[j] # Rx => s[i] < t[j]
UpTo(s, n)   == \A i \in DOMAIN s : s[i] <= n

\* What is keyed, in the window of Fldigi, copied by the background thread and
\* in the buffer is one line of text, written up to piece n.
InLine(k, f, t, b, n) ==
    /\ Rising(k) /\ Rising(f) /\ Rising(t) /\ Rising(b)
    /\ Before(k, f) /\ Before(k, t) /\ Before(k, b)
    /\ Before(f, t) /\ Before(f, b) /\ Before(t, b)
    /\ UpTo(k, n) /\ UpTo(f, n) /\ UpTo(t, n) /\ UpTo(b, n)

\* The main thread writes to the device only in a QTC block, and no thread
\* calls Fldigi when it is not the keyer.
Roles ==
    /\ ~setup.blocks => /\ at["main"] \notin {"take", "send", "add", "start"}
                        /\ tosend["main"] = <<>>
    /\ setup.device # "fldigi" =>
           /\ fldigi.text = <<>>
           /\ \A t \in Threads : at[t] \notin {"rx", "clear", "add", "start"}

OrderInv ==
    ~setup.blocks => InLine(keyed, fldigi.text, tosend["background"], buffer, written)

IInv == TypeOK /\ Roles /\ OrderInv

-----------------------------------------------------------------------------
(* Operators on text.                                                      *)

LEMMA EmptyText == \A S : <<>> \in Seq(S)
OBVIOUS

\* A message that is appended.
LEMMA NewType ==
    ASSUME written \in Nat, NEW n \in Nat, written + n <= MaxPieces
    PROVE  /\ New(n) \in Seq(Pieces) /\ Len(New(n)) = n
           /\ \A i \in 1..n : New(n)[i] = written + i
BY SizeAssumption DEF New, Pieces

\* The first pieces of a text, and the rest.
LEMMA FirstType ==
    ASSUME NEW S, NEW s \in Seq(S), NEW n \in Nat
    PROVE  /\ First(s, n) \in Seq(S)
           /\ DOMAIN First(s, n) \subseteq DOMAIN s
           /\ \A i \in DOMAIN First(s, n) : First(s, n)[i] = s[i]
BY DEF First, Least

\* The same for a text as a sequence of numbers.
LEMMA FirstOfNumbers ==
    ASSUME NEW s \in Seq(Nat), NEW n \in Nat
    PROVE  /\ First(s, n) \in Seq(Nat)
           /\ DOMAIN First(s, n) \subseteq DOMAIN s
           /\ \A i \in DOMAIN First(s, n) : First(s, n)[i] = s[i]
BY DEF First, Least

LEMMA AfterType ==
    ASSUME NEW S, NEW s \in Seq(S), NEW n \in Nat
    PROVE  After(s, n) \in Seq(S)
BY DEF After

\* A text of pieces is a text of numbers.
LEMMA SeqMonotone ==
    ASSUME NEW S, NEW T, S \subseteq T, NEW s \in Seq(S)
    PROVE  s \in Seq(T) /\ DOMAIN s = 1..Len(s) /\ \A i \in DOMAIN s : s[i] \in S
<1>1. s \in [1..Len(s) -> S] /\ Len(s) \in Nat
    OBVIOUS
<1>2. s \in [1..Len(s) -> T]
    BY <1>1
<1> QED
    BY <1>1, <1>2

LEMMA SetOfType ==
    ASSUME NEW S, NEW s \in Seq(S)
    PROVE  SetOf(s) \subseteq S
BY DEF SetOf

\* A datagram holds the head of the text.
LEMMA DatagramType ==
    ASSUME NEW S, NEW s \in Seq(S)
    PROVE  /\ Datagram(s) \in Seq(S)
           /\ DOMAIN Datagram(s) \subseteq DOMAIN s
           /\ \A i \in DOMAIN Datagram(s) : Datagram(s)[i] = s[i]
BY FirstType, SizeAssumption DEF Datagram

-----------------------------------------------------------------------------
(* Types.                                                                  *)

FldigiState == [on : BOOLEAN, err : BOOLEAN, count : 0..MaxErrors, lost : BOOLEAN,
                tx : BOOLEAN, text : Seq(Pieces \cup {Rx})]

\* Counting refused calls changes only the count and the switch.
LEMMA CountedType ==
    ASSUME fldigi \in FldigiState
    PROVE  Counted \in FldigiState /\ Counted.text = fldigi.text
<1>1. CASE ~(fldigi.err /\ fldigi.on)
  <2>1. Counted = [fldigi EXCEPT !.count = 0] /\ 0 \in 0..MaxErrors
      BY <1>1, SizeAssumption DEF Counted
  <2> QED
      BY <2>1 DEF FldigiState
<1>2. CASE fldigi.err /\ fldigi.on /\ fldigi.count = MaxErrors
    BY <1>2 DEF Counted, FldigiState
<1>3. CASE fldigi.err /\ fldigi.on /\ fldigi.count # MaxErrors
  <2>1. fldigi.count + 1 \in 0..MaxErrors /\ Counted = [fldigi EXCEPT !.count = @ + 1]
      BY <1>3, SizeAssumption DEF Counted, FldigiState
  <2> QED
      BY <2>1 DEF FldigiState
<1> QED
    BY <1>1, <1>2, <1>3

\* Whatever comes of a call, Fldigi holds the old text or the new one.
LEMMA QueryType ==
    ASSUME fldigi \in FldigiState, NEW done \in FldigiState, NEW r \in Query(done)
    PROVE  r.now \in FldigiState /\ r.now.text \in {fldigi.text, done.text}
<1>1. Counted \in FldigiState /\ Counted.text = fldigi.text
    BY CountedType
<1>2. CASE r = [ok |-> FALSE, now |-> [Counted EXCEPT !.lost = TRUE]]
    BY <1>1, <1>2 DEF FldigiState
<1>3. CASE r = [ok |-> TRUE, now |-> done]
    BY <1>3
<1>4. ASSUME NEW f \in {Counted, done}, r = Failed(f)
      PROVE  r.now \in FldigiState /\ r.now.text \in {fldigi.text, done.text}
  <2>1. r.now = [f EXCEPT !.err = TRUE, !.lost = TRUE]
      BY <1>4 DEF Failed
  <2>2. f \in FldigiState
      BY <1>1
  <2> QED
      BY <1>1, <2>1, <2>2, ZenonT(30) DEF FldigiState
<1> QED
    BY <1>2, <1>3, <1>4 DEF Query

LEMMA InitType == Init => TypeOK
<1> SUFFICES ASSUME Init PROVE TypeOK
    OBVIOUS
<1>1. fldigi \in FldigiState
  <2>1. 0 \in 0..MaxErrors /\ <<>> \in Seq(Pieces \cup {Rx})
      BY SizeAssumption
  <2> QED
      BY <2>1 DEF Init, FldigiState
<1>2. tosend \in [Threads -> Seq(Pieces)] /\ at \in [Threads -> Places]
    BY DEF Init, Places
<1>3. written \in 0..MaxPieces /\ stops \in 0..MaxStops
    BY SizeAssumption DEF Init
<1>4. /\ setup \in Setups /\ trxmode \in {"CW", "SSB"} /\ dataReady \in BOOLEAN
      /\ pause \in BOOLEAN /\ gone \subseteq Pieces
      /\ buffer \in Seq(Pieces) /\ keyed \in Seq(Pieces)
    BY EmptyText DEF Init
<1> QED
    BY <1>1, <1>2, <1>3, <1>4 DEF TypeOK, FldigiState

\* A place, for one thread or for both.
LEMMA GoToType ==
    ASSUME at \in [Threads -> Places], NEW t \in Threads, NEW place \in Places, GoTo(t, place)
    PROVE  at' \in [Threads -> Places] /\ at'[t] = place
           /\ \A u \in Threads : u # t => at'[u] = at[u]
BY DEF GoTo

LEMMA BothType ==
    ASSUME NEW p \in Places, NEW q \in Places, at' = [main |-> p, background |-> q]
    PROVE  at' \in [Threads -> Places] /\ at'["main"] = p /\ at'["background"] = q
BY DEF Threads

\* What fits into the buffer is kept, the rest is gone.
LEMMA AppendType ==
    ASSUME TypeOK, NEW n \in setup.lengths, written + n <= setup.pieces, AppendText(n)
    PROVE  /\ n \in Nat /\ written' = written + n /\ written + n <= MaxPieces
           /\ buffer' = First(buffer \o New(n), BufferSize)
           /\ buffer' \in Seq(Pieces) /\ gone' \subseteq Pieces /\ written' \in 0..MaxPieces
           /\ dataReady' \in BOOLEAN
<1>1. n \in Nat /\ written \in 0..MaxPieces /\ written + n \in 0..MaxPieces
    BY SizeAssumption DEF TypeOK, Setup
<1>2. New(n) \in Seq(Pieces)
    BY <1>1, NewType
<1>3. buffer \o New(n) \in Seq(Pieces)
    BY <1>2 DEF TypeOK
<1>4. First(buffer \o New(n), BufferSize) \in Seq(Pieces)
      /\ SetOf(After(buffer \o New(n), BufferSize)) \subseteq Pieces
    BY <1>3, FirstType, AfterType, SetOfType, SizeAssumption
<1> QED
    BY <1>1, <1>4 DEF AppendText, TypeOK

\* Every step of either thread and of Fldigi keeps the types.
LEMMA TypeStep ==
    ASSUME TypeOK, Next
    PROVE  TypeOK'
<1>a. fldigi \in FldigiState
    BY DEF TypeOK, FldigiState
<1>b. at \in [Threads -> Places] /\ "main" \in Threads /\ "background" \in Threads
    BY DEF TypeOK, Threads
<1>1. CASE Write
    BY <1>1, AppendType DEF Write, TypeOK
<1>2. CASE WriteBlock
  <2>1. at' \in [Threads -> Places]
      BY <1>b, <1>2 DEF WriteBlock, GoTo, Places
  <2> QED
      BY <1>2, <2>1, AppendType DEF WriteBlock, TypeOK
<1>3. CASE Stop
  <2>1. at' \in [Threads -> Places]
      BY <1>b, <1>3 DEF Stop, GoTo, Places, Stopped
  <2>2. stops' \in 0..MaxStops
      BY <1>3, SizeAssumption DEF Stop, TypeOK
  <2> QED
      BY <1>3, <2>1, <2>2 DEF Stop, TypeOK
<1>4. CASE ChangeMode
    BY <1>4 DEF ChangeMode, TypeOK
<1>5. CASE StopBackground
  <2>1. at' \in [Threads -> Places]
      BY <1>b, <1>5 DEF StopBackground, GoTo, Places
  <2> QED
      BY <1>5, <2>1 DEF StopBackground, TypeOK
<1>6. CASE ToggleFldigi
  <2>1. fldigi' \in FldigiState
      BY <1>6, <1>a DEF ToggleFldigi, FldigiState
  <2> QED
      BY <1>6, <2>1 DEF ToggleFldigi, TypeOK, FldigiState
<1>7. CASE Flush
  <2>1. at' \in [Threads -> Places]
      BY <1>b, <1>7 DEF Flush, GoTo, Places
  <2>2. gone' \subseteq Pieces
      BY <1>7, SetOfType DEF Flush, TypeOK
  <2>3. buffer' \in Seq(Pieces) /\ dataReady' \in BOOLEAN
      BY <1>7, EmptyText DEF Flush
  <2> QED
      BY <1>7, <2>1, <2>2, <2>3 DEF Flush, TypeOK
<1>8. CASE ResumeBackground
  <2>1. at' \in [Threads -> Places]
      BY <1>8, BothType DEF ResumeBackground, Places
  <2> QED
      BY <1>8, <2>1 DEF ResumeBackground, TypeOK
<1>9. ASSUME NEW t \in Threads, Take(t)
      PROVE  TypeOK'
  <2>1. at' \in [Threads -> Places]
      BY <1>b, <1>9 DEF Take, GoTo, Places, Done
  <2>2. tosend' \in [Threads -> Seq(Pieces)]
      BY <1>9 DEF Take, TypeOK
  <2>3. buffer' \in Seq(Pieces)
    <3>1. buffer' = buffer \/ buffer' = <<>>
        BY <1>9 DEF Take
    <3> QED
        BY <3>1, EmptyText DEF TypeOK
  <2>4. dataReady' \in BOOLEAN
      BY <1>9 DEF Take, TypeOK
  <2> QED
      BY <1>9, <2>1, <2>2, <2>3, <2>4 DEF Take, TypeOK
<1>10. ASSUME NEW t \in Threads, Send(t)
       PROVE  TypeOK'
  <2>1. at' \in [Threads -> Places]
      BY <1>b, <1>10 DEF Send, GoTo, Places, Done
  <2>2. tosend[t] \in Seq(Pieces) /\ Datagram(tosend[t]) \in Seq(Pieces)
      BY DatagramType DEF TypeOK
  <2>3. SetOf(tosend[t]) \subseteq Pieces
      BY <2>2, SetOfType
  <2>4. keyed' \in Seq(Pieces) /\ gone' \subseteq Pieces /\ trxmode' \in {"CW", "SSB"}
    <3>1. PICK sent \in {Datagram(tosend[t]), tosend[t], <<>>} :
              /\ keyed' = keyed \o sent
              /\ gone' = gone \cup (SetOf(tosend[t]) \ SetOf(sent))
              /\ trxmode' \in {trxmode, "SSB"}
        BY <1>10 DEF Send
    <3>2. sent \in Seq(Pieces)
        BY <2>2, <3>1, EmptyText
    <3> QED
        BY <2>3, <3>1, <3>2 DEF TypeOK
  <2>5. tosend' \in [Threads -> Seq(Pieces)]
      BY <1>10 DEF Send, TypeOK
  <2> QED
      BY <1>10, <2>1, <2>4, <2>5 DEF Send, TypeOK
<1>11. ASSUME NEW t \in Threads, AskFldigi(t)
       PROVE  TypeOK'
  <2>1. at' \in [Threads -> Places]
      BY <1>b, <1>11 DEF AskFldigi, GoTo, Places, Done
  <2>2. SetOf(tosend[t]) \subseteq Pieces
      BY SetOfType DEF TypeOK
  <2>3. tosend' \in [Threads -> Seq(Pieces)] /\ gone' \subseteq Pieces
    <3>1. UNCHANGED <<tosend, gone>> \/ GiveUp(t)
        BY <1>11 DEF AskFldigi
    <3> QED
      <4>1. CASE UNCHANGED <<tosend, gone>>
          BY <4>1 DEF TypeOK
      <4>2. CASE GiveUp(t)
          BY <2>2, <4>2, EmptyText DEF GiveUp, TypeOK
      <4> QED
          BY <3>1, <4>1, <4>2
  <2>4. fldigi' \in FldigiState
      BY <1>a, <1>11, CountedType, QueryType DEF AskFldigi
  <2> QED
      BY <1>11, <2>1, <2>3, <2>4 DEF AskFldigi, TypeOK, FldigiState
<1>12. ASSUME NEW t \in Threads, StopFldigi(t)
       PROVE  TypeOK'
  <2>1. at' \in [Threads -> Places]
      BY <1>b, <1>12 DEF StopFldigi, GoTo, Places
  <2>2. [Counted EXCEPT !.tx = FALSE] \in FldigiState
      BY <1>a, CountedType DEF FldigiState
  <2>3. fldigi' \in FldigiState
      BY <1>a, <1>12, <2>2, QueryType DEF StopFldigi
  <2> QED
      BY <1>12, <2>1, <2>3 DEF StopFldigi, TypeOK, FldigiState
<1>13. ASSUME NEW t \in Threads, ClearFldigi(t)
       PROVE  TypeOK'
  <2>1. at' \in [Threads -> Places]
      BY <1>b, <1>13 DEF ClearFldigi, GoTo, Places, Stopped
  <2>2. [Counted EXCEPT !.text = <<>>] \in FldigiState
    <3>1. <<>> \in Seq(Pieces \cup {Rx})
        OBVIOUS
    <3> QED
        BY <1>a, <3>1, CountedType DEF FldigiState
  <2>3. fldigi' \in FldigiState
      BY <1>a, <1>13, <2>2, QueryType DEF ClearFldigi
  <2>4. SetOf(fldigi.text) \subseteq Pieces \cup {Rx}
      BY <1>a, SetOfType DEF FldigiState
  <2>5. gone' \subseteq Pieces
      BY <1>13, <2>4 DEF ClearFldigi, TypeOK
  <2> QED
      BY <1>13, <2>1, <2>3, <2>5 DEF ClearFldigi, TypeOK, FldigiState
<1>14. ASSUME NEW t \in Threads, AddFldigi(t)
       PROVE  TypeOK'
  <2>1. at' \in [Threads -> Places]
      BY <1>b, <1>14 DEF AddFldigi, GoTo, Places, Done
  <2>2. tosend[t] \in Seq(Pieces) /\ tosend[t] \in Seq(Pieces \cup {Rx})
      BY DEF TypeOK
  <2>3. Append(Counted.text \o tosend[t], Rx) \in Seq(Pieces \cup {Rx})
      BY <1>a, <2>2, CountedType DEF FldigiState
  <2>4. [Counted EXCEPT !.text = Append(@ \o tosend[t], Rx)] \in FldigiState
      BY <1>a, <2>3, CountedType DEF FldigiState
  <2>5. fldigi' \in FldigiState
      BY <1>a, <1>14, <2>4, QueryType DEF AddFldigi
  <2>6. SetOf(tosend[t]) \subseteq Pieces
      BY <2>2, SetOfType
  <2>7. gone' \subseteq Pieces /\ tosend' \in [Threads -> Seq(Pieces)]
      BY <1>14, <2>6 DEF AddFldigi, TypeOK
  <2> QED
      BY <1>14, <2>1, <2>5, <2>7 DEF AddFldigi, TypeOK, FldigiState
<1>15. ASSUME NEW t \in Threads, StartFldigi(t)
       PROVE  TypeOK'
  <2>1. at' \in [Threads -> Places]
      BY <1>b, <1>15 DEF StartFldigi, GoTo, Places, Done
  <2>2. [Counted EXCEPT !.tx = TRUE] \in FldigiState
      BY <1>a, CountedType DEF FldigiState
  <2>3. fldigi' \in FldigiState
      BY <1>a, <1>15, <2>2, QueryType DEF StartFldigi
  <2> QED
      BY <1>15, <2>1, <2>3 DEF StartFldigi, TypeOK, FldigiState
<1>16. CASE Loop
  <2>1. at' \in [Threads -> Places]
      BY <1>b, <1>16, BothType DEF Loop, GoTo, Places
  <2> QED
      BY <1>16, <2>1 DEF Loop, TypeOK
<1>17. CASE Skip \/ Rest
  <2>1. at' \in [Threads -> Places]
      BY <1>b, <1>17 DEF Skip, Rest, GoTo, Places
  <2> QED
      BY <1>17, <2>1 DEF Skip, Rest, TypeOK
<1>18. CASE PollFldigi
  <2>1. at' \in [Threads -> Places]
      BY <1>b, <1>18 DEF PollFldigi, GoTo, Places
  <2>2. fldigi' \in FldigiState
      BY <1>a, <1>18, CountedType, QueryType DEF PollFldigi
  <2> QED
      BY <1>18, <2>1, <2>2 DEF PollFldigi, TypeOK, FldigiState
<1>19. CASE Transmit
  <2>1. fldigi.text \in Seq(Pieces \cup {Rx}) /\ fldigi.text # <<>>
      BY <1>a, <1>19 DEF Transmit, FldigiState
  <2>2. Head(fldigi.text) \in Pieces \cup {Rx} /\ Tail(fldigi.text) \in Seq(Pieces \cup {Rx})
      BY <2>1
  <2>3. fldigi' \in FldigiState
      BY <1>a, <1>19, <2>2 DEF Transmit, FldigiState
  <2>4. keyed' \in Seq(Pieces)
      BY <1>19, <2>2 DEF Transmit, TypeOK
  <2> QED
      BY <1>19, <2>3, <2>4 DEF Transmit, TypeOK, FldigiState
<1> QED
    BY <1>b, <1>1, <1>2, <1>3, <1>4, <1>5, <1>6, <1>7, <1>8, <1>9, <1>10, <1>11, <1>12, <1>13,
       <1>14, <1>15, <1>16, <1>17, <1>18, <1>19
       DEF Next, Main, Finish, Background, Fldigi

-----------------------------------------------------------------------------
(* Order.                                                                  *)

LEMMA EmptyInOrder ==
    ASSUME NEW s \in Seq(Nat), NEW n \in Nat
    PROVE  Rising(<<>>) /\ Before(<<>>, s) /\ Before(s, <<>>) /\ UpTo(<<>>, n)
BY DEF Rising, Before, UpTo

\* Where the parts of a joined text are.
LEMMA Joined ==
    ASSUME NEW s \in Seq(Nat), NEW t \in Seq(Nat), NEW i \in DOMAIN (s \o t)
    PROVE  \/ i \in DOMAIN s /\ (s \o t)[i] = s[i]
           \/ i > Len(s) /\ i - Len(s) \in DOMAIN t /\ (s \o t)[i] = t[i - Len(s)]
BY SMTT(25)

\* Older text in front of younger text is in order.
LEMMA JoinInOrder ==
    ASSUME NEW s \in Seq(Nat), NEW t \in Seq(Nat), Rising(s), Rising(t), Before(s, t)
    PROVE  Rising(s \o t)
<1> SUFFICES ASSUME NEW i \in DOMAIN (s \o t), NEW j \in DOMAIN (s \o t), i < j,
                    (s \o t)[i] # Rx, (s \o t)[j] # Rx
             PROVE  (s \o t)[i] < (s \o t)[j]
    BY DEF Rising
<1>1. i \in Nat /\ j \in Nat /\ Len(s) \in Nat
    OBVIOUS
<1>2. CASE i \in DOMAIN s /\ (s \o t)[i] = s[i]
  <2>1. CASE j \in DOMAIN s /\ (s \o t)[j] = s[j]
      BY <1>2, <2>1 DEF Rising
  <2>2. CASE j - Len(s) \in DOMAIN t /\ (s \o t)[j] = t[j - Len(s)]
      BY <1>2, <2>2 DEF Before
  <2> QED
      BY <2>1, <2>2, Joined
<1>3. CASE i > Len(s) /\ i - Len(s) \in DOMAIN t /\ (s \o t)[i] = t[i - Len(s)]
  <2>1. j > Len(s) /\ j - Len(s) \in DOMAIN t /\ (s \o t)[j] = t[j - Len(s)]
      BY <1>1, <1>3, Joined
  <2>2. i - Len(s) < j - Len(s)
      BY <1>1
  <2> QED
      BY <1>3, <2>1, <2>2 DEF Rising
<1> QED
    BY <1>2, <1>3, Joined

LEMMA JoinBefore ==
    ASSUME NEW s \in Seq(Nat), NEW t \in Seq(Nat), NEW u \in Seq(Nat)
    PROVE  /\ Before(s, u) /\ Before(t, u) => Before(s \o t, u)
           /\ Before(u, s) /\ Before(u, t) => Before(u, s \o t)
<1>1. ASSUME Before(s, u), Before(t, u), NEW i \in DOMAIN (s \o t), NEW j \in DOMAIN u,
             (s \o t)[i] # Rx, u[j] # Rx
      PROVE  (s \o t)[i] < u[j]
    BY <1>1, Joined DEF Before
<1>2. ASSUME Before(u, s), Before(u, t), NEW i \in DOMAIN (s \o t), NEW j \in DOMAIN u,
             (s \o t)[i] # Rx, u[j] # Rx
      PROVE  u[j] < (s \o t)[i]
    BY <1>2, Joined DEF Before
<1> QED
    BY <1>1, <1>2 DEF Before

LEMMA JoinUpTo ==
    ASSUME NEW s \in Seq(Nat), NEW t \in Seq(Nat), NEW n \in Nat, UpTo(s, n), UpTo(t, n)
    PROVE  UpTo(s \o t, n)
BY Joined DEF UpTo

\* The first pieces of a text in order.
LEMMA PartInOrder ==
    ASSUME NEW s \in Seq(Nat), NEW q \in Seq(Nat), NEW u \in Seq(Nat), NEW n \in Nat,
           DOMAIN q \subseteq DOMAIN s, \A i \in DOMAIN q : q[i] = s[i]
    PROVE  /\ Rising(s) => Rising(q)
           /\ Before(s, u) => Before(q, u)
           /\ Before(u, s) => Before(u, q)
           /\ UpTo(s, n) => UpTo(q, n)
BY DEF Rising, Before, UpTo

\* The first piece and the rest of a text in order.
LEMMA HeadInOrder ==
    ASSUME NEW s \in Seq(Nat), s # <<>>, NEW n \in Nat, Rising(s), UpTo(s, n)
    PROVE  /\ Rising(Tail(s)) /\ UpTo(Tail(s), n)
           /\ Rising(<<Head(s)>>) /\ UpTo(<<Head(s)>>, n) /\ Before(<<Head(s)>>, Tail(s))
           /\ \A u \in Seq(Nat) :
                  /\ Before(s, u) => Before(Tail(s), u) /\ Before(<<Head(s)>>, u)
                  /\ Before(u, s) => Before(u, Tail(s)) /\ Before(u, <<Head(s)>>)
<1>1. \A i \in DOMAIN Tail(s) : i \in Nat /\ i + 1 \in DOMAIN s /\ Tail(s)[i] = s[i + 1] /\ 1 < i + 1
    OBVIOUS
<1>2. <<Head(s)>> \in Seq(Nat) /\ DOMAIN <<Head(s)>> = {1} /\ <<Head(s)>>[1] = s[1]
      /\ 1 \in DOMAIN s
    OBVIOUS
<1>3. Rising(Tail(s))
  <2> SUFFICES ASSUME NEW i \in DOMAIN Tail(s), NEW j \in DOMAIN Tail(s), i < j,
                      Tail(s)[i] # Rx, Tail(s)[j] # Rx
               PROVE  Tail(s)[i] < Tail(s)[j]
      BY DEF Rising
  <2>1. i + 1 < j + 1
      BY <1>1
  <2> QED
      BY <1>1, <2>1 DEF Rising
<1>4. UpTo(Tail(s), n)
      /\ \A u \in Seq(Nat) : /\ Before(s, u) => Before(Tail(s), u)
                             /\ Before(u, s) => Before(u, Tail(s))
    BY <1>1 DEF Before, UpTo
<1>5. Rising(<<Head(s)>>) /\ UpTo(<<Head(s)>>, n)
      /\ \A u \in Seq(Nat) : /\ Before(s, u) => Before(<<Head(s)>>, u)
                             /\ Before(u, s) => Before(u, <<Head(s)>>)
    BY <1>2 DEF Rising, Before, UpTo
<1>6. Before(<<Head(s)>>, Tail(s))
    BY <1>1, <1>2 DEF Rising, Before
<1> QED
    BY <1>3, <1>4, <1>5, <1>6

-----------------------------------------------------------------------------
(* The line of text.                                                       *)

\* Text may leave the line at any place, and move on when it does.
LEMMA LineShorter ==
    ASSUME NEW k \in Seq(Nat), NEW f \in Seq(Nat), NEW t \in Seq(Nat), NEW b \in Seq(Nat),
           NEW n \in Nat, InLine(k, f, t, b, n)
    PROVE  /\ InLine(k, <<>>, t, b, n) /\ InLine(k, f, <<>>, b, n) /\ InLine(k, f, t, <<>>, n)
           /\ InLine(k, f, b, <<>>, n)
BY EmptyInOrder DEF InLine

\* New text goes to its end, and what does not fit is cut off.
LEMMA LineGrows ==
    ASSUME NEW k \in Seq(Nat), NEW f \in Seq(Nat), NEW t \in Seq(Nat), NEW b \in Seq(Nat),
           NEW n \in Nat, InLine(k, f, t, b, n), NEW new \in Seq(Nat), NEW w \in Nat,
           \A i \in DOMAIN new : new[i] = n + i, Len(new) = w, NEW size \in Nat
    PROVE  InLine(k, f, t, First(b \o new, size), n + w)
<1>1. \A i \in DOMAIN new : i \in Nat /\ n < n + i /\ n + i <= n + w
    OBVIOUS
<1>2. Rising(new)
  <2> SUFFICES ASSUME NEW i \in DOMAIN new, NEW j \in DOMAIN new, i < j
               PROVE  new[i] < new[j]
      BY DEF Rising
  <2>1. i \in Nat /\ j \in Nat /\ n + i < n + j
      OBVIOUS
  <2> QED
      BY <2>1
<1>3. ASSUME NEW q \in Seq(Nat), UpTo(q, n)
      PROVE  Before(q, new) /\ UpTo(q, n + w)
  <2>1. \A i \in DOMAIN q : q[i] \in Nat /\ q[i] <= n
      BY <1>3 DEF UpTo
  <2>2. Before(q, new)
      BY <1>1, <2>1 DEF Before
  <2>3. UpTo(q, n + w)
      BY <2>1 DEF UpTo
  <2> QED
      BY <2>2, <2>3
<1>4. UpTo(new, n + w)
    BY <1>1 DEF UpTo
<1>5. b \o new \in Seq(Nat) /\ n + w \in Nat
    OBVIOUS
<1>6. Rising(b \o new)
    BY <1>2, <1>3, JoinInOrder DEF InLine
<1>7. Before(k, b \o new) /\ Before(f, b \o new) /\ Before(t, b \o new)
    BY <1>3, JoinBefore DEF InLine
<1>8. UpTo(b \o new, n + w)
    BY <1>3, <1>4, <1>5, JoinUpTo DEF InLine
<1> DEFINE bn == b \o new
           q  == First(bn, size)
<1> HIDE DEF bn
<1>9. q \in Seq(Nat) /\ DOMAIN q \subseteq DOMAIN bn /\ \A i \in DOMAIN q : q[i] = bn[i]
  <2>1. bn \in Seq(Nat)
      BY <1>5 DEF bn
  <2>2. /\ First(bn, size) \in Seq(Nat)
        /\ DOMAIN First(bn, size) \subseteq DOMAIN bn
        /\ \A i \in DOMAIN First(bn, size) : First(bn, size)[i] = bn[i]
      BY <2>1, FirstOfNumbers
  <2> QED
      BY <2>2
<1> HIDE DEF q
<1>10. Rising(q) /\ Before(k, q) /\ Before(f, q) /\ Before(t, q) /\ UpTo(q, n + w)
    BY <1>5, <1>6, <1>7, <1>8, <1>9, PartInOrder DEF bn
<1>11. UpTo(k, n + w) /\ UpTo(f, n + w) /\ UpTo(t, n + w)
    BY <1>3 DEF InLine
<1> QED
    BY <1>10, <1>11 DEF InLine, q, bn

\* The copied text, or the head of it, goes to the device at once ...
LEMMA LineSent ==
    ASSUME NEW k \in Seq(Nat), NEW t \in Seq(Nat), NEW b \in Seq(Nat),
           NEW n \in Nat, InLine(k, <<>>, t, b, n), NEW sent \in Seq(Nat),
           DOMAIN sent \subseteq DOMAIN t, \A i \in DOMAIN sent : sent[i] = t[i]
    PROVE  InLine(k \o sent, <<>>, <<>>, b, n)
<1>1. Rising(sent) /\ Before(k, sent) /\ Before(sent, b) /\ UpTo(sent, n)
    BY PartInOrder DEF InLine
<1> DEFINE ks == k \o sent
<1>2. ks \in Seq(Nat)
    OBVIOUS
<1>3. Rising(ks) /\ Before(ks, b) /\ UpTo(ks, n)
    BY <1>1, JoinInOrder, JoinBefore, JoinUpTo DEF InLine
<1>4. Rising(b) /\ UpTo(b, n)
    BY DEF InLine
<1> HIDE DEF ks
<1>5. InLine(ks, <<>>, <<>>, b, n)
    BY <1>2, <1>3, <1>4, EmptyInOrder, EmptyText DEF InLine
<1> QED
    BY <1>5 DEF ks

\* ... or into the window of Fldigi, with ^r behind it ...
LEMMA LineAdded ==
    ASSUME NEW k \in Seq(Nat), NEW f \in Seq(Nat), NEW t \in Seq(Nat), NEW b \in Seq(Nat),
           NEW n \in Nat, InLine(k, f, t, b, n)
    PROVE  InLine(k, Append(f \o t, Rx), <<>>, b, n)
<1> DEFINE ft == f \o t
           rx == <<Rx>>
<1>1. ft \in Seq(Nat) /\ rx \in Seq(Nat) /\ Append(f \o t, Rx) = ft \o rx
  <2>1. ft \in Seq(Nat) /\ Rx \in Nat
      BY DEF Rx
  <2> HIDE DEF ft
  <2>2. Append(ft, Rx) = ft \o rx
      BY <2>1
  <2> QED
      BY <2>1, <2>2 DEF ft
<1>2. Rising(ft) /\ Before(k, ft) /\ Before(ft, b) /\ UpTo(ft, n)
    BY JoinInOrder, JoinBefore, JoinUpTo DEF InLine
<1>3. Rising(rx) /\ UpTo(rx, n)
      /\ \A u \in Seq(Nat) : Before(rx, u) /\ Before(u, rx)
    BY DEF Rising, Before, UpTo, Rx
<1> HIDE DEF ft, rx
<1>4. ft \o rx \in Seq(Nat)
    BY <1>1
<1>5. Rising(ft \o rx) /\ Before(k, ft \o rx) /\ Before(ft \o rx, b) /\ UpTo(ft \o rx, n)
    BY <1>1, <1>2, <1>3, JoinInOrder, JoinBefore, JoinUpTo
<1> QED
    BY <1>1, <1>4, <1>5, EmptyInOrder DEF InLine

\* ... which keys piece by piece.
LEMMA LineKeyed ==
    ASSUME NEW k \in Seq(Nat), NEW f \in Seq(Nat), NEW t \in Seq(Nat), NEW b \in Seq(Nat),
           NEW n \in Nat, InLine(k, f, t, b, n), f # <<>>
    PROVE  InLine(k, Tail(f), t, b, n) /\ InLine(Append(k, Head(f)), Tail(f), t, b, n)
<1> DEFINE h == <<Head(f)>>
           r == Tail(f)
<1>1. h \in Seq(Nat) /\ r \in Seq(Nat) /\ Append(k, Head(f)) = k \o h
    OBVIOUS
<1>2. /\ Rising(r) /\ Before(k, r) /\ Before(r, t) /\ Before(r, b) /\ UpTo(r, n)
      /\ Rising(h) /\ Before(k, h) /\ Before(h, r) /\ Before(h, t) /\ Before(h, b) /\ UpTo(h, n)
    BY HeadInOrder DEF InLine
<1> HIDE DEF h, r
<1>3. k \o h \in Seq(Nat)
    BY <1>1
<1>4. Rising(k \o h) /\ Before(k \o h, r) /\ Before(k \o h, t) /\ Before(k \o h, b)
      /\ UpTo(k \o h, n)
    BY <1>1, <1>2, JoinInOrder, JoinBefore, JoinUpTo DEF InLine
<1>5. InLine(k, r, t, b, n) /\ InLine(k \o h, r, t, b, n)
    BY <1>2, <1>4 DEF InLine
<1> QED
    BY <1>1, <1>5 DEF r

-----------------------------------------------------------------------------
(* Steps.                                                                  *)

\* Who writes to the device does not change.
LEMMA RolesStep ==
    ASSUME TypeOK, Roles, Next
    PROVE  Roles'
<1>a. at \in [Threads -> Places] /\ Threads = {"main", "background"} /\ fldigi \in FldigiState
      /\ tosend \in [Threads -> Seq(Pieces)]
    BY DEF TypeOK, Threads, FldigiState
<1>1. CASE Write \/ ChangeMode
    BY <1>1 DEF Write, ChangeMode, Roles
<1>2. CASE WriteBlock
    BY <1>2, <1>a DEF WriteBlock, GoTo, Roles
<1>3. CASE Stop
    BY <1>3, <1>a DEF Stop, GoTo, Roles, CallsFldigi, Stopped
<1>4. CASE StopBackground \/ Flush
    BY <1>4, <1>a DEF StopBackground, Flush, GoTo, Roles
<1>5. CASE ToggleFldigi
    BY <1>5 DEF ToggleFldigi, Roles
<1>6. CASE ResumeBackground
  <2>1. at'["main"] = "idle" /\ at'["background"] = "take"
      BY <1>6, BothType DEF ResumeBackground, Places
  <2> QED
      BY <1>6, <1>a, <2>1 DEF ResumeBackground, Roles
<1>7. ASSUME NEW t \in Threads, Take(t)
      PROVE  Roles'
    BY <1>7, <1>a DEF Take, GoTo, Roles, Done
<1>8. ASSUME NEW t \in Threads, Send(t)
      PROVE  Roles'
    BY <1>8, <1>a DEF Send, GoTo, Roles, Done
<1>9. ASSUME NEW t \in Threads, AskFldigi(t)
      PROVE  Roles'
    BY <1>9, <1>a DEF AskFldigi, GiveUp, GoTo, Roles, Done
<1>10. ASSUME NEW t \in Threads, StopFldigi(t) \/ StartFldigi(t)
       PROVE  Roles'
    BY <1>10, <1>a DEF StopFldigi, StartFldigi, GoTo, Roles, Done
<1>11. ASSUME NEW t \in Threads, ClearFldigi(t)
       PROVE  Roles'
    BY <1>11, <1>a DEF ClearFldigi, GoTo, Roles, Stopped
<1>12. ASSUME NEW t \in Threads, AddFldigi(t)
       PROVE  Roles'
    BY <1>12, <1>a DEF AddFldigi, GoTo, Roles, Done
<1>13. CASE Loop
  <2>1. CASE pause
    <3>1. at'["main"] = "paused" /\ at'["background"] = "paused"
        BY <1>13, <2>1, BothType DEF Loop, Places
    <3> QED
        BY <1>13, <1>a, <3>1 DEF Loop, Roles
  <2>2. CASE ~pause
      BY <1>13, <1>a, <2>2 DEF Loop, GoTo, Roles
  <2> QED
      BY <2>1, <2>2
<1>14. CASE Skip \/ Rest \/ PollFldigi
    BY <1>14, <1>a DEF Skip, Rest, PollFldigi, GoTo, Roles
<1>15. CASE Transmit
    BY <1>15, <1>a DEF Transmit, Roles, FldigiState
<1> QED
    BY <1>a, <1>1, <1>2, <1>3, <1>4, <1>5, <1>6, <1>7, <1>8, <1>9, <1>10, <1>11, <1>12, <1>13,
       <1>14, <1>15
       DEF Next, Main, Finish, Background, Fldigi

\* Text moves down the line, whoever moves it and whatever fails.
LEMMA OrderStep ==
    ASSUME TypeOK, Roles, OrderInv, Next
    PROVE  OrderInv'
<1> DEFINE k == keyed
           f == fldigi.text
           t == tosend["background"]
           b == buffer
<1> SUFFICES ASSUME ~setup.blocks, setup' = setup
             PROVE  InLine(k', f', t', b', written')
  <2>1. setup' = setup
      BY DEF Next, Main, Finish, Background, Fldigi, Write, WriteBlock, Stop, ChangeMode,
         StopBackground, ToggleFldigi, Flush, ResumeBackground, Take, Send, AskFldigi, StopFldigi,
         ClearFldigi, AddFldigi, StartFldigi, Loop, Skip, PollFldigi, Rest, Transmit
  <2> QED
      BY <2>1 DEF OrderInv
<1>a. k \in Seq(Nat) /\ t \in Seq(Nat) /\ b \in Seq(Nat) /\ f \in Seq(Nat) /\ written \in Nat
  <2>1. Pieces \subseteq Nat /\ Pieces \cup {Rx} \subseteq Nat
      BY DEF Pieces, Rx
  <2>2. /\ keyed \in Seq(Pieces) /\ buffer \in Seq(Pieces)
        /\ tosend["background"] \in Seq(Pieces) /\ fldigi.text \in Seq(Pieces \cup {Rx})
      BY DEF TypeOK, Threads
  <2>3. written \in Nat
      BY SizeAssumption DEF TypeOK
  <2>4. keyed \in Seq(Nat) /\ buffer \in Seq(Nat) /\ tosend["background"] \in Seq(Nat)
      BY <2>1, <2>2, SeqMonotone
  <2>5. fldigi.text \in Seq(Nat)
      BY <2>1, <2>2, SeqMonotone, ZenonT(30)
  <2> QED
      BY <2>3, <2>4, <2>5
<1>b. InLine(k, f, t, b, written)
    BY DEF OrderInv
<1>c. fldigi \in FldigiState /\ "main" \in Threads /\ "background" \in Threads
      /\ Threads = {"main", "background"} /\ tosend \in [Threads -> Seq(Pieces)]
    BY DEF TypeOK, FldigiState, Threads
<1>d. at["main"] \notin {"take", "send", "add", "start"} /\ tosend["main"] = <<>>
    BY DEF Roles
<1>1. CASE Write \/ WriteBlock
  <2>1. PICK n \in setup.lengths : written + n <= setup.pieces /\ AppendText(n)
      BY <1>1 DEF Write, WriteBlock
  <2>2. UNCHANGED <<keyed, fldigi, tosend>>
      BY <1>1 DEF Write, WriteBlock
  <2>3. /\ n \in Nat /\ written' = written + n /\ written + n <= MaxPieces
        /\ buffer' = First(buffer \o New(n), BufferSize)
      BY <2>1, AppendType
  <2>4. New(n) \in Seq(Pieces) /\ Len(New(n)) = n /\ \A i \in 1..n : New(n)[i] = written + i
      BY <1>a, <2>3, NewType
  <2>5. New(n) \in Seq(Nat) /\ DOMAIN New(n) = 1..n
    <3>1. Pieces \subseteq Nat
        BY DEF Pieces
    <3> QED
        BY <2>4, <3>1, SeqMonotone
  <2>6. InLine(k, f, t, First(b \o New(n), BufferSize), written + n)
      BY <1>a, <1>b, <2>3, <2>4, <2>5, LineGrows, SizeAssumption
  <2> QED
      BY <2>2, <2>3, <2>6
<1>2. CASE Stop \/ ChangeMode \/ StopBackground \/ ResumeBackground \/ Loop \/ Skip \/ Rest
    BY <1>2, <1>b DEF Stop, ChangeMode, StopBackground, ResumeBackground, Loop, Skip, Rest
<1>3. CASE Flush
    BY <1>3, <1>a, <1>b, LineShorter DEF Flush
<1>4. CASE Take("background")
  <2>1. UNCHANGED <<keyed, fldigi, written>>
      BY <1>4 DEF Take
  <2>2. \/ t' = t /\ b' = b
        \/ t' = b /\ b' = <<>>
      BY <1>4, <1>c DEF Take
  <2> QED
      BY <1>a, <1>b, <2>1, <2>2, LineShorter
<1>5. CASE Send("background")
  <2>1. f = <<>> /\ t' = <<>> /\ UNCHANGED <<buffer, written, fldigi>>
      BY <1>5, <1>c DEF Send, Roles
  <2>2. PICK sent \in {Datagram(t), t, <<>>} : k' = k \o sent
      BY <1>5 DEF Send
  <2>3. sent \in Seq(Nat) /\ DOMAIN sent \subseteq DOMAIN t /\ \A i \in DOMAIN sent : sent[i] = t[i]
    <3>1. CASE sent = Datagram(t)
      <4>1. /\ Datagram(t) \in Seq(Nat) /\ DOMAIN Datagram(t) \subseteq DOMAIN t
            /\ \A i \in DOMAIN Datagram(t) : Datagram(t)[i] = t[i]
          BY <1>a, DatagramType
      <4> QED
          BY <3>1, <4>1
    <3>2. CASE sent = t
        BY <1>a, <3>2
    <3>3. CASE sent = <<>>
      <4>1. <<>> \in Seq(Nat) /\ DOMAIN <<>> = {}
          OBVIOUS
      <4> QED
          BY <3>3, <4>1
    <3> QED
        BY <2>2, <3>1, <3>2, <3>3
  <2>4. InLine(k \o sent, <<>>, <<>>, b, written)
      BY <1>a, <1>b, <2>1, <2>3, LineSent
  <2> QED
      BY <2>1, <2>2, <2>4
<1>6. CASE ToggleFldigi
  <2>1. f' = f /\ UNCHANGED <<keyed, tosend, buffer, written>>
      BY <1>6, <1>c DEF ToggleFldigi, FldigiState
  <2> QED
      BY <1>b, <2>1
<1>7. ASSUME NEW u \in Threads, AskFldigi(u)
      PROVE  InLine(k', f', t', b', written')
  <2>1. f' = f
      BY <1>7, <1>c, CountedType, QueryType DEF AskFldigi
  <2>2. UNCHANGED <<keyed, buffer, written>> /\ (t' = t \/ t' = <<>>)
      BY <1>7, <1>c DEF AskFldigi, GiveUp
  <2> QED
      BY <1>a, <1>b, <2>1, <2>2, LineShorter
<1>8. ASSUME NEW u \in Threads, StopFldigi(u) \/ StartFldigi(u)
      PROVE  InLine(k', f', t', b', written')
  <2>1. \A x \in BOOLEAN : [Counted EXCEPT !.tx = x] \in FldigiState
                           /\ [Counted EXCEPT !.tx = x].text = f
      BY <1>c, CountedType DEF FldigiState
  <2>2. f' = f
      BY <1>8, <1>c, <2>1, QueryType, ZenonT(30) DEF StopFldigi, StartFldigi
  <2>3. UNCHANGED <<keyed, tosend, buffer, written>>
      BY <1>8 DEF StopFldigi, StartFldigi
  <2> QED
      BY <1>b, <2>2, <2>3
<1>9. ASSUME NEW u \in Threads, ClearFldigi(u)
      PROVE  InLine(k', f', t', b', written')
  <2> DEFINE done == [Counted EXCEPT !.text = <<>>]
  <2>1. done \in FldigiState /\ done.text = <<>>
    <3>1. <<>> \in Seq(Pieces \cup {Rx})
        BY EmptyText
    <3> QED
        BY <1>c, <3>1, CountedType DEF FldigiState
  <2>2. f' = f \/ f' = <<>>
    <3>1. PICK r \in Query(done) : fldigi' = r.now
        BY <1>9 DEF ClearFldigi
    <3> HIDE DEF done
    <3> QED
        BY <1>c, <2>1, <3>1, QueryType
  <2>3. UNCHANGED <<keyed, tosend, buffer, written>>
      BY <1>9 DEF ClearFldigi
  <2> QED
      BY <1>a, <1>b, <2>2, <2>3, LineShorter
<1>10. CASE AddFldigi("background")
  <2> DEFINE more == Append(f \o t, Rx)
             done == [Counted EXCEPT !.text = Append(@ \o t, Rx)]
  <2>1. more \in Seq(Pieces \cup {Rx})
    <3>1. t \in Seq(Pieces \cup {Rx}) /\ f \in Seq(Pieces \cup {Rx})
        BY <1>c DEF FldigiState
    <3> QED
        BY <3>1
  <2>2. done \in FldigiState /\ done.text = more
    <3> HIDE DEF more
    <3>1. done = [Counted EXCEPT !.text = more]
        BY <1>c, CountedType DEF more, FldigiState
    <3> QED
        BY <1>c, <2>1, <3>1, CountedType DEF FldigiState
  <2>3. f' = f \/ f' = more
    <3>1. PICK r \in Query(done) : fldigi' = r.now
        BY <1>10 DEF AddFldigi
    <3> HIDE DEF done, more
    <3> QED
        BY <1>c, <2>2, <3>1, QueryType
  <2>4. t' = <<>> /\ UNCHANGED <<keyed, buffer, written>>
      BY <1>10, <1>c DEF AddFldigi
  <2> QED
      BY <1>a, <1>b, <2>3, <2>4, LineShorter, LineAdded
<1>11. CASE PollFldigi
  <2>1. f' = f
      BY <1>11, <1>c, CountedType, QueryType DEF PollFldigi
  <2>2. UNCHANGED <<keyed, tosend, buffer, written>>
      BY <1>11 DEF PollFldigi
  <2> QED
      BY <1>b, <2>1, <2>2
<1>12. CASE Transmit
  <2>1. f # <<>> /\ f' = Tail(f) /\ (k' = k \/ k' = Append(k, Head(f)))
      BY <1>12, <1>c DEF Transmit, FldigiState
  <2>2. UNCHANGED <<tosend, buffer, written>>
      BY <1>12 DEF Transmit
  <2> QED
      BY <1>a, <1>b, <2>1, <2>2, LineKeyed
<1>13. ~Take("main") /\ ~Send("main") /\ ~AddFldigi("main")
    BY <1>d DEF Take, Send, AddFldigi
<1> QED
    BY <1>c, <1>1, <1>2, <1>3, <1>4, <1>5, <1>6, <1>7, <1>8, <1>9, <1>10, <1>11, <1>12, <1>13
       DEF Next, Main, Finish, Background, Fldigi

LEMMA InitIInv == Init => IInv
<1> SUFFICES ASSUME Init PROVE IInv
    OBVIOUS
<1>1. Roles
    BY DEF Init, Roles, Threads
<1>2. OrderInv
  <2>1. keyed = <<>> /\ fldigi.text = <<>> /\ tosend["background"] = <<>> /\ buffer = <<>>
        /\ written = 0
      BY DEF Init, Threads
  <2>2. InLine(<<>>, <<>>, <<>>, <<>>, 0)
      BY EmptyText, EmptyInOrder DEF InLine
  <2> QED
      BY <2>1, <2>2 DEF OrderInv
<1> QED
    BY InitType, <1>1, <1>2 DEF IInv

LEMMA Inductive == Spec => []IInv
<1>1. Init => IInv
    BY InitIInv
<1>2. ASSUME IInv, [Next]_vars PROVE IInv'
  <2>1. CASE Next
      BY <1>2, <2>1, TypeStep, RolesStep, OrderStep DEF IInv
  <2>2. CASE UNCHANGED vars
      BY <1>2, <2>2 DEF IInv, vars, TypeOK, Roles, OrderInv
  <2> QED
      BY <1>2, <2>1, <2>2
<1> QED
    BY <1>1, <1>2, PTL DEF Spec

-----------------------------------------------------------------------------
(* Theorems.                                                               *)

\* The buffer, what each thread has copied out of it and the window of Fldigi
\* hold pieces that were written, and the count of refused calls stays within
\* its limit.
THEOREM TypeCorrect == Spec => []TypeOK
BY Inductive, PTL DEF IInv

\* Text reaches the device in the order of writing and no piece twice, for
\* every size of buffer and line and every device: through stops, pauses,
\* flushes, changes of mode and failed calls of Fldigi.
THEOREM KeyedInOrder == Spec => []InOrder
<1>1. IInv => InOrder
  <2> SUFFICES ASSUME IInv, ~setup.blocks, NEW i \in 1..Len(keyed), NEW j \in 1..Len(keyed), i < j
               PROVE  keyed[i] < keyed[j]
      BY DEF InOrder
  <2>1. keyed[i] # Rx /\ keyed[j] # Rx
    <3>1. keyed \in Seq(Pieces)
        BY DEF IInv, TypeOK
    <3>2. keyed[i] \in Pieces /\ keyed[j] \in Pieces
        BY <3>1
    <3> QED
        BY <3>2 DEF Pieces, Rx
  <2>2. i \in DOMAIN keyed /\ j \in DOMAIN keyed
    <3>1. keyed \in Seq(Pieces)
        BY DEF IInv, TypeOK
    <3> QED
        BY <3>1
  <2> QED
      BY <2>1, <2>2 DEF IInv, OrderInv, InLine, Rising
<1> QED
    BY <1>1, Inductive, PTL
=============================================================================
