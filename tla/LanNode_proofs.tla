---------------------------- MODULE LanNode_proofs ----------------------------
(***************************************************************************)
(* Proofs about the LAN, for any number of nodes, any peers and letters    *)
(* and any number of QSOs: types, no echo of cluster lines, no serial      *)
(* number offered twice, and every QSO at most once in every log.          *)
(***************************************************************************)
EXTENDS LanNode, TLAPS

\* A cluster line in the slot has taken the sender down.
EchoInv ==
    /\ EchoFree
    /\ \A n \in Nodes : slot[n] # Empty /\ slot[n].kind = "CLUSTERMSG" => inhibit[n]

\* Numbers taken are below the offer because they are not above the highest
\* number heard of, from which the offer is made again.
SerialInv ==
    setup.lan => \A n \in Nodes : \A nr \in taken[n] : nr < qsonum[n] /\ nr <= highqsonr[n]

SameQso(q, r) == q.node = r.node /\ q.id = r.id

\* The QSOs in a queue, a slot and a log.
Pending(queue) == {i \in DOMAIN queue : queue[i].kind = "LOGENTRY"}
Waiting(msg)   == msg # Empty /\ msg.kind = "LOGENTRY"
Logged(lines)  == {i \in DOMAIN lines : lines[i] # Note}

\* QSOs on their way, waiting and logged were made, and packets name their maker.
Made ==
    /\ \A k, m \in Nodes : \A i \in Pending(chan[k][m]) :
        LET msg == chan[k][m][i]
        IN  msg.from = ThisNode[k] /\ msg.entry.node = k /\ msg.entry.id <= made
    /\ \A m \in Nodes : Waiting(slot[m]) =>
        slot[m].from = ThisNode[slot[m].entry.node] /\ slot[m].entry.id <= made
    /\ \A m \in Nodes : \A i \in Logged(log[m]) : log[m][i].id <= made

\* A QSO is in one place of what a node has or is going to have: on its way,
\* waiting or logged. A node that sends to itself never handles its own
\* packets, so that they do not count.
OnceOnWay ==
    \A k, m \in Nodes : \A i, j \in Pending(chan[k][m]) :
        i # j => chan[k][m][i].entry.id # chan[k][m][j].entry.id

OnWayNotWaiting ==
    \A k, m \in Nodes : k # m /\ Waiting(slot[m]) => \A i \in Pending(chan[k][m]) :
        ~SameQso(chan[k][m][i].entry, slot[m].entry)

OnWayNotLogged ==
    \A k, m \in Nodes : k # m => \A i \in Pending(chan[k][m]), j \in Logged(log[m]) :
        ~SameQso(chan[k][m][i].entry, log[m][j])

WaitingNotLogged ==
    \A m \in Nodes : Waiting(slot[m]) /\ slot[m].entry.node # m => \A j \in Logged(log[m]) :
        ~SameQso(slot[m].entry, log[m][j])

OnceLogged ==
    \A m \in Nodes : \A i, j \in Logged(log[m]) : i # j => ~SameQso(log[m][i], log[m][j])

OnePlace ==
    OnceOnWay /\ OnWayNotWaiting /\ OnWayNotLogged /\ WaitingNotLogged /\ OnceLogged

IInv == TypeOK /\ EchoInv /\ SerialInv /\ Made /\ OnePlace

-----------------------------------------------------------------------------
(* Serial numbers.                                                         *)

\* The larger of two numbers.
LEMMA MaxOfTwo ==
    ASSUME NEW a \in Nat, NEW b \in Nat
    PROVE  Max({a, b}) \in Nat /\ Max({a, b}) >= a /\ Max({a, b}) >= b
<1>1. \E x \in {a, b} : \A y \in {a, b} : x >= y
    OBVIOUS
<1> QED
    BY <1>1 DEF Max

\* The largest of a few numbers.
LEMMA MaxOfFour ==
    ASSUME NEW a \in Nat, NEW b \in Nat, NEW c \in Nat, NEW d \in Nat,
           NEW S, S \subseteq {a, b, c, d}, a \in S
    PROVE  Max(S) \in Nat /\ Max(S) >= a
<1>1. \E x \in S : \A y \in S : x >= y
    OBVIOUS
<1> QED
    BY <1>1 DEF Max

\* A line that is not a note has a number; a missing one counts as 0.
LEMMA NumberType ==
    ASSUME NEW lines \in Seq(Line), NEW i \in 1..4, ~IsNote(lines, i)
    PROVE  Number(lines, i) \in Nat
<1>1. CASE i <= Len(lines)
  <2>1. lines[Len(lines) + 1 - i] \in Line
      BY <1>1
  <2> QED
      BY <1>1, <2>1 DEF IsNote, Number, Line, Contacts
<1>2. CASE i > Len(lines)
    BY <1>2 DEF Number
<1> QED
    BY <1>1, <1>2

\* mm is a number, and never below the number of the last line.
LEMMA HighestBounds ==
    ASSUME NEW lines \in Seq(Line), NEW num \in Nat \ {0}
    PROVE  /\ HighestOf(lines, num) \in Nat
           /\ IsNote(lines, 1) => HighestOf(lines, num) >= num - 1
           /\ ~IsNote(lines, 1) => HighestOf(lines, num) >= Number(lines, 1)
<1> DEFINE last == IF IsNote(lines, 1) THEN num - 1 ELSE Number(lines, 1)
           N(i) == IF IsNote(lines, i) THEN 0 ELSE Number(lines, i)
           S    == {last} \cup {Number(lines, i) : i \in {j \in 2..4 : ~IsNote(lines, j)}}
<1>1. last \in Nat
    BY NumberType
<1>2. N(2) \in Nat /\ N(3) \in Nat /\ N(4) \in Nat
    BY NumberType
<1>3. S \subseteq {last, N(2), N(3), N(4)} /\ last \in S
    OBVIOUS
<1>4. Max(S) \in Nat /\ Max(S) >= last
  <2> HIDE DEF last, N, S
  <2> QED
      BY <1>1, <1>2, <1>3, MaxOfFour
<1> QED
    BY <1>4 DEF HighestOf

\* The next number is at least the one on offer or above all heard of, and a
\* number is not forgotten.
LEMMA NextSerialBounds ==
    ASSUME NEW lines \in Seq(Line), NEW num \in Nat \ {0}, NEW high \in Nat, NEW origin
    PROVE  LET next == NextSerial(lines, num, high, origin)
           IN  /\ next.qsonum \in Nat \ {0} /\ next.high \in Nat
               /\ next.high >= high
               /\ setup.lan => next.qsonum >= num \/ next.qsonum > high
<1> DEFINE mm  == HighestOf(lines, num)
           str == HighestStr(lines, num)
           top == Max({str, high})
<1>1. mm \in Nat /\ (IsNote(lines, 1) => mm >= num - 1)
    BY HighestBounds
<1>2. str \in Nat
    BY <1>1 DEF HighestStr
<1>3. top \in Nat /\ top >= str /\ top >= high
  <2> HIDE DEF str
  <2> QED
      BY <1>2, MaxOfTwo
<1> HIDE DEF mm, str, top
<1> QED
    BY <1>1, <1>2, <1>3, SMTT(25) DEF NextSerial, mm, str, top

\* After a QSO of this node, both are above the number it was logged with.
LEMMA OwnSerialBounds ==
    ASSUME NEW lines \in Seq(Line), NEW num \in Nat \ {0}, NEW high \in Nat, setup.lan,
           lines # <<>>, lines[Len(lines)] # Note, lines[Len(lines)].nr = num
    PROVE  LET next == NextSerial(lines, num, high, "own")
           IN  next.qsonum > num /\ next.high >= num
<1> DEFINE str == HighestStr(lines, num)
           top == Max({str, high})
<1>1. ~IsNote(lines, 1) /\ Number(lines, 1) = num
    BY DEF IsNote, Number
<1>2. str \in Nat /\ str >= num
    BY <1>1, HighestBounds DEF HighestStr
<1>3. top \in Nat /\ top >= str
  <2> HIDE DEF str
  <2> QED
      BY <1>2, MaxOfTwo
<1> HIDE DEF str, top
<1> QED
    BY <1>1, <1>2, <1>3 DEF NextSerial, str, top

-----------------------------------------------------------------------------
(* Packets and log lines.                                                  *)

\* What a packet of each kind carries.
LEMMA MessageType ==
    ASSUME NEW msg \in Message
    PROVE  /\ msg.from \in Ids /\ msg.kind \in {"LOGENTRY", "INCQSONUM", "CLUSTERMSG"}
           /\ msg.kind = "LOGENTRY" => msg.entry \in Contacts
           /\ msg.kind = "INCQSONUM" => msg.nr \in Nat
BY DEF Message

\* A QSO is no note.
LEMMA ContactType ==
    ASSUME NEW q \in Contacts
    PROVE  q \in Line /\ q # Note /\ q.node \in Nodes /\ q.id \in Nat /\ q.nr \in Nat
BY DEF Contacts, Line, Note

\* lan_send() puts at most the packet behind those on their way from n.
LEMMA SentChan ==
    ASSUME TypeOK, NEW n \in Nodes, NEW msg \in Message
    PROVE  /\ Sent(n, msg) \in [Nodes -> [Nodes -> Seq(Message)]]
           /\ \A k, m \in Nodes :
                  \/ Sent(n, msg)[k][m] = chan[k][m]
                  \/ k = n /\ Sent(n, msg)[k][m] = Append(chan[k][m], msg)
<1>1. CASE ~setup.lan
    BY <1>1 DEF Sent, TypeOK
<1>2. CASE setup.lan
  <2> DEFINE row == [m \in Nodes |-> IF m \in Peers[n] \cap up
                                     THEN Append(chan[n][m], msg) ELSE chan[n][m]]
  <2>1. Sent(n, msg) = [chan EXCEPT ![n] = row]
      BY <1>2 DEF Sent, TypeOK
  <2>2. row \in [Nodes -> Seq(Message)]
      BY DEF TypeOK
  <2>3. \A m \in Nodes : row[m] = chan[n][m] \/ row[m] = Append(chan[n][m], msg)
      OBVIOUS
  <2> HIDE DEF row
  <2> QED
      BY <2>1, <2>2, <2>3 DEF TypeOK
<1> QED
    BY <1>1, <1>2

\* Receiving or losing a packet takes the first one.
LEMMA TailChan ==
    ASSUME TypeOK, NEW n \in Nodes, NEW m \in Nodes, chan[m][n] # <<>>,
           chan' = [chan EXCEPT ![m][n] = Tail(@)]
    PROVE  /\ chan' \in [Nodes -> [Nodes -> Seq(Message)]]
           /\ Head(chan[m][n]) \in Message
           /\ chan'[m][n] = Tail(chan[m][n])
           /\ \A k, l \in Nodes : <<k, l>> # <<m, n>> => chan'[k][l] = chan[k][l]
<1>1. Tail(chan[m][n]) \in Seq(Message) /\ Head(chan[m][n]) \in Message
    BY DEF TypeOK
<1> QED
    BY <1>1 DEF TypeOK

\* The rest of a queue.
LEMMA TailAt ==
    ASSUME NEW S, NEW s \in Seq(S), s # <<>>, NEW i \in DOMAIN Tail(s)
    PROVE  i + 1 \in DOMAIN s /\ Tail(s)[i] = s[i + 1]
OBVIOUS

\* The lines scroll_log() is called with.
LEMMA AppendLine ==
    ASSUME NEW lines \in Seq(Line), NEW line \in Line
    PROVE  /\ Append(lines, line) \in Seq(Line) /\ Append(lines, line) # <<>>
           /\ Append(lines, line)[Len(Append(lines, line))] = line
           /\ DOMAIN Append(lines, line) = DOMAIN lines \cup {Len(lines) + 1}
           /\ \A i \in DOMAIN lines : Append(lines, line)[i] = lines[i]
           /\ Append(lines, line)[Len(lines) + 1] = line
OBVIOUS

LEMMA FrontLines ==
    ASSUME NEW lines \in Seq(Line), lines # <<>>
    PROVE  /\ Front(lines) \in Seq(Line)
           /\ DOMAIN Front(lines) \subseteq DOMAIN lines
           /\ \A i \in DOMAIN Front(lines) : Front(lines)[i] = lines[i]
BY DEF Front

\* scroll_log() leaves a log and a number on offer.
LEMMA ScrollType ==
    ASSUME TypeOK, NEW n \in Nodes, NEW lines \in Seq(Line), NEW origin,
           ScrollLog(n, lines, qsonum[n], highqsonr[n], origin)
    PROVE  /\ log' \in [Nodes -> Seq(Line)]
           /\ qsonum' \in [Nodes -> Nat \ {0}] /\ highqsonr' \in [Nodes -> Nat]
<1>1. qsonum[n] \in Nat \ {0} /\ highqsonr[n] \in Nat
    BY DEF TypeOK
<1> DEFINE next == NextSerial(lines, qsonum[n], highqsonr[n], origin)
<1>2. next.qsonum \in Nat \ {0} /\ next.high \in Nat
    BY <1>1, NextSerialBounds
<1>3. /\ log' = [log EXCEPT ![n] = lines]
      /\ qsonum' = [qsonum EXCEPT ![n] = next.qsonum]
      /\ highqsonr' = [highqsonr EXCEPT ![n] = next.high]
    BY DEF ScrollLog
<1> HIDE DEF next
<1> QED
    BY <1>2, <1>3 DEF TypeOK

-----------------------------------------------------------------------------
(* Types.                                                                  *)

LEMMA InitType == Init => TypeOK
BY LanAssumption DEF Init, TypeOK

\* Every handler and every operation leaves state of the right kind.
LEMMA TypeStep ==
    ASSUME TypeOK, Next
    PROVE  TypeOK'
<1>1. ASSUME NEW n \in Nodes, NEW m \in Nodes, Receive(n, m)
      PROVE  TypeOK'
    BY <1>1, TailChan DEF Receive, TypeOK
<1>2. ASSUME NEW n \in Nodes, NEW m \in Nodes, Lose(n, m)
      PROVE  TypeOK'
    BY <1>2, TailChan DEF Lose, TypeOK, local
<1>3. ASSUME NEW n \in Nodes, HandleLogEntry(n)
      PROVE  TypeOK'
  <2>1. slot[n] \in Message /\ slot[n].entry \in Line
      BY <1>3, MessageType, ContactType DEF HandleLogEntry, Handles, TypeOK
  <2>2. Append(log[n], slot[n].entry) \in Seq(Line)
      BY <2>1 DEF TypeOK
  <2> QED
      BY <1>3, <2>2, ScrollType DEF HandleLogEntry, ClearSlot, TypeOK
<1>4. ASSUME NEW n \in Nodes, HandleIncQsoNum(n)
      PROVE  TypeOK'
  <2>1. slot[n] \in Message /\ slot[n].nr \in Nat
      BY <1>4, MessageType DEF HandleIncQsoNum, Handles, TypeOK
  <2>2. Max({highqsonr[n], slot[n].nr}) \in Nat
      BY <2>1, MaxOfTwo DEF TypeOK
  <2> QED
      BY <1>4, <2>1, <2>2 DEF HandleIncQsoNum, ClearSlot, TypeOK
<1>5. ASSUME NEW n \in Nodes, HandleClusterMsg(n)
      PROVE  TypeOK'
  <2>1. slot[n] \in Message /\ slot[n].feeder \in Nodes
      BY <1>5 DEF HandleClusterMsg, Handles, TypeOK, Message
  <2>2. [from |-> ThisNode[n], kind |-> "CLUSTERMSG", feeder |-> slot[n].feeder] \in Message
      BY <2>1, LanAssumption DEF Message
  <2> QED
      BY <1>5, <2>2, SentChan DEF HandleClusterMsg, ClearSlot, TypeOK
<1>6. ASSUME NEW n \in Nodes, SendNumber(n)
      PROVE  TypeOK'
  <2>1. [from |-> ThisNode[n], kind |-> "INCQSONUM", nr |-> qsonum[n]] \in Message
      BY LanAssumption DEF Message, TypeOK
  <2> QED
      BY <1>6, <2>1, SentChan DEF SendNumber, TypeOK
<1>7. ASSUME NEW n \in Nodes, Abandon(n)
      PROVE  TypeOK'
    BY <1>7 DEF Abandon, TypeOK
<1>8. ASSUME NEW n \in Nodes, LogQso(n)
      PROVE  TypeOK'
  <2> DEFINE entry == [kind |-> "qso", node |-> n, id |-> made + 1, nr |-> qsonum[n]]
  <2>1. entry \in Contacts
      BY DEF Contacts, TypeOK
  <2>2. [from |-> ThisNode[n], kind |-> "LOGENTRY", entry |-> entry] \in Message
      BY <2>1, LanAssumption DEF Message
  <2>3. Append(log[n], entry) \in Seq(Line)
      BY <2>1, ContactType, AppendLine DEF TypeOK
  <2>4. /\ ScrollLog(n, Append(log[n], entry), qsonum[n], highqsonr[n], "own")
        /\ chan' = Sent(n, [from |-> ThisNode[n], kind |-> "LOGENTRY", entry |-> entry])
      BY <1>8 DEF LogQso
  <2> HIDE DEF entry
  <2>5. /\ log' \in [Nodes -> Seq(Line)] /\ qsonum' \in [Nodes -> Nat \ {0}]
        /\ highqsonr' \in [Nodes -> Nat]
      BY <2>3, <2>4, ScrollType
  <2>6. chan' \in [Nodes -> [Nodes -> Seq(Message)]]
      BY <2>2, <2>4, SentChan
  <2>7. made' = made + 1 /\ sent' \in [Nodes -> Nat] /\ taken' \in [Nodes -> SUBSET Nat]
        /\ UNCHANGED <<setup, up, inhibit, slot>>
      BY <1>8 DEF LogQso, TypeOK
  <2>8. setup' \in Setup /\ up' \subseteq Nodes /\ made' \in Nat
        /\ inhibit' \in [Nodes -> BOOLEAN] /\ slot' \in [Nodes -> Message \cup {Empty}]
      BY <2>7 DEF TypeOK
  <2> QED
      BY <2>5, <2>6, <2>7, <2>8 DEF TypeOK
<1>9. ASSUME NEW n \in Nodes, IncludeNote(n)
      PROVE  TypeOK'
  <2>1. Append(log[n], Note) \in Seq(Line)
      BY AppendLine DEF TypeOK, Line
  <2> QED
      BY <1>9, <2>1, ScrollType DEF IncludeNote, TypeOK
<1>10. ASSUME NEW n \in Nodes, DeleteQso(n)
       PROVE  TypeOK'
  <2>1. Front(log[n]) \in Seq(Line)
      BY <1>10, FrontLines DEF DeleteQso, TypeOK
  <2> QED
      BY <1>10, <2>1, ScrollType DEF DeleteQso, TypeOK
<1>11. ASSUME NEW n \in Nodes, ClusterLine(n)
       PROVE  TypeOK'
  <2>1. [from |-> ThisNode[n], kind |-> "CLUSTERMSG", feeder |-> n] \in Message
      BY LanAssumption DEF Message
  <2> QED
      BY <1>11, <2>1, SentChan DEF ClusterLine, TypeOK, local
<1>12. ASSUME NEW n \in Nodes, Crash(n)
       PROVE  TypeOK'
  <2>1. chan' \in [Nodes -> [Nodes -> Seq(Message)]]
      BY <1>12 DEF Crash, TypeOK
  <2> QED
      BY <1>12, <2>1 DEF Crash, TypeOK
<1>13. ASSUME NEW n \in Nodes, Restart(n)
       PROVE  TypeOK'
  <2>1. log[n] \in Seq(Line)
      BY DEF TypeOK
  <2> QED
      BY <1>13, <2>1, ScrollType DEF Restart, TypeOK
<1> QED
    BY <1>1, <1>2, <1>3, <1>4, <1>5, <1>6, <1>7, <1>8, <1>9, <1>10, <1>11, <1>12, <1>13
       DEF Next

-----------------------------------------------------------------------------
(* Cluster lines.                                                          *)

\* Other packets, and the lines of the node's own cluster, are no echo.
LEMMA SentNoEcho ==
    ASSUME TypeOK, EchoFree, NEW n \in Nodes, NEW msg \in Message,
           msg.kind = "CLUSTERMSG" => msg.feeder = n, chan' = Sent(n, msg)
    PROVE  EchoFree'
<1> SUFFICES ASSUME NEW k \in Nodes, NEW m \in Nodes, NEW i \in DOMAIN chan'[k][m],
                    chan'[k][m][i].kind = "CLUSTERMSG"
             PROVE  chan'[k][m][i].feeder = k
    BY DEF EchoFree
<1>1. chan[k][m] \in Seq(Message)
    BY DEF TypeOK
<1>2. CASE chan'[k][m] = chan[k][m]
    BY <1>2 DEF EchoFree
<1>3. CASE k = n /\ chan'[k][m] = Append(chan[k][m], msg)
    BY <1>1, <1>3 DEF EchoFree
<1> QED
    BY <1>2, <1>3, SentChan

\* Nor is one packet less.
LEMMA TailNoEcho ==
    ASSUME TypeOK, EchoFree, NEW n \in Nodes, NEW m \in Nodes, chan[m][n] # <<>>,
           chan' = [chan EXCEPT ![m][n] = Tail(@)]
    PROVE  EchoFree'
<1> SUFFICES ASSUME NEW k \in Nodes, NEW l \in Nodes, NEW i \in DOMAIN chan'[k][l],
                    chan'[k][l][i].kind = "CLUSTERMSG"
             PROVE  chan'[k][l][i].feeder = k
    BY DEF EchoFree
<1>1. chan[k][l] \in Seq(Message)
    BY DEF TypeOK
<1>2. CASE <<k, l>> # <<m, n>>
    BY <1>2, TailChan DEF EchoFree
<1>3. CASE k = m /\ l = n
  <2>1. i + 1 \in DOMAIN chan[k][l] /\ chan'[k][l][i] = chan[k][l][i + 1]
    <3>1. chan'[k][l] = Tail(chan[k][l]) /\ chan[k][l] # <<>>
        BY <1>3, TailChan
    <3> QED
        BY <1>1, <3>1, TailAt
  <2> QED
      BY <2>1 DEF EchoFree
<1> QED
    BY <1>2, <1>3

\* Nor does a handled packet wait any more.
LEMMA ClearedNoEcho ==
    ASSUME TypeOK, EchoInv, NEW n \in Nodes, UNCHANGED chan,
           slot' = [slot EXCEPT ![n] = Empty],
           \A m \in Nodes : m # n => inhibit'[m] = inhibit[m]
    PROVE  EchoInv'
<1>1. \A m \in Nodes : slot'[m] = IF m = n THEN Empty ELSE slot[m]
    BY DEF TypeOK
<1>2. EchoFree'
    BY DEF EchoInv, EchoFree
<1>3. ASSUME NEW m \in Nodes, slot'[m] # Empty, slot'[m].kind = "CLUSTERMSG"
      PROVE  inhibit'[m]
    BY <1>1, <1>3 DEF EchoInv
<1> QED
    BY <1>2, <1>3 DEF EchoInv

\* A node that has received a cluster line passes none on, and forgets neither
\* while the line waits: only a crash lifts cl_send_inhibit, and it empties the
\* slot, too.
LEMMA EchoStep ==
    ASSUME TypeOK, EchoInv, Next
    PROVE  EchoInv'
<1> USE DEF EchoInv
<1>1. ASSUME NEW n \in Nodes, NEW m \in Nodes, Receive(n, m)
      PROVE  EchoInv'
    BY <1>1, TailNoEcho DEF Receive, TypeOK
<1>2. ASSUME NEW n \in Nodes, NEW m \in Nodes, Lose(n, m)
      PROVE  EchoInv'
    BY <1>2, TailNoEcho DEF Lose, local
<1>3. ASSUME NEW n \in Nodes, HandleLogEntry(n)
      PROVE  EchoInv'
    BY <1>3, ClearedNoEcho DEF HandleLogEntry, ClearSlot
<1>4. ASSUME NEW n \in Nodes, HandleIncQsoNum(n)
      PROVE  EchoInv'
    BY <1>4, ClearedNoEcho DEF HandleIncQsoNum, ClearSlot
<1>5. ASSUME NEW n \in Nodes, HandleClusterMsg(n)
      PROVE  EchoInv'
  <2>1. inhibit[n]
      BY <1>5 DEF HandleClusterMsg, Handles
  <2> QED
      BY <1>5, <2>1, ClearedNoEcho DEF HandleClusterMsg, ClearSlot
<1>6. ASSUME NEW n \in Nodes, SendNumber(n)
      PROVE  EchoInv'
  <2>1. [from |-> ThisNode[n], kind |-> "INCQSONUM", nr |-> qsonum[n]] \in Message
      BY LanAssumption DEF Message, TypeOK
  <2> QED
      BY <1>6, <2>1, SentNoEcho DEF SendNumber
<1>7. ASSUME NEW n \in Nodes, Abandon(n)
      PROVE  EchoInv'
    BY <1>7 DEF Abandon, EchoFree
<1>8. ASSUME NEW n \in Nodes, LogQso(n)
      PROVE  EchoInv'
  <2> DEFINE entry == [kind |-> "qso", node |-> n, id |-> made + 1, nr |-> qsonum[n]]
             msg   == [from |-> ThisNode[n], kind |-> "LOGENTRY", entry |-> entry]
  <2>1. entry \in Contacts
      BY DEF Contacts, TypeOK
  <2>2. msg \in Message /\ msg.kind = "LOGENTRY"
      BY <2>1, LanAssumption DEF Message
  <2>3. chan' = Sent(n, msg) /\ UNCHANGED <<inhibit, slot>>
      BY <1>8 DEF LogQso
  <2> HIDE DEF msg
  <2> QED
      BY <2>2, <2>3, SentNoEcho
<1>9. ASSUME NEW n \in Nodes, IncludeNote(n) \/ DeleteQso(n) \/ Restart(n)
      PROVE  EchoInv'
    BY <1>9 DEF IncludeNote, DeleteQso, Restart, EchoFree
<1>10. ASSUME NEW n \in Nodes, ClusterLine(n)
       PROVE  EchoInv'
  <2>1. [from |-> ThisNode[n], kind |-> "CLUSTERMSG", feeder |-> n] \in Message
      BY LanAssumption DEF Message
  <2> QED
      BY <1>10, <2>1, SentNoEcho DEF ClusterLine, local
<1>11. ASSUME NEW n \in Nodes, Crash(n)
       PROVE  EchoInv'
  <2>1. \A k, m \in Nodes : chan'[k][m] = IF m = n THEN <<>> ELSE chan[k][m]
      BY <1>11 DEF Crash, TypeOK
  <2>2. EchoFree'
      BY <2>1 DEF EchoFree
  <2>3. ASSUME NEW m \in Nodes, slot'[m] # Empty, slot'[m].kind = "CLUSTERMSG"
        PROVE  inhibit'[m]
    <3>1. m # n
        BY <1>11, <2>3 DEF Crash, TypeOK
    <3>2. slot'[m] = slot[m] /\ inhibit'[m] = inhibit[m]
        BY <1>11, <3>1 DEF Crash, TypeOK
    <3> QED
        BY <2>3, <3>2
  <2> QED
      BY <2>2, <2>3
<1> QED
    BY <1>1, <1>2, <1>3, <1>4, <1>5, <1>6, <1>7, <1>8, <1>9, <1>10, <1>11 DEF Next

-----------------------------------------------------------------------------
(* Serial numbers of a node.                                               *)

\* scroll_log() never lowers the offer under a number taken.
LEMMA ScrollSerial ==
    ASSUME TypeOK, SerialInv, NEW n \in Nodes, NEW lines \in Seq(Line), NEW origin,
           ScrollLog(n, lines, qsonum[n], highqsonr[n], origin), UNCHANGED <<setup, taken>>
    PROVE  SerialInv'
<1> SUFFICES ASSUME setup.lan, NEW m \in Nodes, NEW nr \in taken[m]
             PROVE  nr < qsonum'[m] /\ nr <= highqsonr'[m]
    BY DEF SerialInv
<1> DEFINE next == NextSerial(lines, qsonum[n], highqsonr[n], origin)
<1>1. nr \in Nat /\ qsonum[m] \in Nat \ {0} /\ highqsonr[m] \in Nat
    BY DEF TypeOK
<1>2. nr < qsonum[m] /\ nr <= highqsonr[m]
    BY DEF SerialInv
<1>3. /\ qsonum' = [qsonum EXCEPT ![n] = next.qsonum]
      /\ highqsonr' = [highqsonr EXCEPT ![n] = next.high]
    BY DEF ScrollLog
<1>4. CASE m = n
  <2>1. /\ next.qsonum \in Nat \ {0} /\ next.high \in Nat /\ next.high >= highqsonr[n]
        /\ next.qsonum >= qsonum[n] \/ next.qsonum > highqsonr[n]
      BY <1>1, <1>4, NextSerialBounds
  <2> HIDE DEF next
  <2>2. qsonum'[n] = next.qsonum /\ highqsonr'[n] = next.high
      BY <1>3 DEF TypeOK
  <2> QED
      BY <1>1, <1>2, <1>4, <2>1, <2>2
<1>5. CASE m # n
  <2> HIDE DEF next
  <2> QED
      BY <1>2, <1>3, <1>5 DEF TypeOK
<1> QED
    BY <1>4, <1>5

\* A number heard of moves the offer past it; a number used is passed by the
\* next one; and nothing moves the offer back but a new start, which forgets.
LEMMA SerialStep ==
    ASSUME TypeOK, SerialInv, Next
    PROVE  SerialInv'
<1>1. ASSUME NEW n \in Nodes, NEW m \in Nodes, Receive(n, m) \/ Lose(n, m)
      PROVE  SerialInv'
    BY <1>1 DEF Receive, Lose, local, SerialInv
<1>2. ASSUME NEW n \in Nodes, HandleLogEntry(n)
      PROVE  SerialInv'
  <2>1. slot[n] \in Message /\ slot[n].entry \in Line
      BY <1>2, MessageType, ContactType DEF HandleLogEntry, Handles, TypeOK
  <2>2. Append(log[n], slot[n].entry) \in Seq(Line)
      BY <2>1 DEF TypeOK
  <2> QED
      BY <1>2, <2>2, ScrollSerial DEF HandleLogEntry
<1>3. ASSUME NEW n \in Nodes, HandleIncQsoNum(n)
      PROVE  SerialInv'
  <2> DEFINE high == Max({highqsonr[n], slot[n].nr})
  <2>1. slot[n].nr \in Nat
      BY <1>3, MessageType DEF HandleIncQsoNum, Handles, TypeOK
  <2>2. high \in Nat /\ high >= highqsonr[n] /\ high >= slot[n].nr
      BY <2>1, MaxOfTwo DEF TypeOK
  <2>3. /\ highqsonr' = [highqsonr EXCEPT ![n] = high]
        /\ qsonum' = [qsonum EXCEPT ![n] = IF @ <= slot[n].nr /\ slot[n].nr > 0
                                           THEN high + 1 ELSE @]
        /\ taken' = [taken EXCEPT ![n] = @ \cup {slot[n].nr}] /\ setup' = setup
      BY <1>3 DEF HandleIncQsoNum
  <2> HIDE DEF high
  <2> SUFFICES ASSUME setup.lan, NEW m \in Nodes, NEW nr \in taken'[m]
               PROVE  nr < qsonum'[m] /\ nr <= highqsonr'[m]
      BY <2>3 DEF SerialInv
  <2>4. qsonum[m] \in Nat \ {0} /\ highqsonr[m] \in Nat /\ taken[m] \subseteq Nat
      BY DEF TypeOK
  <2>5. \A x \in taken[m] : x < qsonum[m] /\ x <= highqsonr[m]
      BY DEF SerialInv
  <2>6. CASE m = n
    <3>1. /\ highqsonr'[n] = high /\ taken'[n] = taken[n] \cup {slot[n].nr}
          /\ qsonum'[n] = IF qsonum[n] <= slot[n].nr /\ slot[n].nr > 0
                          THEN high + 1 ELSE qsonum[n]
        BY <2>3 DEF TypeOK
    <3> QED
        BY <2>1, <2>2, <2>4, <2>5, <2>6, <3>1
  <2>7. CASE m # n
      BY <2>3, <2>5, <2>7 DEF TypeOK
  <2> QED
      BY <2>6, <2>7
<1>4. ASSUME NEW n \in Nodes, HandleClusterMsg(n) \/ SendNumber(n) \/ Abandon(n) \/ ClusterLine(n)
      PROVE  SerialInv'
    BY <1>4 DEF HandleClusterMsg, SendNumber, Abandon, ClusterLine, local, SerialInv
<1>5. ASSUME NEW n \in Nodes, LogQso(n)
      PROVE  SerialInv'
  <2> DEFINE entry == [kind |-> "qso", node |-> n, id |-> made + 1, nr |-> qsonum[n]]
             lines == Append(log[n], entry)
             next  == NextSerial(lines, qsonum[n], highqsonr[n], "own")
  <2>1. entry \in Contacts /\ entry.nr = qsonum[n]
      BY DEF Contacts, TypeOK
  <2>2. /\ qsonum' = [qsonum EXCEPT ![n] = next.qsonum]
        /\ highqsonr' = [highqsonr EXCEPT ![n] = next.high]
        /\ taken' = [taken EXCEPT ![n] = @ \cup {qsonum[n]}] /\ setup' = setup
      BY <1>5 DEF LogQso, ScrollLog
  <2> HIDE DEF entry
  <2>3. lines \in Seq(Line) /\ lines # <<>> /\ lines[Len(lines)] = entry
      BY <2>1, ContactType, AppendLine DEF TypeOK
  <2> SUFFICES ASSUME setup.lan, NEW m \in Nodes, NEW nr \in taken'[m]
               PROVE  nr < qsonum'[m] /\ nr <= highqsonr'[m]
      BY <2>2 DEF SerialInv
  <2>4. qsonum[m] \in Nat \ {0} /\ highqsonr[m] \in Nat /\ taken[m] \subseteq Nat
      BY DEF TypeOK
  <2>5. \A x \in taken[m] : x < qsonum[m] /\ x <= highqsonr[m]
      BY DEF SerialInv
  <2>6. CASE m = n
    <3> HIDE DEF lines
    <3>1. /\ next.qsonum \in Nat \ {0} /\ next.high \in Nat /\ next.high >= highqsonr[n]
          /\ next.qsonum > qsonum[n] /\ next.high >= qsonum[n]
        BY <2>1, <2>3, <2>4, <2>6, ContactType, NextSerialBounds, OwnSerialBounds
    <3> HIDE DEF next
    <3>2. /\ qsonum'[n] = next.qsonum /\ highqsonr'[n] = next.high
          /\ taken'[n] = taken[n] \cup {qsonum[n]}
        BY <2>2 DEF TypeOK
    <3> QED
        BY <2>4, <2>5, <2>6, <3>1, <3>2
  <2>7. CASE m # n
    <3> HIDE DEF next
    <3> QED
        BY <2>2, <2>5, <2>7 DEF TypeOK
  <2> QED
      BY <2>6, <2>7
<1>6. ASSUME NEW n \in Nodes, IncludeNote(n)
      PROVE  SerialInv'
  <2>1. Append(log[n], Note) \in Seq(Line)
      BY AppendLine DEF TypeOK, Line
  <2> QED
      BY <1>6, <2>1, ScrollSerial DEF IncludeNote
<1>7. ASSUME NEW n \in Nodes, DeleteQso(n)
      PROVE  SerialInv'
  <2>1. Front(log[n]) \in Seq(Line)
      BY <1>7, FrontLines DEF DeleteQso, TypeOK
  <2> QED
      BY <1>7, <2>1, ScrollSerial DEF DeleteQso
<1>8. ASSUME NEW n \in Nodes, Crash(n)
      PROVE  SerialInv'
    BY <1>8 DEF Crash, TypeOK, SerialInv
<1>9. ASSUME NEW n \in Nodes, Restart(n)
      PROVE  SerialInv'
  <2>1. log[n] \in Seq(Line)
      BY DEF TypeOK
  <2> QED
      BY <1>9, <2>1, ScrollSerial DEF Restart
<1> QED
    BY <1>1, <1>2, <1>3, <1>4, <1>5, <1>6, <1>7, <1>8, <1>9 DEF Next

-----------------------------------------------------------------------------
(* QSOs in one place.                                                      *)

\* Queues that lose packets, slots that are cleared and logs that lose lines
\* leave every QSO in one place.
LEMMA Fewer ==
    ASSUME Made, OnePlace, OnceOnWay', made' = made,
           \A k, m \in Nodes : \A i \in Pending(chan'[k][m]) : \E h \in Pending(chan[k][m]) :
               chan'[k][m][i] = chan[k][m][h],
           \A m \in Nodes : Waiting(slot'[m]) => slot'[m] = slot[m],
           \A m \in Nodes : \A i \in Logged(log'[m]) :
               i \in Logged(log[m]) /\ log'[m][i] = log[m][i]
    PROVE  Made' /\ OnePlace'
<1>1. Made'
    BY DEF Made
<1>2. OnWayNotWaiting'
    BY DEF OnePlace, OnWayNotWaiting
<1>3. OnWayNotLogged'
    BY DEF OnePlace, OnWayNotLogged
<1>4. WaitingNotLogged'
    BY DEF OnePlace, WaitingNotLogged
<1>5. OnceLogged'
    BY DEF OnePlace, OnceLogged
<1> QED
    BY <1>1, <1>2, <1>3, <1>4, <1>5 DEF OnePlace

\* The same when no queue moves.
LEMMA FewerInPlace ==
    ASSUME Made, OnePlace, made' = made,
           \A k, m \in Nodes : \A i \in Pending(chan'[k][m]) :
               i \in Pending(chan[k][m]) /\ chan'[k][m][i] = chan[k][m][i],
           \A m \in Nodes : Waiting(slot'[m]) => slot'[m] = slot[m],
           \A m \in Nodes : \A i \in Logged(log'[m]) :
               i \in Logged(log[m]) /\ log'[m][i] = log[m][i]
    PROVE  Made' /\ OnePlace'
<1>1. OnceOnWay'
    BY DEF OnePlace, OnceOnWay
<1> QED
    BY <1>1, Fewer

\* Packets of other kinds on their way are no QSOs.
LEMMA SentOther ==
    ASSUME TypeOK, NEW n \in Nodes, NEW msg \in Message, msg.kind # "LOGENTRY",
           chan' = Sent(n, msg), NEW k \in Nodes, NEW m \in Nodes,
           NEW i \in Pending(chan'[k][m])
    PROVE  i \in Pending(chan[k][m]) /\ chan'[k][m][i] = chan[k][m][i]
<1>1. chan[k][m] \in Seq(Message)
    BY DEF TypeOK
<1>2. CASE chan'[k][m] = chan[k][m]
    BY <1>2 DEF Pending
<1>3. CASE chan'[k][m] = Append(chan[k][m], msg)
    BY <1>1, <1>3 DEF Pending
<1> QED
    BY <1>2, <1>3, SentChan

\* What is left of a queue when its first packet is taken.
LEMMA TailPending ==
    ASSUME NEW queue \in Seq(Message), queue # <<>>, NEW i \in Pending(Tail(queue))
    PROVE  i \in Nat \ {0} /\ i + 1 \in Pending(queue) /\ Tail(queue)[i] = queue[i + 1]
<1>1. i \in DOMAIN Tail(queue)
    BY DEF Pending
<1>2. i \in Nat \ {0}
    BY <1>1
<1> QED
    BY <1>1, <1>2, TailAt DEF Pending

\* QSOs stay distinct when the first packet of a queue is taken.
LEMMA TailOnce ==
    ASSUME TypeOK, OnceOnWay, NEW n \in Nodes, NEW m \in Nodes, chan[m][n] # <<>>,
           chan' = [chan EXCEPT ![m][n] = Tail(@)]
    PROVE  /\ OnceOnWay'
           /\ \A k, l \in Nodes : \A i \in Pending(chan'[k][l]) :
                  \E h \in Pending(chan[k][l]) : chan'[k][l][i] = chan[k][l][h]
<1>1. chan[m][n] \in Seq(Message) /\ chan'[m][n] = Tail(chan[m][n])
      /\ \A k, l \in Nodes : <<k, l>> # <<m, n>> => chan'[k][l] = chan[k][l]
    BY TailChan DEF TypeOK
<1>2. ASSUME NEW k \in Nodes, NEW l \in Nodes, NEW i \in Pending(chan'[k][l])
      PROVE  \E h \in Pending(chan[k][l]) : chan'[k][l][i] = chan[k][l][h]
  <2>1. CASE <<k, l>> = <<m, n>>
    <3>1. k = m /\ l = n
        BY <2>1
    <3>2. i \in Pending(Tail(chan[m][n]))
        BY <1>1, <1>2, <3>1
    <3>3. i + 1 \in Pending(chan[m][n]) /\ Tail(chan[m][n])[i] = chan[m][n][i + 1]
        BY <1>1, <3>2, TailPending
    <3> QED
        BY <1>1, <3>1, <3>3
  <2>2. CASE <<k, l>> # <<m, n>>
      BY <1>1, <1>2, <2>2
  <2> QED
      BY <2>1, <2>2
<1>3. ASSUME NEW k \in Nodes, NEW l \in Nodes, NEW i \in Pending(chan'[k][l]),
             NEW j \in Pending(chan'[k][l]), i # j
      PROVE  chan'[k][l][i].entry.id # chan'[k][l][j].entry.id
  <2>1. CASE <<k, l>> = <<m, n>>
    <3>1. k = m /\ l = n
        BY <2>1
    <3>2. i \in Pending(Tail(chan[m][n])) /\ j \in Pending(Tail(chan[m][n]))
        BY <1>1, <1>3, <3>1
    <3>3. /\ i \in Nat /\ i + 1 \in Pending(chan[m][n]) /\ Tail(chan[m][n])[i] = chan[m][n][i + 1]
          /\ j \in Nat /\ j + 1 \in Pending(chan[m][n]) /\ Tail(chan[m][n])[j] = chan[m][n][j + 1]
        BY <1>1, <3>2, TailPending
    <3>4. /\ i \in Nat /\ i + 1 \in Pending(chan[k][l]) /\ chan'[k][l][i] = chan[k][l][i + 1]
          /\ j \in Nat /\ j + 1 \in Pending(chan[k][l]) /\ chan'[k][l][j] = chan[k][l][j + 1]
        BY <1>1, <3>1, <3>3
    <3>5. i + 1 # j + 1
        BY <1>3, <3>4
    <3> QED
        BY <3>4, <3>5 DEF OnceOnWay
  <2>2. CASE <<k, l>> # <<m, n>>
      BY <1>1, <1>3, <2>2 DEF OnceOnWay
  <2> QED
      BY <2>1, <2>2
<1>4. OnceOnWay'
    BY <1>3 DEF OnceOnWay
<1> QED
    BY <1>2, <1>4

\* A received QSO has left its queue, and was not in the log.
LEMMA ReceiveOnce ==
    ASSUME TypeOK, Made, OnePlace, NEW n \in Nodes, NEW m \in Nodes, Receive(n, m)
    PROVE  Made' /\ OnePlace'
<1> DEFINE first == Head(chan[m][n])
<1>1. /\ chan[m][n] # <<>> /\ chan' = [chan EXCEPT ![m][n] = Tail(@)]
      /\ slot' = [slot EXCEPT ![n] = first] /\ UNCHANGED <<log, made>>
    BY DEF Receive
<1>2. chan[m][n] \in Seq(Message) /\ slot'[n] = first
      /\ \A l \in Nodes : l # n => slot'[l] = slot[l]
    BY <1>1 DEF TypeOK
<1>3. first = chan[m][n][1] /\ 1 \in DOMAIN chan[m][n] /\ first \in Message
    BY <1>1, <1>2
<1>4. Waiting(first) => 1 \in Pending(chan[m][n])
    BY <1>3 DEF Waiting, Pending
<1>5. Waiting(first) => first.from = ThisNode[m] /\ first.entry.node = m
                        /\ first.entry.id <= made
    BY <1>3, <1>4 DEF Made
<1>6. /\ OnceOnWay'
      /\ \A k, l \in Nodes : \A i \in Pending(chan'[k][l]) :
             \E h \in Pending(chan[k][l]) : chan'[k][l][i] = chan[k][l][h]
    BY <1>1, TailOnce DEF OnePlace
<1> HIDE DEF first
<1>7. Made'
  <2>1. ASSUME NEW k \in Nodes, NEW l \in Nodes, NEW i \in Pending(chan'[k][l])
        PROVE  /\ chan'[k][l][i].from = ThisNode[k] /\ chan'[k][l][i].entry.node = k
               /\ chan'[k][l][i].entry.id <= made'
    <3>1. PICK h \in Pending(chan[k][l]) : chan'[k][l][i] = chan[k][l][h]
        BY <1>6
    <3>2. /\ chan[k][l][h].from = ThisNode[k] /\ chan[k][l][h].entry.node = k
          /\ chan[k][l][h].entry.id <= made
        BY DEF Made
    <3> QED
        BY <1>1, <3>1, <3>2
  <2>2. ASSUME NEW l \in Nodes, Waiting(slot'[l])
        PROVE  slot'[l].from = ThisNode[slot'[l].entry.node] /\ slot'[l].entry.id <= made'
      BY <1>1, <1>2, <1>5, <2>2 DEF Made
  <2>3. \A l \in Nodes : \A i \in Logged(log'[l]) : log'[l][i].id <= made'
      BY <1>1 DEF Made
  <2> QED
      BY <2>1, <2>2, <2>3 DEF Made
<1>8. OnWayNotWaiting'
  <2> SUFFICES ASSUME NEW k \in Nodes, NEW l \in Nodes, k # l, Waiting(slot'[l]),
                      NEW i \in Pending(chan'[k][l])
               PROVE  ~SameQso(chan'[k][l][i].entry, slot'[l].entry)
      BY DEF OnWayNotWaiting
  <2>1. CASE l # n
      BY <1>2, <1>6, <2>1 DEF OnePlace, OnWayNotWaiting
  <2>2. CASE l = n /\ k # m
    <3>1. chan'[k][l][i].entry.node = k
        BY <1>6 DEF Made
    <3> QED
        BY <1>2, <1>5, <2>2, <3>1 DEF SameQso
  <2>3. CASE l = n /\ k = m
    <3>1. i \in Pending(Tail(chan[m][n])) /\ chan'[k][l] = Tail(chan[m][n])
        BY <1>1, <2>3, TailChan
    <3>2. i \in Nat \ {0} /\ i + 1 \in Pending(chan[m][n])
          /\ Tail(chan[m][n])[i] = chan[m][n][i + 1]
        BY <1>1, <1>2, <3>1, TailPending
    <3>3. i + 1 # 1
        BY <3>2
    <3>4. chan[m][n][i + 1].entry.id # chan[m][n][1].entry.id
        BY <1>2, <1>4, <2>3, <3>2, <3>3 DEF OnePlace, OnceOnWay
    <3> QED
        BY <1>2, <1>3, <2>3, <3>1, <3>2, <3>4 DEF SameQso
  <2> QED
      BY <2>1, <2>2, <2>3
<1>9. OnWayNotLogged'
  <2> SUFFICES ASSUME NEW k \in Nodes, NEW l \in Nodes, k # l,
                      NEW i \in Pending(chan'[k][l]), NEW j \in Logged(log[l])
               PROVE  ~SameQso(chan'[k][l][i].entry, log[l][j])
      BY <1>1 DEF OnWayNotLogged
  <2>1. PICK h \in Pending(chan[k][l]) : chan'[k][l][i] = chan[k][l][h]
      BY <1>6
  <2> QED
      BY <2>1 DEF OnePlace, OnWayNotLogged
<1>10. WaitingNotLogged'
  <2> SUFFICES ASSUME NEW l \in Nodes, Waiting(slot'[l]), slot'[l].entry.node # l,
                      NEW j \in Logged(log[l])
               PROVE  ~SameQso(slot'[l].entry, log[l][j])
      BY <1>1 DEF WaitingNotLogged
  <2>1. CASE l # n
      BY <1>2, <2>1 DEF OnePlace, WaitingNotLogged
  <2>2. CASE l = n
      BY <1>2, <1>3, <1>4, <1>5, <2>2 DEF OnePlace, OnWayNotLogged
  <2> QED
      BY <2>1, <2>2
<1>11. OnceLogged'
    BY <1>1 DEF OnePlace, OnceLogged
<1> QED
    BY <1>6, <1>7, <1>8, <1>9, <1>10, <1>11 DEF OnePlace

\* A handled QSO moves from the slot into the log; it comes from another node,
\* or it would not be handled.
LEMMA HandleOnce ==
    ASSUME TypeOK, Made, OnePlace, NEW n \in Nodes, HandleLogEntry(n)
    PROVE  Made' /\ OnePlace'
<1> DEFINE q == slot[n].entry
<1>1. Waiting(slot[n]) /\ slot[n].from # ThisNode[n] /\ slot[n] \in Message
    BY DEF HandleLogEntry, Handles, Waiting, TypeOK
<1>2. q \in Contacts /\ q.node # n /\ q.id <= made
  <2>1. q \in Contacts
      BY <1>1, MessageType DEF Waiting
  <2>2. slot[n].from = ThisNode[q.node] /\ q.id <= made
      BY <1>1 DEF Made
  <2> QED
      BY <1>1, <2>1, <2>2
<1>3. /\ log' = [log EXCEPT ![n] = Append(log[n], q)]
      /\ slot' = [slot EXCEPT ![n] = Empty] /\ UNCHANGED <<chan, made>>
    BY DEF HandleLogEntry, ScrollLog, ClearSlot
<1>4. \A m \in Nodes : Waiting(slot'[m]) => m # n /\ slot'[m] = slot[m]
    BY <1>3 DEF TypeOK, Waiting
<1>5. ASSUME NEW m \in Nodes, NEW i \in Logged(log'[m])
      PROVE  \/ i \in Logged(log[m]) /\ log'[m][i] = log[m][i]
             \/ m = n /\ i = Len(log[n]) + 1 /\ log'[m][i] = q
  <2>1. CASE m # n
      BY <1>3, <1>5, <2>1 DEF TypeOK
  <2>2. CASE m = n
    <3>1. log'[m] = Append(log[n], q) /\ log[n] \in Seq(Line)
        BY <1>3, <2>2 DEF TypeOK
    <3>2. q \in Line
        BY <1>2, ContactType
    <3> HIDE DEF q
    <3> QED
        BY <1>5, <2>2, <3>1, <3>2, AppendLine DEF Logged
  <2> QED
      BY <2>1, <2>2
<1>6. \A k \in Nodes : k # n => \A i \in Pending(chan[k][n]) : ~SameQso(chan[k][n][i].entry, q)
    BY <1>1 DEF OnePlace, OnWayNotWaiting
<1>7. \A j \in Logged(log[n]) : ~SameQso(q, log[n][j]) /\ ~SameQso(log[n][j], q)
    BY <1>1, <1>2 DEF OnePlace, WaitingNotLogged, SameQso
<1> HIDE DEF q
<1>8. Made'
  <2>1. ASSUME NEW m \in Nodes, NEW i \in Logged(log'[m])
        PROVE  log'[m][i].id <= made'
    <3>1. CASE i \in Logged(log[m]) /\ log'[m][i] = log[m][i]
      <4>1. log[m][i].id <= made
          BY <3>1 DEF Made
      <4> QED
          BY <1>3, <3>1, <4>1
    <3>2. CASE log'[m][i] = q
        BY <1>2, <1>3, <3>2
    <3> QED
        BY <1>5, <2>1, <3>1, <3>2
  <2>2. \A m \in Nodes : Waiting(slot'[m]) =>
            slot'[m].from = ThisNode[slot'[m].entry.node] /\ slot'[m].entry.id <= made'
      BY <1>3, <1>4 DEF Made
  <2>3. ASSUME NEW k \in Nodes, NEW m \in Nodes, NEW i \in Pending(chan'[k][m])
        PROVE  /\ chan'[k][m][i].from = ThisNode[k] /\ chan'[k][m][i].entry.node = k
               /\ chan'[k][m][i].entry.id <= made'
      BY <1>3, <2>3 DEF Made
  <2> QED
      BY <2>1, <2>2, <2>3 DEF Made
<1>9. OnceOnWay'
    BY <1>3 DEF OnePlace, OnceOnWay
<1>10. OnWayNotWaiting'
    BY <1>3, <1>4 DEF OnePlace, OnWayNotWaiting
<1>11. OnWayNotLogged'
  <2> SUFFICES ASSUME NEW k \in Nodes, NEW m \in Nodes, k # m,
                      NEW i \in Pending(chan[k][m]), NEW j \in Logged(log'[m])
               PROVE  ~SameQso(chan[k][m][i].entry, log'[m][j])
      BY <1>3 DEF OnWayNotLogged
  <2>1. CASE j \in Logged(log[m]) /\ log'[m][j] = log[m][j]
      BY <2>1 DEF OnePlace, OnWayNotLogged
  <2>2. CASE m = n /\ log'[m][j] = q
      BY <1>6, <2>2
  <2> QED
      BY <1>5, <2>1, <2>2
<1>12. WaitingNotLogged'
    BY <1>4, <1>5 DEF OnePlace, WaitingNotLogged
<1>13. OnceLogged'
    BY <1>5, <1>7 DEF OnePlace, OnceLogged
<1> QED
    BY <1>8, <1>9, <1>10, <1>11, <1>12, <1>13 DEF OnePlace

\* A new QSO is nowhere yet.
LEMMA LogOnce ==
    ASSUME TypeOK, Made, OnePlace, NEW n \in Nodes, LogQso(n)
    PROVE  Made' /\ OnePlace'
<1> DEFINE q   == [kind |-> "qso", node |-> n, id |-> made + 1, nr |-> qsonum[n]]
           msg == [from |-> ThisNode[n], kind |-> "LOGENTRY", entry |-> q]
<1>1. q \in Contacts /\ q.node = n /\ q.id = made + 1 /\ made \in Nat
    BY DEF Contacts, TypeOK
<1>2. msg \in Message /\ msg.from = ThisNode[n] /\ msg.entry = q
    BY <1>1, LanAssumption DEF Message
<1>3. /\ log' = [log EXCEPT ![n] = Append(log[n], q)]
      /\ chan' = Sent(n, msg) /\ slot' = slot /\ made' = made + 1
    BY DEF LogQso, ScrollLog
<1> HIDE DEF q, msg
<1>4. ASSUME NEW m \in Nodes, NEW i \in Logged(log'[m])
      PROVE  \/ i \in Logged(log[m]) /\ log'[m][i] = log[m][i]
             \/ m = n /\ i = Len(log[n]) + 1 /\ log'[m][i] = q
  <2>1. CASE m # n
      BY <1>3, <1>4, <2>1 DEF TypeOK
  <2>2. CASE m = n
    <3>1. log'[m] = Append(log[n], q) /\ log[n] \in Seq(Line) /\ q \in Line
        BY <1>1, <1>3, <2>2, ContactType DEF TypeOK
    <3> QED
        BY <1>4, <2>2, <3>1, AppendLine DEF Logged
  <2> QED
      BY <2>1, <2>2
<1>5. ASSUME NEW k \in Nodes, NEW m \in Nodes, NEW i \in Pending(chan'[k][m])
      PROVE  \/ i \in Pending(chan[k][m]) /\ chan'[k][m][i] = chan[k][m][i]
             \/ k = n /\ i = Len(chan[k][m]) + 1 /\ chan'[k][m][i] = msg
  <2>1. chan[k][m] \in Seq(Message)
      BY DEF TypeOK
  <2>2. CASE chan'[k][m] = chan[k][m]
      BY <1>5, <2>2
  <2>3. CASE k = n /\ chan'[k][m] = Append(chan[k][m], msg)
      BY <1>2, <1>5, <2>1, <2>3 DEF Pending
  <2> QED
      BY <1>2, <1>3, <2>2, <2>3, SentChan, SMTT(25)
<1>6. \A m \in Nodes : \A i \in Logged(log[m]) : log[m][i].id # made + 1
  <2> SUFFICES ASSUME NEW m \in Nodes, NEW i \in Logged(log[m]), log[m][i].id = made + 1
               PROVE  FALSE
      OBVIOUS
  <2>1. log[m][i].id <= made
      BY DEF Made
  <2> QED
      BY <1>1, <2>1
<1>7. \A k, m \in Nodes : \A i \in Pending(chan[k][m]) : chan[k][m][i].entry.id # made + 1
  <2> SUFFICES ASSUME NEW k \in Nodes, NEW m \in Nodes, NEW i \in Pending(chan[k][m]),
                      chan[k][m][i].entry.id = made + 1
               PROVE  FALSE
      OBVIOUS
  <2>1. chan[k][m][i].entry.id <= made
      BY DEF Made
  <2> QED
      BY <1>1, <2>1
<1>8. \A m \in Nodes : Waiting(slot[m]) => slot[m].entry.id # made + 1
  <2> SUFFICES ASSUME NEW m \in Nodes, Waiting(slot[m]), slot[m].entry.id = made + 1
               PROVE  FALSE
      OBVIOUS
  <2>1. slot[m].entry.id <= made
      BY DEF Made
  <2> QED
      BY <1>1, <2>1
<1>9. Made'
  <2>1. ASSUME NEW m \in Nodes, NEW i \in Logged(log'[m])
        PROVE  log'[m][i].id <= made'
    <3>1. CASE i \in Logged(log[m]) /\ log'[m][i] = log[m][i]
      <4>1. log[m] \in Seq(Line) /\ log[m][i] \in Line /\ log[m][i] # Note
          BY <3>1 DEF TypeOK, Logged
      <4>2. log[m][i].id \in Nat
          BY <4>1 DEF Line, Contacts
      <4>3. log[m][i].id <= made
          BY <3>1 DEF Made
      <4>4. log[m][i].id <= made + 1
          BY <1>1, <4>2, <4>3
      <4> QED
          BY <1>3, <3>1, <4>4
    <3>2. CASE log'[m][i] = q
      <4>1. q.id <= made + 1
          BY <1>1
      <4> QED
          BY <1>3, <3>2, <4>1
    <3> QED
        BY <1>4, <2>1, <3>1, <3>2
  <2>2. ASSUME NEW k \in Nodes, NEW m \in Nodes, NEW i \in Pending(chan'[k][m])
        PROVE  /\ chan'[k][m][i].from = ThisNode[k] /\ chan'[k][m][i].entry.node = k
               /\ chan'[k][m][i].entry.id <= made'
    <3>1. CASE i \in Pending(chan[k][m]) /\ chan'[k][m][i] = chan[k][m][i]
      <4>1. chan[k][m][i] \in Message /\ chan[k][m][i].kind = "LOGENTRY"
        <5>1. chan[k][m] \in Seq(Message)
            BY DEF TypeOK
        <5> QED
            BY <3>1, <5>1 DEF Pending
      <4>2. chan[k][m][i].entry.id \in Nat
          BY <4>1, MessageType, ContactType
      <4>3. /\ chan[k][m][i].from = ThisNode[k] /\ chan[k][m][i].entry.node = k
            /\ chan[k][m][i].entry.id <= made
          BY <3>1 DEF Made
      <4> QED
          BY <1>1, <1>3, <3>1, <4>2, <4>3
    <3>2. CASE k = n /\ chan'[k][m][i] = msg
        BY <1>1, <1>2, <1>3, <3>2
    <3> QED
        BY <1>5, <2>2, <3>1, <3>2
  <2>3. ASSUME NEW m \in Nodes, Waiting(slot'[m])
        PROVE  slot'[m].from = ThisNode[slot'[m].entry.node] /\ slot'[m].entry.id <= made'
    <3>1. slot[m] \in Message /\ slot[m].kind = "LOGENTRY"
        BY <1>3, <2>3 DEF TypeOK, Waiting
    <3>2. slot[m].entry.id \in Nat
        BY <3>1, MessageType, ContactType
    <3>3. slot[m].from = ThisNode[slot[m].entry.node] /\ slot[m].entry.id <= made
        BY <1>3, <2>3 DEF Made
    <3> QED
        BY <1>1, <1>3, <3>2, <3>3
  <2> QED
      BY <2>1, <2>2, <2>3 DEF Made
<1>10. OnceOnWay'
  <2> SUFFICES ASSUME NEW k \in Nodes, NEW m \in Nodes, NEW i \in Pending(chan'[k][m]),
                      NEW j \in Pending(chan'[k][m]), i # j
               PROVE  chan'[k][m][i].entry.id # chan'[k][m][j].entry.id
      BY DEF OnceOnWay
  <2> DEFINE Old(h) == h \in Pending(chan[k][m]) /\ chan'[k][m][h] = chan[k][m][h]
             New(h) == h = Len(chan[k][m]) + 1 /\ chan'[k][m][h] = msg
  <2>1. CASE Old(i) /\ Old(j)
      BY <2>1 DEF OnePlace, OnceOnWay
  <2>2. CASE Old(i) /\ New(j)
      BY <1>1, <1>2, <1>7, <2>2
  <2>3. CASE New(i) /\ Old(j)
      BY <1>1, <1>2, <1>7, <2>3
  <2> QED
      BY <1>5, <2>1, <2>2, <2>3
<1>11. OnWayNotWaiting'
    BY <1>1, <1>2, <1>3, <1>5, <1>8 DEF OnePlace, OnWayNotWaiting, SameQso
<1>12. OnWayNotLogged'
  <2> SUFFICES ASSUME NEW k \in Nodes, NEW m \in Nodes, k # m,
                      NEW i \in Pending(chan'[k][m]), NEW j \in Logged(log'[m])
               PROVE  ~SameQso(chan'[k][m][i].entry, log'[m][j])
      BY DEF OnWayNotLogged
  <2> DEFINE OldP == i \in Pending(chan[k][m]) /\ chan'[k][m][i] = chan[k][m][i]
             NewP == k = n /\ chan'[k][m][i] = msg
             OldL == j \in Logged(log[m]) /\ log'[m][j] = log[m][j]
             NewL == m = n /\ log'[m][j] = q
  <2>1. CASE OldP /\ OldL
      BY <2>1 DEF OnePlace, OnWayNotLogged
  <2>2. CASE OldP /\ NewL
      BY <1>1, <1>7, <2>2 DEF SameQso
  <2>3. CASE NewP /\ OldL
      BY <1>1, <1>2, <1>6, <2>3 DEF SameQso
  <2> QED
      BY <1>4, <1>5, <2>1, <2>2, <2>3
<1>13. WaitingNotLogged'
  <2> SUFFICES ASSUME NEW m \in Nodes, Waiting(slot[m]), slot[m].entry.node # m,
                      NEW j \in Logged(log'[m])
               PROVE  ~SameQso(slot[m].entry, log'[m][j])
      BY <1>3 DEF WaitingNotLogged
  <2>1. CASE j \in Logged(log[m]) /\ log'[m][j] = log[m][j]
      BY <2>1 DEF OnePlace, WaitingNotLogged
  <2>2. CASE log'[m][j] = q
      BY <1>1, <1>8, <2>2 DEF SameQso
  <2> QED
      BY <1>4, <2>1, <2>2
<1>14. OnceLogged'
    BY <1>1, <1>4, <1>6 DEF OnePlace, OnceLogged, SameQso
<1> QED
    BY <1>9, <1>10, <1>11, <1>12, <1>13, <1>14 DEF OnePlace

\* scroll_log() after a note, after the last line was cut off, or at a start,
\* shows no QSO that was not there.
LEMMA ScrollFewer ==
    ASSUME TypeOK, NEW n \in Nodes, NEW lines \in Seq(Line),
           lines \in {Append(log[n], Note), log[n]} \/ (log[n] # <<>> /\ lines = Front(log[n])),
           log' = [log EXCEPT ![n] = lines], NEW m \in Nodes, NEW i \in Logged(log'[m])
    PROVE  i \in Logged(log[m]) /\ log'[m][i] = log[m][i]
<1>1. log[n] \in Seq(Line) /\ Note \in Line
    BY DEF TypeOK, Line
<1>2. CASE m # n
    BY <1>2 DEF TypeOK
<1>3. CASE m = n
  <2>1. log'[m] = lines
      BY <1>3 DEF TypeOK
  <2>2. CASE lines = Append(log[n], Note)
      BY <1>1, <1>3, <2>1, <2>2, AppendLine DEF Logged
  <2>3. CASE lines = log[n]
      BY <1>3, <2>1, <2>3
  <2>4. CASE log[n] # <<>> /\ lines = Front(log[n])
      BY <1>1, <1>3, <2>1, <2>4, FrontLines DEF Logged
  <2> QED
      BY <2>2, <2>3, <2>4
<1> QED
    BY <1>2, <1>3

\* However packets are lost and nodes die, a QSO reaches a log once.
LEMMA OnceStep ==
    ASSUME TypeOK, Made, OnePlace, Next
    PROVE  Made' /\ OnePlace'
<1>1. ASSUME NEW n \in Nodes, NEW m \in Nodes, Receive(n, m)
      PROVE  Made' /\ OnePlace'
    BY <1>1, ReceiveOnce
<1>2. ASSUME NEW n \in Nodes, NEW m \in Nodes, Lose(n, m)
      PROVE  Made' /\ OnePlace'
  <2>1. /\ chan[m][n] # <<>> /\ chan' = [chan EXCEPT ![m][n] = Tail(@)]
        /\ UNCHANGED <<slot, log, made>>
      BY <1>2 DEF Lose, local
  <2>2. /\ OnceOnWay'
        /\ \A k, l \in Nodes : \A i \in Pending(chan'[k][l]) :
               \E h \in Pending(chan[k][l]) : chan'[k][l][i] = chan[k][l][h]
      BY <2>1, TailOnce DEF OnePlace
  <2> QED
      BY <2>1, <2>2, Fewer
<1>3. ASSUME NEW n \in Nodes, HandleLogEntry(n)
      PROVE  Made' /\ OnePlace'
    BY <1>3, HandleOnce
<1>4. ASSUME NEW n \in Nodes, HandleIncQsoNum(n)
      PROVE  Made' /\ OnePlace'
  <2>1. slot' = [slot EXCEPT ![n] = Empty] /\ UNCHANGED <<chan, log, made>>
      BY <1>4 DEF HandleIncQsoNum, ClearSlot
  <2>2. \A m \in Nodes : Waiting(slot'[m]) => slot'[m] = slot[m]
      BY <2>1 DEF TypeOK, Waiting
  <2> QED
      BY <2>1, <2>2, FewerInPlace
<1>5. ASSUME NEW n \in Nodes, HandleClusterMsg(n)
      PROVE  Made' /\ OnePlace'
  <2> DEFINE msg == [from |-> ThisNode[n], kind |-> "CLUSTERMSG", feeder |-> slot[n].feeder]
  <2>1. slot' = [slot EXCEPT ![n] = Empty] /\ UNCHANGED <<log, made>>
        /\ (chan' = chan \/ chan' = Sent(n, msg))
      BY <1>5 DEF HandleClusterMsg, ClearSlot
  <2>2. \A m \in Nodes : Waiting(slot'[m]) => slot'[m] = slot[m]
      BY <2>1 DEF TypeOK, Waiting
  <2>3. msg \in Message /\ msg.kind # "LOGENTRY"
    <3>1. slot[n] \in Message /\ slot[n].feeder \in Nodes
        BY <1>5 DEF HandleClusterMsg, Handles, TypeOK, Message
    <3> QED
        BY <3>1, LanAssumption DEF Message
  <2> HIDE DEF msg
  <2>4. \A k, m \in Nodes : \A i \in Pending(chan'[k][m]) :
            i \in Pending(chan[k][m]) /\ chan'[k][m][i] = chan[k][m][i]
      BY <2>1, <2>3, SentOther
  <2> QED
      BY <2>1, <2>2, <2>4, FewerInPlace
<1>6. ASSUME NEW n \in Nodes, SendNumber(n) \/ ClusterLine(n)
      PROVE  Made' /\ OnePlace'
  <2>1. PICK msg \in Message : msg.kind # "LOGENTRY" /\ chan' = Sent(n, msg)
    <3>1. /\ [from |-> ThisNode[n], kind |-> "INCQSONUM", nr |-> qsonum[n]] \in Message
          /\ [from |-> ThisNode[n], kind |-> "CLUSTERMSG", feeder |-> n] \in Message
        BY LanAssumption DEF Message, TypeOK
    <3> QED
        BY <1>6, <3>1 DEF SendNumber, ClusterLine
  <2>2. UNCHANGED <<slot, log, made>>
      BY <1>6 DEF SendNumber, ClusterLine, local
  <2>3. \A k, m \in Nodes : \A i \in Pending(chan'[k][m]) :
            i \in Pending(chan[k][m]) /\ chan'[k][m][i] = chan[k][m][i]
      BY <2>1, SentOther
  <2> QED
      BY <2>2, <2>3, FewerInPlace
<1>7. ASSUME NEW n \in Nodes, Abandon(n)
      PROVE  Made' /\ OnePlace'
  <2>1. UNCHANGED <<chan, slot, log, made>>
      BY <1>7 DEF Abandon
  <2> QED
      BY <2>1, FewerInPlace
<1>8. ASSUME NEW n \in Nodes, LogQso(n)
      PROVE  Made' /\ OnePlace'
    BY <1>8, LogOnce
<1>9. ASSUME NEW n \in Nodes, IncludeNote(n) \/ DeleteQso(n) \/ Restart(n)
      PROVE  Made' /\ OnePlace'
  <2>1. log[n] \in Seq(Line) /\ Note \in Line
      BY DEF TypeOK, Line
  <2>2. PICK lines \in Seq(Line) :
            /\ \/ lines \in {Append(log[n], Note), log[n]}
               \/ log[n] # <<>> /\ lines = Front(log[n])
            /\ log' = [log EXCEPT ![n] = lines]
    <3>1. Append(log[n], Note) \in Seq(Line)
        BY <2>1
    <3>2. log[n] # <<>> => Front(log[n]) \in Seq(Line)
        BY <2>1, FrontLines
    <3> QED
        BY <1>9, <2>1, <3>1, <3>2 DEF IncludeNote, DeleteQso, Restart, ScrollLog
  <2>3. UNCHANGED <<chan, slot, made>>
      BY <1>9 DEF IncludeNote, DeleteQso, Restart
  <2>4. \A m \in Nodes : \A i \in Logged(log'[m]) :
            i \in Logged(log[m]) /\ log'[m][i] = log[m][i]
      BY <2>2, ScrollFewer
  <2> QED
      BY <2>3, <2>4, FewerInPlace
<1>10. ASSUME NEW n \in Nodes, Crash(n)
       PROVE  Made' /\ OnePlace'
  <2>1. \A k, m \in Nodes : chan'[k][m] = IF m = n THEN <<>> ELSE chan[k][m]
      BY <1>10 DEF Crash, TypeOK
  <2>2. \A k, m \in Nodes : \A i \in Pending(chan'[k][m]) :
            i \in Pending(chan[k][m]) /\ chan'[k][m][i] = chan[k][m][i]
      BY <2>1 DEF Pending
  <2>3. slot' = [slot EXCEPT ![n] = Empty] /\ UNCHANGED <<log, made>>
      BY <1>10 DEF Crash
  <2>4. \A m \in Nodes : Waiting(slot'[m]) => slot'[m] = slot[m]
      BY <2>3 DEF TypeOK, Waiting
  <2> QED
      BY <2>2, <2>3, <2>4, FewerInPlace
<1> QED
    BY <1>1, <1>2, <1>3, <1>4, <1>5, <1>6, <1>7, <1>8, <1>9, <1>10 DEF Next

-----------------------------------------------------------------------------
(* Theorems.                                                               *)

LEMMA InitIInv == Init => IInv
<1> SUFFICES ASSUME Init PROVE IInv
    OBVIOUS
<1>1. \A k, m \in Nodes : chan[k][m] = <<>> /\ slot[m] = Empty /\ log[m] = <<>> /\ taken[m] = {}
    BY DEF Init
<1>2. EchoInv
    BY <1>1 DEF EchoInv, EchoFree
<1>3. SerialInv
    BY <1>1 DEF SerialInv
<1>4. \A k, m \in Nodes : Pending(chan[k][m]) = {} /\ ~Waiting(slot[m]) /\ Logged(log[m]) = {}
    BY <1>1 DEF Pending, Waiting, Logged
<1>5. Made
    BY <1>4 DEF Made
<1>6. OnePlace
    BY <1>4 DEF OnePlace, OnceOnWay, OnWayNotWaiting, OnWayNotLogged, WaitingNotLogged, OnceLogged
<1> QED
    BY InitType, <1>2, <1>3, <1>5, <1>6 DEF IInv

LEMMA Inductive == Spec => []IInv
<1>1. Init => IInv
    BY InitIInv
<1>2. ASSUME IInv, [Next]_vars PROVE IInv'
  <2>1. CASE Next
      BY <1>2, <2>1, TypeStep, EchoStep, SerialStep, OnceStep DEF IInv
  <2>2. CASE UNCHANGED vars
      BY <1>2, <2>2 DEF IInv, vars, local, TypeOK, EchoInv, EchoFree, SerialInv, Made, OnePlace,
         OnceOnWay, OnWayNotWaiting, OnWayNotLogged, WaitingNotLogged, OnceLogged
  <2> QED
      BY <1>2, <2>1, <2>2
<1> QED
    BY <1>1, <1>2, PTL DEF Spec

\* Slots and queues hold packets, logs hold lines, and a node always offers a
\* number from 1.
THEOREM TypeCorrect == Spec => []TypeOK
BY Inductive, PTL DEF IInv

\* Two nodes never echo a cluster line to each other, in a LAN of any shape:
\* the only node that ever sends a line is the one that heard it.
THEOREM NeverEchoed == Spec => []EchoFree
BY Inductive, PTL DEF IInv, EchoInv

\* No number is offered again that a node has logged or heard announced, for
\* any number of nodes and QSOs: whatever notes, deletions and foreign QSOs
\* scroll_log() meets.
THEOREM OfferAboveAnnounced == Spec => []AboveAnnounced
<1>1. IInv => AboveAnnounced
    BY DEF IInv, TypeOK, SerialInv, AboveAnnounced
<1> QED
    BY <1>1, Inductive, PTL

\* A QSO has at most one line in every log, with losses, crashes, restarts and
\* deletions, even when nodes share a letter or send to themselves.
THEOREM LoggedOnce == Spec => []OnceInEveryLog
<1>1. IInv => OnceInEveryLog
    BY DEF IInv, OnePlace, OnceLogged, Logged, SameQso, OnceInEveryLog
<1> QED
    BY <1>1, Inductive, PTL
=============================================================================
