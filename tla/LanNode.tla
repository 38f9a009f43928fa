------------------------------- MODULE LanNode -------------------------------
(***************************************************************************)
(* Several Tlf nodes in one LAN: log entries, serial numbers and cluster   *)
(* lines travel as UDP packets from every node to its peers.  A node takes *)
(* one packet at a time into lan_message and handles it when the           *)
(* background thread gets to it.                                           *)
(*                                                                         *)
(* A log is the list of QSOs with the node that made them and their serial *)
(* numbers.  What a QSO does to the score is the subject of Logbook, the   *)
(* threads inside a node that of BackgroundProcess.                        *)
(***************************************************************************)
EXTENDS Integers, Sequences, FiniteSets, SequencesExt, FiniteSetsExt

CONSTANTS Nodes,
          Ids,        \* node letters
          ThisNode,   \* THISNODE of every node
          Peers,      \* the nodes a node has addresses of
          Empty,      \* an empty lan_message
          Setups,     \* what may happen
          MaxQsos,    \* bound: QSOs made in the LAN
          MaxChan     \* bound: packets on their way from one node to another

\* Bounds: qsos in the LAN, the top number given out, notes per node.
\* cluster: lines of the DX cluster arrive; backslash: QSOs are logged
\* without an exchange.
Setup == [lan : BOOLEAN, loses : BOOLEAN, crashes : BOOLEAN, deletes : BOOLEAN,
          backslash : BOOLEAN, cluster : BOOLEAN,
          qsos : 0..MaxQsos, top : Nat, notes : Nat]

ASSUME LanAssumption ==
    /\ IsFiniteSet(Nodes)
    /\ ThisNode \in [Nodes -> Ids]
    /\ Peers \in [Nodes -> SUBSET Nodes]
    /\ Setups \subseteq Setup
    /\ MaxQsos \in Nat /\ MaxChan \in Nat

VARIABLES
    setup,
    up,           \* the nodes that are running
    log,          \* the log file
    qsonum,       \* the serial number offered next
    highqsonr,    \* the highest number heard of
    sent,         \* the number sent in the QSO at hand, 0: none; lastqsonr
    inhibit,      \* cl_send_inhibit
    slot,         \* lan_message
    chan,         \* packets on their way
    made,         \* history: QSOs made by all nodes
    taken         \* history: numbers announced to a node or logged by it

local == <<qsonum, highqsonr, sent, inhibit, slot, taken>>
vars  == <<setup, up, log, local, chan, made>>

\* A note has no number.
Note     == [kind |-> "note"]
Contacts == [kind : {"qso"}, node : Nodes, id : Nat, nr : Nat]
Line     == Contacts \cup {Note}

Message ==
    [from : Ids, kind : {"LOGENTRY"}, entry : Contacts]
    \cup [from : Ids, kind : {"INCQSONUM"}, nr : Nat]
    \cup [from : Ids, kind : {"CLUSTERMSG"}, feeder : Nodes]

Init ==
    /\ setup \in Setups
    /\ up = Nodes
    /\ log = [n \in Nodes |-> <<>>]
    /\ qsonum = [n \in Nodes |-> 1]
    /\ highqsonr = [n \in Nodes |-> 0]
    /\ sent = [n \in Nodes |-> 0]
    /\ inhibit = [n \in Nodes |-> FALSE]
    /\ slot = [n \in Nodes |-> Empty]
    /\ chan = [n \in Nodes |-> [m \in Nodes |-> <<>>]]
    /\ made = 0
    /\ taken = [n \in Nodes |-> {}]

-----------------------------------------------------------------------------
(* Serial numbers: get_next_serial().                                      *)

\* The last line of the log is line 1; missing lines are blank.
IsNote(lines, i) == i <= Len(lines) /\ lines[Len(lines) + 1 - i] = Note
Number(lines, i) == IF i <= Len(lines) THEN lines[Len(lines) + 1 - i].nr ELSE 0

\* mm: the highest number in the last four lines.
HighestOf(lines, num) ==
    LET last == IF IsNote(lines, 1) THEN num - 1 ELSE Number(lines, 1)
    IN  Max({last} \cup {Number(lines, i) : i \in {j \in 2..4 : ~IsNote(lines, j)}})

\* The number that ends up in qsonrstr: behind a note with no higher number
\* before it, it is still the one on offer.
HighestStr(lines, num) ==
    LET mm == HighestOf(lines, num)
    IN  IF IsNote(lines, 1) /\ mm = num - 1 THEN num ELSE mm

\* origin is lan_mutex: who stored the last line.
NextSerial(lines, num, high, origin) ==
    LET str  == HighestStr(lines, num)
        next == CASE ~setup.lan      -> str
                  [] origin = "lan"  -> IF str <= high THEN high ELSE num
                  [] OTHER           -> Max({str, high})
    IN  [qsonum |-> IF IsNote(lines, 1) THEN HighestOf(lines, num) + 1 ELSE next + 1,
         high   |-> IF setup.lan /\ origin # "lan" THEN Max({str, high}) ELSE high]

\* scroll_log(), after the log of n became lines.
ScrollLog(n, lines, num, high, origin) ==
    LET next == NextSerial(lines, num, high, origin)
    IN  /\ log' = [log EXCEPT ![n] = lines]
        /\ qsonum' = [qsonum EXCEPT ![n] = next.qsonum]
        /\ highqsonr' = [highqsonr EXCEPT ![n] = next.high]

-----------------------------------------------------------------------------
(* Packets.                                                                *)

\* lan_send(): packets for a node that is down are lost.
Sent(n, msg) ==
    IF ~setup.lan THEN chan
    ELSE [chan EXCEPT ![n] =
            [m \in Nodes |-> IF m \in Peers[n] \cap up THEN Append(@[m], msg) ELSE @[m]]]

\* Bound on the packets on their way.
MaySend(n) == \A m \in Nodes : Len(chan[n][m]) < MaxChan

\* Mutant: the sender of a cluster line is not taken down.
Receive_NoInhibit(n, m) ==
    /\ n \in up /\ slot[n] = Empty /\ chan[m][n] # <<>>
    /\ slot' = [slot EXCEPT ![n] = Head(chan[m][n])]
    /\ chan' = [chan EXCEPT ![m][n] = Tail(@)]
    /\ UNCHANGED <<setup, up, log, qsonum, highqsonr, sent, inhibit, made, taken>>

\* Mutant: a message that still waits for the background thread is replaced.
Receive_Overwrites(n, m) ==
    /\ n \in up /\ chan[m][n] # <<>>
    /\ slot' = [slot EXCEPT ![n] = Head(chan[m][n])]
    /\ chan' = [chan EXCEPT ![m][n] = Tail(@)]
    /\ inhibit' = [inhibit EXCEPT ![n] = @ \/ Head(chan[m][n]).kind = "CLUSTERMSG"]
    /\ UNCHANGED <<setup, up, log, qsonum, highqsonr, sent, made, taken>>

\* lan_recv(): a packet of m.
Receive(n, m) ==
    /\ n \in up /\ slot[n] = Empty /\ chan[m][n] # <<>>
    /\ slot' = [slot EXCEPT ![n] = Head(chan[m][n])]
    /\ chan' = [chan EXCEPT ![m][n] = Tail(@)]
    /\ inhibit' = [inhibit EXCEPT ![n] = @ \/ Head(chan[m][n]).kind = "CLUSTERMSG"]
    /\ UNCHANGED <<setup, up, log, qsonum, highqsonr, sent, made, taken>>

Lose(n, m) ==
    /\ setup.loses /\ chan[m][n] # <<>>
    /\ chan' = [chan EXCEPT ![m][n] = Tail(@)]
    /\ UNCHANGED <<setup, up, log, local, made>>

\* A packet with this node's own letter is never handled, nor dropped.
Handles(n, kind) ==
    /\ n \in up /\ slot[n] # Empty
    /\ slot[n].from # ThisNode[n]
    /\ slot[n].kind = kind

ClearSlot(n) == slot' = [slot EXCEPT ![n] = Empty]

\* Mutant: the message is not cleared.
HandleLogEntry_Keeps(n) ==
    /\ Handles(n, "LOGENTRY")
    /\ Len(log[n]) < 6
    /\ ScrollLog(n, Append(log[n], slot[n].entry), qsonum[n], highqsonr[n], "lan")
    /\ UNCHANGED <<setup, up, sent, inhibit, chan, made, taken, slot>>

\* log_to_disk(true)
HandleLogEntry(n) ==
    /\ Handles(n, "LOGENTRY")
    /\ ScrollLog(n, Append(log[n], slot[n].entry), qsonum[n], highqsonr[n], "lan")
    /\ ClearSlot(n)
    /\ UNCHANGED <<setup, up, sent, inhibit, chan, made, taken>>

\* Mutant: the highest number is remembered, the number on offer stays.
HandleIncQsoNum_KeepsOffer(n) ==
    /\ Handles(n, "INCQSONUM")
    /\ highqsonr' = [highqsonr EXCEPT ![n] = Max({@, slot[n].nr})]
    /\ taken' = [taken EXCEPT ![n] = @ \cup {slot[n].nr}]
    /\ ClearSlot(n)
    /\ UNCHANGED <<setup, up, log, qsonum, sent, inhibit, chan, made>>

HandleIncQsoNum(n) ==
    LET nr   == slot[n].nr
        high == Max({highqsonr[n], nr})
    IN  /\ Handles(n, "INCQSONUM")
        /\ highqsonr' = [highqsonr EXCEPT ![n] = high]
        /\ qsonum' = [qsonum EXCEPT ![n] = IF @ <= nr /\ nr > 0 THEN high + 1 ELSE @]
        /\ taken' = [taken EXCEPT ![n] = @ \cup {nr}]
        /\ ClearSlot(n)
        /\ UNCHANGED <<setup, up, log, sent, inhibit, chan, made>>

\* addtext() shows the line and passes every line on, unless inhibited.
HandleClusterMsg(n) ==
    /\ Handles(n, "CLUSTERMSG")
    /\ chan' = IF inhibit[n] THEN chan
               ELSE Sent(n, [from |-> ThisNode[n], kind |-> "CLUSTERMSG",
                             feeder |-> slot[n].feeder])
    /\ ClearSlot(n)
    /\ UNCHANGED <<setup, up, log, qsonum, highqsonr, sent, inhibit, made, taken>>

-----------------------------------------------------------------------------
(* The operator.                                                           *)

\* getexchange() starts, or a message with "#" is sent.  Announcing the same
\* number again changes nothing at the other nodes and is left out.
SendNumber(n) ==
    /\ n \in up /\ MaySend(n) /\ qsonum[n] <= setup.top /\ made < setup.qsos
    /\ sent[n] # qsonum[n]
    /\ sent' = [sent EXCEPT ![n] = qsonum[n]]
    /\ chan' = Sent(n, [from |-> ThisNode[n], kind |-> "INCQSONUM", nr |-> qsonum[n]])
    /\ UNCHANGED <<setup, up, log, qsonum, highqsonr, inhibit, slot, made, taken>>

Abandon(n) ==
    /\ n \in up /\ sent[n] # 0
    /\ sent' = [sent EXCEPT ![n] = 0]
    /\ UNCHANGED <<setup, up, log, qsonum, highqsonr, inhibit, slot, chan, made, taken>>

\* log_to_disk(false)
LogQso(n) ==
    LET entry == [kind |-> "qso", node |-> n, id |-> made + 1, nr |-> qsonum[n]]
    IN  /\ n \in up /\ MaySend(n) /\ qsonum[n] <= setup.top /\ made < setup.qsos
        /\ setup.backslash \/ sent[n] # 0
        /\ ScrollLog(n, Append(log[n], entry), qsonum[n], highqsonr[n], "own")
        /\ chan' = Sent(n, [from |-> ThisNode[n], kind |-> "LOGENTRY", entry |-> entry])
        /\ sent' = [sent EXCEPT ![n] = 0]
        /\ made' = made + 1
        /\ taken' = [taken EXCEPT ![n] = @ \cup {qsonum[n]}]
        /\ UNCHANGED <<setup, up, inhibit, slot>>

Notes(lines) == Cardinality({i \in DOMAIN lines : lines[i] = Note})

IncludeNote(n) ==
    /\ n \in up /\ Notes(log[n]) < setup.notes
    /\ ScrollLog(n, Append(log[n], Note), qsonum[n], highqsonr[n], "none")
    /\ UNCHANGED <<setup, up, sent, inhibit, slot, chan, made, taken>>

\* delete_qso() cuts the last line off this node's log only.
DeleteQso(n) ==
    /\ setup.deletes /\ n \in up /\ log[n] # <<>>
    /\ ScrollLog(n, Front(log[n]), qsonum[n], highqsonr[n], "none")
    /\ UNCHANGED <<setup, up, sent, inhibit, slot, chan, made, taken>>

\* A line of the DX cluster arrives at the packet interface of n.
ClusterLine(n) ==
    /\ n \in up /\ setup.cluster /\ ~inhibit[n] /\ MaySend(n)
    /\ chan' = Sent(n, [from |-> ThisNode[n], kind |-> "CLUSTERMSG", feeder |-> n])
    /\ UNCHANGED <<setup, up, log, local, made>>

\* The program ends or dies; what is on its way to it is lost.
Crash(n) ==
    /\ setup.crashes /\ n \in up
    /\ up' = up \ {n}
    /\ sent' = [sent EXCEPT ![n] = 0]
    /\ qsonum' = [qsonum EXCEPT ![n] = 1]
    /\ highqsonr' = [highqsonr EXCEPT ![n] = 0]
    /\ inhibit' = [inhibit EXCEPT ![n] = FALSE]
    /\ slot' = [slot EXCEPT ![n] = Empty]
    /\ taken' = [taken EXCEPT ![n] = {}]
    /\ chan' = [m \in Nodes |-> [chan[m] EXCEPT ![n] = <<>>]]
    /\ UNCHANGED <<setup, log, made>>

\* readcalls() and scroll_log() in main()
Restart(n) ==
    /\ n \notin up
    /\ up' = up \cup {n}
    /\ ScrollLog(n, log[n], qsonum[n], highqsonr[n], "none")
    /\ UNCHANGED <<setup, sent, inhibit, slot, chan, made, taken>>

Next ==
    \/ \E n, m \in Nodes : Receive(n, m) \/ Lose(n, m)
    \/ \E n \in Nodes :
        \/ HandleLogEntry(n) \/ HandleIncQsoNum(n) \/ HandleClusterMsg(n)
        \/ SendNumber(n) \/ Abandon(n) \/ LogQso(n) \/ IncludeNote(n)
        \/ DeleteQso(n) \/ ClusterLine(n) \/ Crash(n) \/ Restart(n)

\* The background thread of a node never stops receiving and handling.
Background(n) ==
    \/ \E m \in Nodes : Receive(n, m)
    \/ HandleLogEntry(n) \/ HandleIncQsoNum(n) \/ HandleClusterMsg(n)

Fairness == \A n \in Nodes : WF_vars(Background(n))

Spec     == Init /\ [][Next]_vars
FairSpec == Spec /\ Fairness

-----------------------------------------------------------------------------
(* Properties.                                                             *)

TypeOK ==
    /\ setup \in Setup /\ up \subseteq Nodes
    /\ log \in [Nodes -> Seq(Line)]
    /\ qsonum \in [Nodes -> Nat \ {0}] /\ highqsonr \in [Nodes -> Nat]
    /\ sent \in [Nodes -> Nat] /\ inhibit \in [Nodes -> BOOLEAN]
    /\ slot \in [Nodes -> Message \cup {Empty}]
    /\ chan \in [Nodes -> [Nodes -> Seq(Message)]]
    /\ made \in Nat /\ taken \in [Nodes -> SUBSET Nat]

Qsos(lines) == {lines[i] : i \in {j \in DOMAIN lines : lines[j] # Note}}

\* No packet is stored twice: a QSO has at most one line in the log of any
\* node, through losses, restarts and deletions.
OnceInEveryLog ==
    \A n \in Nodes : \A i, j \in DOMAIN log[n] :
        i # j /\ log[n][i] # Note /\ log[n][j] # Note =>
            <<log[n][i].node, log[n][i].id>> # <<log[n][j].node, log[n][j].id>>

\* A node never offers a number that it has logged, or that another node has
\* announced to it: however packets and the operator's QSOs interleave.
AboveAnnounced ==
    setup.lan => \A n \in up : \A nr \in taken[n] : nr < qsonum[n]

\* Only the node that hears the DX cluster passes its lines on: two nodes
\* never echo a line to each other.
EchoFree ==
    \A n, m \in Nodes : \A i \in DOMAIN chan[n][m] :
        chan[n][m][i].kind = "CLUSTERMSG" => chan[n][m][i].feeder = n

\* "syncing/distributing log" (tlf.1.in:144): every QSO reaches the log of
\* every peer, unless packets are lost, a node dies or deletes lines.
Distributes ==
    \A n \in Nodes : \A m \in Peers[n], id \in 1..MaxQsos :
        LET in(lines) == \E q \in Qsos(lines) : q.node = n /\ q.id = id
            calm      == ~setup.loses /\ ~setup.crashes /\ ~setup.deletes
        IN  calm /\ in(log[n]) ~> in(log[m])

=============================================================================
