---------------------------------- MODULE Qtc ----------------------------------
(***************************************************************************)
(* QTC traffic: QSOs of the log that are passed on to another station, at  *)
(* most ten to each of them.  This module has the data: the two QTC logs,  *)
(* the flags by line of the log, the counters per station, the list that   *)
(* is generated for a station, and what a restart reads back.  QtcWindow   *)
(* has the keys of the operator.                                           *)
(*                                                                         *)
(* Lines are numbered from 1; next_qtc_qso and qsoline count from 0.       *)
(***************************************************************************)
EXTENDS Integers, Sequences, FiniteSets, SequencesExt, FiniteSetsExt

CONSTANTS Setups,    \* configurations to consider
          Calls,     \* stations
          NoCall,    \* an empty call field
          Partial,   \* a call that is being typed: no station's call
          StartingWith, \* the calls that begin with a call
          QtcLines,  \* QTC_LINES, also the most QTCs per station
          MetaLines  \* lines of QTC_meta.log that are read in one go

ASSUME QtcAssumption ==
    /\ QtcLines \in Nat \ {0}
    /\ MetaLines \in Nat \ {0}
    /\ NoCall \notin Calls /\ Partial \notin Calls /\ NoCall # Partial
    /\ StartingWith \in [Calls \cup {Partial} -> SUBSET (Calls \cup {Partial})]
    /\ \A c \in Calls \cup {Partial} : c \in StartingWith[c]

Directions == {"recv", "send"}
CallField  == Calls \cup {NoCall, Partial}

\* strncmp() with the length of the shorter call.
BeginsWith(call, c) == c # NoCall /\ call \in StartingWith[c]

\* The id of the text of an empty line of the list.
NoQso == 0

VARIABLES
    setup,
    log,       \* QSOs: the contact (id) and its station (call)
    made,      \* QSOs ever made
    sentLog,   \* QTC_sent.log
    recvLog,   \* QTC_recv.log
    metaLog,   \* QTC_meta.log: the flag of stations that have one
    used,      \* qsoflags_for_qtc: lines of the log that are used
    nextQso,   \* next_qtc_qso
    nrSent,    \* nr_qtcsent: highest serial of a block
    store,     \* qtc_store: counters and flag per station
    points,    \* the part of total that comes from QTCs
    qtclist,   \* the list to send
    deleted    \* bound: QSOs deleted so far

dataVars == <<log, made, sentLog, recvLog, metaLog, used, nextQso, nrSent, store, points, deleted>>

-----------------------------------------------------------------------------
(* The counters per station (qtcutil.c).                                   *)

EmptyStore == [c \in CallField |-> [recv |-> 0, send |-> 0, flag |-> "none"]]

\* qtc_get()->total
Total(st, c) == st[c].recv + st[c].send

\* qtc_inc() for a line sent: lines to nobody count under the empty call.
QtcInc(st, c) == [st EXCEPT ![c].send = @ + 1]

\* A station marked as LATER or NO: qtc_inc() writes all marks to the disk.
MetaWrite(st) == {<<c, st[c].flag>> : c \in {d \in DOMAIN st : st[d].flag # "none"}}

MarkCall(c, flag) ==
    /\ store' = [store EXCEPT ![c].flag = flag]
    /\ metaLog' = MetaWrite(store')

-----------------------------------------------------------------------------
(* The list of QTCs for a station (genqtclist.c).                          *)

EmptyLine == [qso |-> NoQso, pos |-> 1, flag |-> FALSE, sent |-> FALSE]
EmptyList == [call |-> NoCall, serial |-> 0, count |-> 0, total |-> 0,
              lines |-> [k \in 1..QtcLines |-> EmptyLine]]

\* The members of a set of numbers as a loop meets them.
InOrder(S) ==
    CHOOSE s \in [1..Cardinality(S) -> S] : \A i, j \in 1..Cardinality(S) : i < j => s[i] < s[j]

\* Lines of the log that may go to the station.
Offered(call) == {p \in 1..Len(log) : p >= nextQso /\ ~BeginsWith(log[p].call, call) /\ p \notin used}

\* Only the lines asked for are cleared; a number out of range means all.
GenQtcList(call, nr) ==
    LET len   == IF nr \in 0..QtcLines THEN nr ELSE QtcLines
        picks == InOrder(Offered(call))
        count == Min({len, Cardinality(Offered(call))})
    IN  [call |-> call, serial |-> nrSent + 1, count |-> count, total |-> 0,
         lines |-> [k \in 1..QtcLines |->
             IF k <= count
             THEN [qso |-> log[picks[k]].id, pos |-> picks[k],
                   flag |-> setup.digi \/ k = 1, sent |-> FALSE]
             ELSE IF k <= len THEN [EmptyLine EXCEPT !.pos = qtclist.lines[k].pos]
             ELSE qtclist.lines[k]]]

-----------------------------------------------------------------------------
(* Storing QTC lines (qtc_log.c): the statistics after lines have been     *)
(* added to the logs, one by one.                                          *)

SkipUsed(next, marks) == Min({p \in next..(next + Cardinality(marks)) : p \notin marks})

\* Mutant: a line that is not the next one is not marked.
StoreSent_NextOnly(s, l) ==
    [s EXCEPT !.nrSent = Max({@, l.serial}), !.used = IF l.pos = s.next THEN @ \cup {l.pos} ELSE @,
              !.next = IF l.pos = @ THEN SkipUsed(@, s.used \cup {l.pos}) ELSE @,
              !.store = QtcInc(@, l.to)]

\* Mutant: lines before the last one sent are never offered again.
StoreSent_Passes(s, l) ==
    [s EXCEPT !.nrSent = Max({@, l.serial}), !.used = @ \cup {l.pos},
              !.next = Max({@, l.pos + 1}), !.store = QtcInc(@, l.to)]

\* store_qtc() for a line sent, as a function on what it changes in memory.
StoreSent(s, l) ==
    [nrSent |-> Max({s.nrSent, l.serial}),
     used   |-> s.used \cup {l.pos},
     next   |-> IF l.pos = s.next THEN SkipUsed(s.next, s.used \cup {l.pos}) ELSE s.next,
     store  |-> QtcInc(s.store, l.to)]

Memory == [nrSent |-> nrSent, used |-> used, next |-> nextQso, store |-> store]

\* Memory after the lines, one by one.
StoreAll(lines) ==
    LET after[i \in 0..Len(lines)] ==
            IF i = 0 THEN Memory ELSE StoreSent(after[i - 1], lines[i])
    IN  after[Len(lines)]

SaveSent(lines) ==
    /\ sentLog' = sentLog \o lines
    /\ points' = points + Len(lines)
    /\ nrSent' = StoreAll(lines).nrSent /\ used' = StoreAll(lines).used
    /\ nextQso' = StoreAll(lines).next /\ store' = StoreAll(lines).store
    /\ UNCHANGED <<recvLog, metaLog>>

SaveReceived(lines) ==
    /\ recvLog' = recvLog \o lines
    /\ points' = points + Len(lines)
    /\ store' = [c \in DOMAIN store |->
           [store[c] EXCEPT !.recv = @ + Cardinality({i \in 1..Len(lines) : lines[i].call = c})]]
    /\ UNCHANGED <<sentLog, metaLog, nrSent, used, nextQso>>

-----------------------------------------------------------------------------
(* Reading the QTC logs (readqtccalls.c).                                  *)

Positions(sent) == {sent[i].pos : i \in 1..Len(sent)}

\* The last line of the log that was used, or the first unused one before it.
FirstFree(marks) ==
    LET last == Max(marks \cup {1})
    IN  Min({last} \cup ((1..last) \ marks))

ReadStore(sent, recv, meta) ==
    [c \in DOMAIN EmptyStore |->
        [recv |-> Cardinality({i \in 1..Len(recv) : recv[i].call = c}),
         send |-> Cardinality({i \in 1..Len(sent) : sent[i].to = c}),
         flag |-> IF \E f \in {"later", "no"} : <<c, f>> \in meta
                  THEN CHOOSE f \in {"later", "no"} : <<c, f>> \in meta ELSE "none"]]

\* Each mark that is read makes qtc_inc() write the marks read so far over the
\* file, which ends there when the rest is to be read.
MarksKept == {kept \in SUBSET metaLog : Cardinality(kept) = Min({MetaLines, Cardinality(metaLog)})}

\* nr is the highest serial known before: it is kept when the log is reread.
ReadQtcCalls(sent, recv, nr) ==
    /\ used' = Positions(sent)
    /\ nextQso' = FirstFree(Positions(sent))
    /\ nrSent' = Max({nr} \cup {sent[i].serial : i \in 1..Len(sent)})
    /\ metaLog' \in MarksKept
    /\ store' = ReadStore(sent, recv, metaLog')
    /\ points' = Len(sent) + Len(recv)

-----------------------------------------------------------------------------
(* The log: QSOs, deletion of the last one, packets of other nodes.        *)

LogQso(c) ==
    /\ made < setup.maxQsos /\ made' = made + 1
    /\ log' = Append(log, [id |-> made + 1, call |-> c])
    /\ UNCHANGED <<sentLog, recvLog, metaLog, used, nextQso, nrSent, store, points, deleted>>

\* The lines without those at the end that belong to the station: band and
\* mode are the same for all of them here.
WithoutLast(lines, field, c) ==
    LET keep == {n \in 0..Len(lines) : \A i \in (n + 1)..Len(lines) : BeginsWith(lines[i][field], c)}
    IN  SubSeq(lines, 1, Min(keep))

\* The number of the last block goes down by one, whatever was deleted;
\* reading the log brings it back to what is in the file.
DeleteQso ==
    /\ deleted < setup.maxDeletes /\ deleted' = deleted + 1
    /\ log # <<>>
    /\ log' = Front(log)
    /\ sentLog' = IF "send" \in setup.dirs
                  THEN WithoutLast(sentLog, "to", Last(log).call) ELSE sentLog
    /\ recvLog' = IF "recv" \in setup.dirs
                  THEN WithoutLast(recvLog, "call", Last(log).call) ELSE recvLog
    /\ ReadQtcCalls(sentLog', recvLog',
                    IF "send" \in setup.dirs /\ sentLog # <<>> THEN nrSent - 1 ELSE nrSent)
    /\ UNCHANGED made

\* QTCSENTRY: another node has sent line pos of its log, which holds QSO q.
RemoteSent(pos, q, c) ==
    /\ Len(sentLog) < setup.maxLines
    /\ SaveSent(<<[qso |-> q, pos |-> pos, to |-> c, serial |-> nrSent + 1, count |-> 1]>>)
    /\ UNCHANGED <<log, made, deleted>>

\* QTCRENTRY: another node has received a line from the station.
RemoteReceived(c) ==
    /\ Len(recvLog) < setup.maxLines
    /\ SaveReceived(<<[call |-> c, from |-> c, count |-> 1]>>)
    /\ UNCHANGED <<log, made, deleted>>

\* QTCFLAG
RemoteMark(c, flag) ==
    /\ MarkCall(c, flag)
    /\ UNCHANGED <<log, made, sentLog, recvLog, used, nextQso, nrSent, points, deleted>>
=============================================================================
