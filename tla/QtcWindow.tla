------------------------------- MODULE QtcWindow -------------------------------
(***************************************************************************)
(* The QTC window (qtcwin.c): one action per key.  Field numbers are those *)
(* of the program: 0 the call, 1 the serial, 2 the count, then for sending *)
(* one per line, for receiving three (time, call, serial): of these the    *)
(* cursor is always in the first, as what a key does to a line is the same.*)
(*                                                                         *)
(* Of the text of a line that is received only this is kept: "none" is     *)
(* empty, "part" lacks something, "flawed" is long enough but has a "?" or *)
(* a call of one or two letters, "full" is complete.                       *)
(***************************************************************************)
EXTENDS Qtc

VARIABLES
    window,    \* "closed", or the direction of the open window
    field,     \* activefield, shared by both directions
    prev,      \* prevqtccall, shared by both directions
    reclist,   \* qtcreclist
    nrParsed,  \* nr_parsed_line
    copied,    \* qtc_ry_copied
    lastcall   \* lastcall is set: a QSO was logged since the start

winVars == <<window, field, prev, reclist, nrParsed, copied, lastcall>>
vars    == <<setup, dataVars, qtclist, winVars>>

\* What the operator does beyond plain sending and receiving.
Keys == {"text", "leave", "count", "call", "delete", "beyond", "edit", "fill", "mark", "terminal"}

Setup == [dirs : SUBSET Directions, digi : BOOLEAN, lazy : BOOLEAN, keys : SUBSET Keys,
          lan : {"none", "same", "other"}, stations : SUBSET Calls, maxQsos : Nat,
          maxLines : Nat, maxDeletes : Nat, restarts : BOOLEAN]

\* Lazy is switched off for digital modes.
ASSUME WindowAssumption == Setups \subseteq {s \in Setup : ~(s.digi /\ s.lazy)}

NewLine == [text |-> "none", status |-> 0, confirmed |-> FALSE, from |-> NoCall]
NewRec  == [call |-> NoCall, serial |-> 0, count |-> 0, confirmed |-> 0,
            lines |-> [k \in 1..QtcLines |-> NewLine]]

LastSend == QtcLines + 2        \* 12
LastRecv == 3 * QtcLines        \* 30

\* Three fields a line; what moves by arrow keys stays in the column.
RecvFields == 3..(LastRecv + 2)

\* The line a field belongs to.
RecvLine(f) == (f - 3) \div 3 + 1
SendLine(f) == f - 2

Idle == <<log, made, sentLog, recvLog, metaLog, used, nextQso, nrSent, store, points, deleted>>

-----------------------------------------------------------------------------
(* Status of the lines received.                                           *)

\* show_status(): of the lines that were announced.
StatusShown(r, k) ==
    IF k > r.count THEN r.lines[k].status
    ELSE IF r.lines[k].text # "full" THEN 1
    ELSE IF r.lines[k].status = 2 THEN 2 ELSE 0

ShowStatus(r, k) ==
    IF k \in 1..QtcLines THEN [r EXCEPT !.lines[k].status = StatusShown(r, k)] ELSE r

\* The cursor goes from field f to field g: both are shown.
ShowFields(r, f, g) == ShowStatus(ShowStatus(r, RecvLine(f)), RecvLine(g))

ShowAll(r) ==
    [r EXCEPT !.lines = [k \in 1..QtcLines |-> [@[k] EXCEPT !.status = StatusShown(r, k)]]]

-----------------------------------------------------------------------------
(* Opening and closing.                                                    *)

\* Mutant: the lines stay whatever the call is.
PrepareForRecv_KeepsLines(c) ==
    LET r == IF c = NoCall THEN reclist ELSE [reclist EXCEPT !.call = c]
    IN  /\ reclist' = ShowAll(r)
        /\ field' = IF r.count = 0 THEN 0 ELSE field
        /\ prev' = r.call /\ copied' = copied

\* prepare_for_recv(): a new call empties the lines.
PrepareForRecv(c) ==
    LET r     == IF c = NoCall THEN reclist ELSE [reclist EXCEPT !.call = c]
        fresh == r.call # prev \/ r.call = NoCall
        new   == IF fresh THEN [NewRec EXCEPT !.call = r.call] ELSE r
    IN  /\ reclist' = ShowAll(new)
        /\ field' = IF new.count = 0 THEN 0 ELSE field
        /\ copied' = IF fresh THEN 0 ELSE copied
        /\ prev' = new.call

\* prepare_for_send(): a new call, or an empty list, generates the list.
PrepareForSend(c) ==
    LET l == IF c = NoCall THEN qtclist.call ELSE c
    IN  /\ IF l # prev \/ l = NoCall \/ qtclist.count = 0
           THEN qtclist' = GenQtcList(l, QtcLines - Total(store, l)) /\ field' = 0
           ELSE qtclist' = [qtclist EXCEPT !.call = l] /\ field' = field
        /\ prev' = l

\* The call comes from the main window, or from the last QSO when it is empty.
Open(dir, c) ==
    /\ window = "closed" /\ dir \in setup.dirs
    /\ c = NoCall => ~lastcall
    /\ window' = dir
    /\ \/ dir = "recv" /\ PrepareForRecv(c) /\ UNCHANGED qtclist
       \/ dir = "send" /\ PrepareForSend(c) /\ UNCHANGED <<reclist, copied>>
    /\ UNCHANGED <<setup, Idle, nrParsed, lastcall>>

\* ESC.  Without "leave" the operator saves what was sent, or takes it back.
Escape ==
    /\ window # "closed" /\ window' = "closed"
    /\ "leave" \in setup.keys \/ window = "recv" \/ \A k \in 1..QtcLines : ~qtclist.lines[k].sent
    /\ UNCHANGED <<setup, Idle, qtclist, field, prev, reclist, nrParsed, copied, lastcall>>

-----------------------------------------------------------------------------
(* Navigation.                                                             *)

\* Arrow keys move while there is something left to send, in digital modes
\* after all of it is sent.
CanMove == IF setup.digi THEN qtclist.total = qtclist.count ELSE qtclist.total < qtclist.count

SendUp == CASE field = 0 -> LastSend [] field = 2 -> 0 [] field = 3 -> 2
            [] field \in 4..LastSend -> field - 1 [] OTHER -> field
SendDown == CASE field = 0 -> 2 [] field = 2 -> 3 [] field \in 3..(LastSend - 1) -> field + 1
            [] field = LastSend -> 0 [] OTHER -> field
SendTab == CASE field = 0 -> 2 [] field = 2 -> 0 [] OTHER -> field

RecvUp == CASE field \in 1..2 -> {0} [] field \in 3..5 -> {1, 2} [] field > 5 -> {field - 3}
            [] OTHER -> {0}
RecvDown == CASE field = 0 -> {1} [] field \in 1..2 -> {3} [] field \in 3..(LastRecv - 1) -> {field + 3}
              [] OTHER -> {field}

\* TAB stays in the line, but in digital modes goes on through all fields.
RecvTab == CASE field < 3 -> {field + 1}
             [] setup.digi /\ field \in LastRecv..(LastRecv + 2) -> {0}
             [] setup.digi /\ field \in 3..(LastRecv - 1) -> {field + 3}
             [] OTHER -> {field}
RecvBackTab == CASE field = 0 -> {IF setup.digi THEN LastRecv ELSE 2}
                 [] field \in 1..2 -> {field - 1}
                 [] setup.digi /\ field = 3 -> {2}
                 [] setup.digi /\ field > 3 -> {field - 3}
                 [] OTHER -> {field}

Move ==
    /\ \/ /\ window = "send"
          /\ \/ CanMove /\ field' \in {SendUp, SendDown}
             \/ field' = SendTab
          /\ UNCHANGED reclist
       \/ /\ window = "recv"
          /\ field' \in RecvUp \cup RecvDown \cup RecvTab \cup RecvBackTab
          /\ reclist' = ShowFields(reclist, field, field')
    /\ UNCHANGED <<setup, Idle, qtclist, window, prev, nrParsed, copied, lastcall>>

-----------------------------------------------------------------------------
(* The header: call and count.                                             *)

\* A key in the call field: from one call to another only through other text.
EditCall(c) ==
    /\ window # "closed" /\ field = 0 /\ "call" \in setup.keys
    /\ IF window = "recv" THEN c # reclist.call ELSE c # qtclist.call
    /\ c \in {NoCall, Partial} \/ (IF window = "recv" THEN reclist.call ELSE qtclist.call) \notin Calls
    /\ prev' = c
    /\ \/ /\ window = "recv"
          /\ reclist' = [reclist EXCEPT !.call = c, !.lines = [k \in 1..QtcLines |->
                 [reclist.lines[k] EXCEPT !.from = IF @ = reclist.call THEN c ELSE @]]]
          /\ UNCHANGED qtclist
       \/ /\ window = "send"
          /\ qtclist' = IF c # NoCall /\ c # prev THEN GenQtcList(c, QtcLines - Total(store, c))
                        ELSE [qtclist EXCEPT !.call = c]
          /\ UNCHANGED reclist
    /\ UNCHANGED <<setup, Idle, window, field, nrParsed, copied, lastcall>>

\* What the program makes of the number typed.
Limited(n, c) == IF n + Total(store, c) >= QtcLines THEN QtcLines - Total(store, c) ELSE n

\* Digits are appended, so that a number is typed into an empty field, or is
\* the greatest one.
TypeCount(n) ==
    /\ window # "closed" /\ field = 2
    /\ \/ /\ window = "recv"
          /\ reclist.count = 0 \/ (n = QtcLines /\ "count" \in setup.keys)
          /\ reclist' = [reclist EXCEPT !.count = Limited(n, reclist.call)]
          /\ UNCHANGED qtclist
       \/ /\ window = "send" /\ "count" \in setup.keys
          /\ qtclist.count = 0 \/ n = QtcLines
          /\ qtclist.count # n
          /\ qtclist' = GenQtcList(qtclist.call, Limited(n, qtclist.call))
          /\ UNCHANGED reclist
    /\ UNCHANGED <<setup, Idle, window, field, prev, nrParsed, copied, lastcall>>

\* Backspace and DEL: 10 becomes 1 or 0, all others 0.
EraseCount(n) ==
    /\ window # "closed" /\ field = 2 /\ "count" \in setup.keys
    /\ n = 0 \/ (n = 1 /\ (IF window = "recv" THEN reclist.count ELSE qtclist.count) = QtcLines)
    /\ \/ window = "recv" /\ reclist' = [reclist EXCEPT !.count = n] /\ UNCHANGED qtclist
       \/ window = "send" /\ qtclist' = [qtclist EXCEPT !.count = n] /\ UNCHANGED reclist
    /\ UNCHANGED <<setup, Idle, window, field, prev, nrParsed, copied, lastcall>>

TypeSerial(n) ==
    /\ window = "recv" /\ field = 1
    /\ reclist' = [reclist EXCEPT !.serial = n]
    /\ UNCHANGED <<setup, Idle, qtclist, window, field, prev, nrParsed, copied, lastcall>>

-----------------------------------------------------------------------------
(* Sending.                                                                *)

SendLineSent(l, k) ==
    [l EXCEPT !.lines[k].sent = TRUE, !.lines[k].flag = TRUE,
              !.total = IF l.lines[k].sent THEN @ ELSE @ + 1]

\* Enter on a line: CW and SSB.
SendEnter ==
    /\ window = "send" /\ ~setup.digi /\ field \in 3..LastSend
    /\ "beyond" \in setup.keys \/ SendLine(field) <= qtclist.count
    /\ qtclist' = SendLineSent(qtclist, SendLine(field))
    /\ field' = IF SendLine(field) < qtclist.count THEN field + 1 ELSE field
    /\ UNCHANGED <<setup, Idle, window, prev, reclist, nrParsed, copied, lastcall>>

\* The cursor was left in a line of the other direction: the memory behind
\* the list is changed, and what was there decides about the counter.
SendEnterOutside ==
    /\ window = "send" /\ ~setup.digi /\ field > LastSend
    /\ qtclist.total <= QtcLines      \* bound
    /\ qtclist' \in {qtclist, [qtclist EXCEPT !.total = @ + 1]}
    /\ UNCHANGED <<setup, Idle, window, field, prev, reclist, nrParsed, copied, lastcall>>

\* Digital modes: the whole block at once.
SendBlock ==
    /\ window = "send" /\ setup.digi /\ field \in {0, 2} /\ qtclist.total = 0
    /\ qtclist' = [qtclist EXCEPT !.total = qtclist.count,
           !.lines = [k \in 1..QtcLines |->
               IF k <= qtclist.count THEN [@[k] EXCEPT !.sent = TRUE, !.flag = TRUE] ELSE @[k]]]
    /\ UNCHANGED <<setup, Idle, window, field, prev, reclist, nrParsed, copied, lastcall>>

\* DEL takes the mark off, and counts down whether there was one or not.
Unsend ==
    /\ window = "send" /\ ~setup.digi /\ field \in 3..LastSend
    /\ "delete" \in setup.keys
    /\ qtclist.total > -1             \* bound
    /\ qtclist' = [qtclist EXCEPT !.total = @ - 1, !.lines[SendLine(field)].sent = FALSE,
                                  !.lines[SendLine(field)].flag = FALSE]
    /\ UNCHANGED <<setup, Idle, window, field, prev, reclist, nrParsed, copied, lastcall>>

\* The lines that log_sent_qtc_to_disk() writes.
Ready == {k \in 1..QtcLines : qtclist.lines[k].flag /\ qtclist.lines[k].sent}

SentLines ==
    [i \in 1..Cardinality(Ready) |->
        LET l == qtclist.lines[InOrder(Ready)[i]]
        IN  [qso |-> l.qso, pos |-> l.pos, to |-> qtclist.call, serial |-> qtclist.serial,
             count |-> qtclist.count]]

\* Mutant: the list stays as it is, and may be saved again.
Save_KeepsList ==
    /\ window = "send" /\ qtclist.count > 0 /\ qtclist.total = qtclist.count
    /\ Len(sentLog) < setup.maxLines
    /\ SaveSent(SentLines)
    /\ window' = "closed"
    /\ UNCHANGED <<setup, log, made, deleted, qtclist, prev, field, reclist, nrParsed, copied, lastcall>>

\* Ctrl-S
Save ==
    /\ window = "send" /\ qtclist.count > 0 /\ qtclist.total = qtclist.count
    /\ Len(sentLog) < setup.maxLines
    /\ SaveSent(SentLines)
    /\ qtclist' = [EmptyList EXCEPT !.serial = qtclist.serial, !.lines =
           [k \in 1..QtcLines |-> [EmptyLine EXCEPT !.pos = qtclist.lines[k].pos]]]
    /\ prev' = NoCall /\ window' = "closed"
    /\ UNCHANGED <<setup, log, made, deleted, field, reclist, nrParsed, copied, lastcall>>

-----------------------------------------------------------------------------
(* Receiving.                                                              *)

\* Typing and deleting in a line.  Only an operator who corrects lines that
\* were confirmed ("edit") changes those.
After(text) == CASE text = "none"   -> {"part", "flawed", "full"}
                 [] text = "part"   -> {"part", "flawed", "full"}
                 [] text = "flawed" -> {"flawed", "full"}
                 [] text = "full"   -> {"full", "flawed"}

Typed(l, text, query) ==
    [l EXCEPT !.text = text, !.from = reclist.call, !.status = IF query THEN 1 ELSE @]

TypeInLine(text, query) ==
    LET k == RecvLine(field)
        l == reclist.lines[k]
    IN  /\ window = "recv" /\ field \in RecvFields /\ "text" \in setup.keys
        /\ "edit" \in setup.keys \/ ~l.confirmed
        /\ \/ text \in After(l.text) /\ (query => text \in {"part", "flawed"})
           \/ text \in {"none", "part", "flawed"} /\ l.text # "none" /\ "edit" \in setup.keys /\ ~query
        /\ reclist' = ShowStatus([reclist EXCEPT !.lines[k] = Typed(l, text, query)], k)
        /\ UNCHANGED <<setup, Idle, qtclist, window, field, prev, nrParsed, copied, lastcall>>

\* A "?" in a field that is full: the mark of the line goes, the text stays.
QueryFull ==
    LET k == RecvLine(field)
    IN  /\ window = "recv" /\ field \in RecvFields /\ "text" \in setup.keys
        /\ "edit" \in setup.keys \/ ~reclist.lines[k].confirmed
        /\ reclist.lines[k].text # "none"
        /\ reclist' = ShowStatus([reclist EXCEPT !.lines[k].status = 1], k)
        /\ UNCHANGED <<setup, Idle, qtclist, window, field, prev, nrParsed, copied, lastcall>>

\* fill_qtc_times(): the hour of this line replaces the time of those below.
Filled(l) ==
    [l EXCEPT !.text = "part", !.status = 1, !.from = IF l.text = "none" THEN reclist.call ELSE @]

FillTimes ==
    LET k == RecvLine(field)
    IN  /\ window = "recv" /\ field \in RecvFields /\ ~setup.digi /\ "fill" \in setup.keys
        /\ reclist.lines[k].text # "none"
        /\ reclist' = [reclist EXCEPT !.lines = [j \in 1..QtcLines |->
               IF j > k /\ j <= reclist.count THEN Filled(@[j]) ELSE @[j]]]
        /\ UNCHANGED <<setup, Idle, qtclist, window, field, prev, nrParsed, copied, lastcall>>

\* Enter confirms a complete line, and any line if the checks are off.
Accepted(l) == setup.lazy \/ (l.status = 0 /\ l.text \in {"flawed", "full"})

\* Mutant: a line is counted each time it is confirmed.
Confirm_Again(r, k) ==
    LET l == r.lines[k]
        full == IF l.text \in {"none", "part"} THEN "flawed" ELSE l.text
    IN  ShowStatus([r EXCEPT !.lines[k].text = full, !.lines[k].status = 2,
                   !.lines[k].from = IF l.text = "none" THEN r.call ELSE @,
                   !.lines[k].confirmed = IF k <= r.count THEN TRUE ELSE @,
                   !.confirmed = IF k <= r.count THEN @ + 1 ELSE @], k)

\* In digital modes a line counts each time; in others once.
Confirm(r, k) ==
    LET l     == r.lines[k]
        count == k <= r.count /\ (setup.digi \/ ~l.confirmed)
        new   == [l EXCEPT !.text = IF @ \in {"none", "part"} THEN "flawed" ELSE @, !.status = 2,
                           !.from = IF l.text = "none" THEN r.call ELSE @,
                           !.confirmed = @ \/ k <= r.count]
    IN  ShowStatus([r EXCEPT !.lines[k] = new, !.confirmed = IF count THEN @ + 1 ELSE @], k)

\* log_recv_qtc_to_disk() writes every line that is long enough.
LongEnough(r) == {k \in 1..QtcLines : r.lines[k].text \in {"flawed", "full"}}

ReceivedLines(r) ==
    [i \in 1..Cardinality(LongEnough(r)) |->
        [call |-> r.call, from |-> r.lines[InOrder(LongEnough(r))[i]].from, count |-> r.count]]

\* A block with as many lines confirmed as announced is stored.
StoreIfComplete(r, shown) ==
    IF r.count > 0 /\ r.confirmed = r.count
    THEN /\ Len(recvLog) < setup.maxLines
         /\ SaveReceived(ReceivedLines(r))
         /\ reclist' = NewRec /\ copied' = 0 /\ window' = "closed"
    ELSE /\ reclist' = shown
         /\ UNCHANGED <<sentLog, recvLog, metaLog, used, nextQso, nrSent, store, points, copied, window>>

\* The first field of the next line, in digital modes the same column.
NextLine(f) == IF setup.digi THEN f + 3 ELSE f + (3 - (f % 3))

RecvEnter ==
    LET k == RecvLine(field)
        l == reclist.lines[k]
        ok == Accepted(l)
        r  == IF ok THEN Confirm(reclist, k) ELSE reclist
        to == IF ok /\ k <= reclist.count THEN NextLine(field) ELSE field
    IN  /\ window = "recv" /\ field \in RecvFields
        /\ field' = to
        /\ StoreIfComplete(r, ShowFields(r, field, to))
        /\ UNCHANGED <<setup, log, made, deleted, qtclist, prev, nrParsed, lastcall>>

\* Enter in the field after the last line of a full block: what lies behind the
\* list is no line of it, and counts as none.
RecvEnterOutside ==
    /\ window = "recv" /\ field > LastRecv + 2
    /\ StoreIfComplete(reclist, reclist)
    /\ UNCHANGED <<setup, log, made, deleted, qtclist, field, prev, nrParsed, lastcall>>

\* Enter and Space in the header.
HeaderEnter ==
    /\ window = "recv"
    /\ \/ field < 2
       \/ /\ field = 2 /\ reclist.call # NoCall /\ reclist.serial > 0 /\ reclist.count > 0
          /\ reclist.confirmed = 0
    /\ field' = field + 1
    /\ reclist' = ShowStatus(reclist, RecvLine(field'))
    /\ UNCHANGED <<setup, Idle, qtclist, window, prev, nrParsed, copied, lastcall>>

-----------------------------------------------------------------------------
(* The RTTY terminal: a captured line goes into the header or a line.      *)

\* parse_ry_line() starts with the header when that is empty, else with
\* line 1.
NextParsed ==
    LET n == IF reclist.count = 0 \/ reclist.serial = 0 THEN 0 ELSE nrParsed
    IN  IF (reclist.count > 0 \/ reclist.serial > 0) /\ n = 0 THEN 1 ELSE n

ParseHeader(n) ==
    /\ window = "recv" /\ setup.digi /\ "terminal" \in setup.keys
    /\ NextParsed = 0
    /\ reclist' = [reclist EXCEPT !.serial = 1, !.count = Limited(n, reclist.call)]
    /\ nrParsed' = 1
    /\ UNCHANGED <<setup, Idle, qtclist, window, field, prev, copied, lastcall>>

ParseLine(text) ==
    LET k == NextParsed
    IN  /\ window = "recv" /\ setup.digi /\ "terminal" \in setup.keys
        /\ k > 0 /\ k <= QtcLines + 1
        /\ IF k > QtcLines THEN text = "flawed" /\ UNCHANGED reclist
           ELSE /\ text \in After(reclist.lines[k].text)
                /\ "edit" \in setup.keys \/ ~reclist.lines[k].confirmed
                /\ reclist' = ShowStatus(
                       [reclist EXCEPT !.lines[k] = Typed(@, text, text = "flawed")], k)
        /\ nrParsed' = k + 1
        /\ copied' = copied + 1 /\ copied <= QtcLines
        /\ UNCHANGED <<setup, Idle, qtclist, window, field, prev, lastcall>>

ResetTerminal ==
    /\ window = "recv" /\ setup.digi /\ "terminal" \in setup.keys
    /\ copied' = 0
    /\ UNCHANGED <<setup, Idle, qtclist, window, field, prev, reclist, nrParsed, lastcall>>

-----------------------------------------------------------------------------

\* Ctrl-L and Ctrl-N, for a call of more than three characters.
Mark(flag) ==
    LET c == IF window = "recv" THEN reclist.call ELSE qtclist.call
    IN  /\ window # "closed" /\ "mark" \in setup.keys /\ c # NoCall
        /\ MarkCall(c, flag)
        /\ UNCHANGED <<setup, log, made, sentLog, recvLog, used, nextQso, nrSent, points, deleted,
                       qtclist, winVars>>

\* Tlf ends, or is killed, and starts again; missing files are created.
Restart ==
    /\ setup.restarts
    /\ ReadQtcCalls(sentLog, recvLog, 0)
    /\ qtclist' = EmptyList /\ reclist' = NewRec /\ window' = "closed"
    /\ field' = 0 /\ prev' = NoCall /\ nrParsed' = 0 /\ copied' = 0 /\ lastcall' = FALSE
    /\ UNCHANGED <<setup, log, made, sentLog, recvLog, deleted>>

Init ==
    /\ setup \in Setups
    /\ log = <<>> /\ made = 0 /\ sentLog = <<>> /\ recvLog = <<>> /\ metaLog = {}
    /\ used = {} /\ nextQso = 1 /\ nrSent = 0 /\ store = EmptyStore /\ points = 0
    /\ deleted = 0
    /\ qtclist = EmptyList /\ reclist = NewRec /\ window = "closed"
    /\ field = 0 /\ prev = NoCall /\ nrParsed = 0 /\ copied = 0 /\ lastcall = FALSE

\* The main window: logging and deleting.
MainWindow ==
    /\ window = "closed"
    /\ \/ DeleteQso /\ UNCHANGED lastcall
       \/ lastcall' = TRUE /\ \E c \in setup.stations : LogQso(c)
    /\ UNCHANGED <<setup, qtclist, window, field, prev, reclist, nrParsed, copied>>

\* Packets come at any time, from nodes that pass QTCs on in the same direction.
\* In a LAN without losses line pos is the same QSO everywhere and is used once;
\* else a packet may name any line.
Lan ==
    /\ setup.lan # "none"
    /\ \/ /\ "send" \in setup.dirs
          /\ \E pos \in 1..Len(log), c \in setup.stations :
                 /\ setup.lan = "same" => pos \notin used /\ ~BeginsWith(log[pos].call, c)
                 /\ RemoteSent(pos, IF setup.lan = "same" THEN log[pos].id ELSE NoQso, c)
       \/ "recv" \in setup.dirs /\ \E c \in setup.stations : RemoteReceived(c)
       \/ \E c \in setup.stations, f \in {"later", "no"} : RemoteMark(c, f)
    /\ UNCHANGED <<setup, qtclist, winVars>>

Next ==
    \/ \E dir \in Directions, c \in setup.stations \cup {NoCall} : Open(dir, c)
    \/ Escape
    \/ Move
    \/ \E c \in setup.stations \cup {NoCall, Partial} : EditCall(c)
    \/ \E n \in 0..QtcLines : TypeCount(n)
    \/ \E n \in 0..1 : EraseCount(n)
    \/ \E n \in 0..1 : TypeSerial(n)
    \/ SendEnter
    \/ SendEnterOutside
    \/ SendBlock
    \/ Unsend
    \/ Save
    \/ \E t \in {"none", "part", "flawed", "full"}, q \in BOOLEAN : TypeInLine(t, q)
    \/ QueryFull
    \/ FillTimes
    \/ RecvEnter
    \/ RecvEnterOutside
    \/ HeaderEnter
    \/ \E n \in 1..QtcLines : ParseHeader(n)
    \/ \E t \in {"part", "flawed", "full"} : ParseLine(t)
    \/ ResetTerminal
    \/ \E f \in {"later", "no"} : Mark(f)
    \/ Restart
    \/ MainWindow
    \/ Lan

Spec == Init /\ [][Next]_vars

-----------------------------------------------------------------------------
(* Properties.                                                             *)

LogLine  == [id : Nat, call : Calls]
SentLine == [qso : Nat, pos : Nat \ {0}, to : CallField, serial : Nat \ {0}, count : Nat]
RecvLogLine == [call : CallField, from : CallField, count : Int]
Counters == [recv : Nat, send : Nat, flag : {"none", "later", "no"}]
SendList == [call : CallField, serial : Nat, count : 0..QtcLines, total : Int,
             lines : [1..QtcLines -> [qso : Nat, pos : Nat \ {0}, flag : BOOLEAN, sent : BOOLEAN]]]
RecList  == [call : CallField, serial : Nat, count : {n \in Int : n <= QtcLines}, confirmed : Nat,
             lines : [1..QtcLines -> [text : {"none", "part", "flawed", "full"}, status : 0..2,
                                      confirmed : BOOLEAN, from : CallField]]]

DataOK ==
    /\ setup \in Setups
    /\ log \in Seq(LogLine) /\ made \in Nat /\ deleted \in Nat
    /\ sentLog \in Seq(SentLine) /\ recvLog \in Seq(RecvLogLine)
    /\ metaLog \subseteq (CallField \X {"later", "no"})
    /\ used \subseteq Nat \ {0} /\ nextQso \in Nat \ {0}
    /\ nrSent \in Nat /\ points \in Nat /\ store \in [CallField -> Counters]

TypeOK ==
    /\ DataOK
    /\ qtclist \in SendList /\ reclist \in RecList
    /\ window \in {"closed"} \cup setup.dirs
    /\ field \in 0..(LastRecv + 5) /\ prev \in CallField
    /\ nrParsed \in Nat /\ copied \in Nat /\ lastcall \in BOOLEAN

\* An operator who finishes one block before the next and leaves alone what the
\* list says; one node, nothing deleted.
Plain ==
    /\ setup.dirs = {"send"} /\ setup.lan = "none" /\ setup.maxDeletes = 0
    /\ setup.keys \subseteq {"mark"}

\* The ledger's view of the log and of QTC_sent.log.
Qsos  == IF Plain THEN log ELSE <<>>
Given == IF Plain THEN [i \in 1..Len(sentLog) |-> [qso |-> sentLog[i].qso, to |-> sentLog[i].to]]
         ELSE <<>>

\* genqtclist(), the window and the reading of the logs implement the ledger:
\* each QSO is passed on once, not to its own station, at most ten per station,
\* across restarts and blocks that were left unfinished.
Ledger == INSTANCE QtcLedger WITH
    Stations <- Calls, Limit <- QtcLines, qsos <- Qsos, given <- Given

LedgerKept == Ledger!Spec

\* What store_qtc() keeps up to date in memory is what readqtccalls() makes of
\* the files: flags, counters, points, and the QSOs on offer.  The serial may be
\* higher in memory after a deletion, never lower.
ReadBackSame ==
    /\ used = Positions(sentLog)
    /\ store = ReadStore(sentLog, recvLog, metaLog)
    /\ points = Len(sentLog) + Len(recvLog)
    /\ \A i \in 1..Len(sentLog) : sentLog[i].serial <= nrSent
    /\ setup.maxDeletes = 0 => nrSent \in {0} \cup {sentLog[i].serial : i \in 1..Len(sentLog)}
    /\ \A p \in 1..Len(log) :
           p \notin used => (p >= nextQso <=> p >= FirstFree(Positions(sentLog)))

\* A QSO is on offer as QTC until it is given away, by this node or another one.
OfferedUntilGiven ==
    (setup.lan # "other" /\ setup.maxDeletes = 0 /\ "beyond" \notin setup.keys) =>
        \A p \in 1..Len(log) :
            (p >= nextQso /\ p \notin used) <=>
                ~\E i \in 1..Len(sentLog) : sentLog[i].qso = log[p].id

\* The lines of a block that is stored were received from the station it is
\* stored under: manual, "TLF flushes the fields only in these cases: you
\* received all QSOs, and saved to disc; pressed ESC, and changed regular
\* callsign field".
OneStation == \A i \in 1..Len(recvLog) : recvLog[i].from = recvLog[i].call

FromOneStation == Cardinality(setup.dirs) = 1 => OneStation

\* What was confirmed with "R" is in the block that is stored, and a block is not
\* stored before as many lines were confirmed as were announced: unless the
\* operator changes lines that were confirmed.
ConfirmedIsStored ==
    [][ (setup.keys \cap {"edit", "fill"} = {} /\ window # window' /\ Len(recvLog') > Len(recvLog)) =>
            LET k    == RecvLine(field)
                done == {j \in 1..QtcLines : reclist.lines[j].confirmed}
                          \cup (IF k <= reclist.count /\ Accepted(reclist.lines[k]) THEN {k} ELSE {})
                new  == Len(recvLog') - Len(recvLog)
            IN  reclist.count <= Cardinality(done) /\ Cardinality(done) <= new ]_vars
=============================================================================
