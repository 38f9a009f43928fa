-------------------------------- MODULE Cabrillo --------------------------------
(***************************************************************************)
(* The log on its way to the contest and back: write_cabrillo() merges the *)
(* log with the two QTC logs by line numbers and times, readcabrillo()     *)
(* builds the three logs again from the one file (writecabrillo.c,         *)
(* readcabrillo.c).                                                        *)
(*                                                                         *)
(* A line of a file is a record; columns and widths are left out, except   *)
(* that a value may be too wide for its column.                            *)
(***************************************************************************)
EXTENDS Naturals, Sequences, SequencesExt, FiniteSetsExt

CONSTANTS Setups,   \* what may happen in the contest, and for how many minutes
          Calls,    \* stations worked
          MaxLog,   \* bound on lines of the log
          MaxQtcs   \* bound on QTCs of each direction

ASSUME BoundAssumption == MaxLog \in Nat /\ MaxQtcs \in Nat

VARIABLES
    setup,
    clock,     \* minutes since the start of the contest
    log,       \* the log: contacts and notes
    qtcs,      \* QTC_sent.log and QTC_recv.log
    phase,     \* what the program does
    reader,    \* write_cabrillo(): positions in the three logs
    out,       \* the Cabrillo file
    adif,      \* the ADIF file
    imported   \* readcabrillo(): the logs it has built so far

vars == <<setup, clock, log, qtcs, phase, reader, out, adif, imported>>

Directions == {"send", "recv"}
Modes      == {"CW", "PH", "DG"}
None       == 0

Note == [kind |-> "note"]

AtStart == [line |-> 0, qsonr |-> 0, ok |-> TRUE,
            head |-> [d \in Directions |-> None],    \* the record read, None at the end
            read |-> [d \in Directions |-> 0],       \* records read so far
            nr   |-> [d \in Directions |-> 0]]       \* qtcsentnr, qtcrecnr

NoLogs == [line |-> 0, log |-> <<>>, used |-> {}, from |-> 1, send |-> <<>>, recv |-> <<>>]

Init ==
    /\ setup \in Setups
    /\ clock = 1 /\ log = <<>> /\ qtcs = [d \in Directions |-> <<>>]
    /\ phase = "contest" /\ reader = AtStart /\ out = <<>> /\ adif = <<>> /\ imported = NoLogs

-----------------------------------------------------------------------------
(* The contest.                                                            *)

Tick ==
    /\ phase = "contest" /\ clock < setup.minutes /\ clock' = clock + 1
    /\ UNCHANGED <<setup, log, qtcs, phase, reader, out, adif, imported>>

IsQso(entry) == entry.kind = "qso"

Contacts == {l \in ToSet(log) : IsQso(l)}

\* A setup may take at least a minute for each contact and for each QTC.
Dated == Contacts \cup ToSet(qtcs["send"]) \cup ToSet(qtcs["recv"])

LogQso ==
    /\ phase = "contest" /\ Len(log) < MaxLog
    /\ setup.slow => \A l \in Dated : l.time < clock
    /\ \E call \in Calls, mode \in setup.modes, wide \in setup.wide :
           log' = Append(log, [kind |-> "qso", call |-> call, time |-> clock, mode |-> mode,
                               wide |-> wide])
    /\ UNCHANGED <<setup, clock, qtcs, phase, reader, out, adif, imported>>

LogNote ==
    /\ phase = "contest" /\ setup.notes /\ Len(log) < MaxLog
    /\ log' = Append(log, Note)
    /\ UNCHANGED <<setup, clock, qtcs, phase, reader, out, adif, imported>>

\* The QTCs at the end of their logs that are of the station whose contact
\* is deleted go with it.
Without(lines, call) ==
    LET others == {n \in DOMAIN lines : lines[n].to # call}
    IN  SubSeq(lines, 1, Max(others \cup {0}))

\* delete_qso() cuts off the last line, whatever it is.
DeleteQso ==
    /\ phase = "contest" /\ setup.deletes /\ log # <<>>
    /\ log' = Front(log)
    /\ qtcs' = IF IsQso(Last(log)) THEN [d \in Directions |-> Without(qtcs[d], Last(log).call)]
               ELSE qtcs
    /\ UNCHANGED <<setup, clock, phase, reader, out, adif, imported>>

\* A QTC is logged with the number of lines of the log, NR_QSOS, notes
\* included.  A QTC sent names a contact by its time and its call.
LogQtc(d) ==
    /\ phase = "contest" /\ Len(qtcs[d]) < MaxQtcs
    /\ \E mode \in setup.modes, wide \in setup.wide, to \in Calls, p \in (IF d = "recv" THEN {None} ELSE DOMAIN log) :
        /\ d = "send" => IsQso(log[p]) /\ log[p].call # to /\ \A l \in ToSet(qtcs[d]) : l.pos # p
        /\ d = "recv" => log # <<>> \/ setup.early
        /\ setup.slow => \A l \in Contacts : l.time < clock
        /\ qtcs' = [qtcs EXCEPT ![d] = Append(@,
                       [kind |-> d, nr |-> Len(log), time |-> clock, mode |-> mode, wide |-> wide, to |-> to, pos |-> p,
                        of |-> IF d = "send" THEN <<log[p].call, log[p].time>> ELSE <<>>])]
    /\ UNCHANGED <<setup, clock, log, phase, reader, out, adif, imported>>

-----------------------------------------------------------------------------
(* write_cabrillo().                                                       *)

\* get_next_record(): the first line after this one that is no note.
NextQso(line) == SelectInSubSeq(log, line + 1, Len(log), IsQso)

\* What parse_logline() and get_next_qtc_record() make of the mode: logs of
\* QTCs have PH, which the parser does not know.
ModeRead(l) == IF l.kind # "qso" /\ l.mode = "PH" THEN "DG" ELSE l.mode

PrepareLine(l) == [l EXCEPT !.mode = ModeRead(l)]

\* process_record(): a value that is too wide replaces the line by an error.
Processed(l) == IF l.wide THEN [kind |-> "error"] ELSE PrepareLine(l)

\* A record is read if there is none at hand.
Fetch(r, d) ==
    LET next == r.read[d] + 1 IN
    IF r.head[d] # None \/ next > Len(qtcs[d]) THEN r
    ELSE [r EXCEPT !.head[d] = next, !.read[d] = next, !.nr[d] = qtcs[d][next].nr]

WriteCabrillo ==
    /\ phase = "contest" /\ phase' = "export" /\ reader' = AtStart /\ out' = <<>>
    /\ UNCHANGED <<setup, clock, log, qtcs, adif, imported>>

\* QTCs follow the contact with their number ...
QtcFollows(r) == r.ok /\ r.qsonr > 0 /\ \E d \in Directions : r.nr[d] = r.qsonr

ExportQso ==
    LET line == NextQso(reader.line) IN
    /\ phase = "export" /\ reader.ok /\ ~QtcFollows(reader) /\ line # 0
    /\ LET r == [reader EXCEPT !.line = line, !.qsonr = @ + 1]
       IN  /\ out' = Append(out, Processed(log[line]))
           /\ reader' = IF log[line].wide THEN [r EXCEPT !.ok = FALSE]
                        ELSE Fetch(Fetch(r, "recv"), "send")
    /\ UNCHANGED <<setup, clock, log, qtcs, phase, adif, imported>>

\* ... the earlier one first.
Earlier(r) ==
    IF \/ r.head["send"] = None
       \/ /\ r.head["recv"] # None
          /\ qtcs["recv"][r.head["recv"]].time < qtcs["send"][r.head["send"]].time
    THEN "recv" ELSE "send"

\* Mutant: the numbers are compared once per contact only.
ExportQtc_Mutation ==
    /\ phase = "export" /\ QtcFollows(reader)
    /\ LET d == Earlier(reader)
           l == qtcs[d][reader.head[d]]
           r == Fetch([reader EXCEPT !.head[d] = None, !.nr[d] = 0], d)
       IN  /\ out' = Append(out, Processed(l))
           /\ reader' = [r EXCEPT !.nr[d] = 0, !.ok = ~l.wide]
    /\ UNCHANGED <<setup, clock, log, qtcs, phase, adif, imported>>

\* An error ends the export, but the next QTC is read before.
ExportQtc ==
    /\ phase = "export" /\ QtcFollows(reader)
    /\ LET d == Earlier(reader)
           l == qtcs[d][reader.head[d]]
           r == Fetch([reader EXCEPT !.head[d] = None, !.nr[d] = 0], d)
       IN  /\ out' = Append(out, Processed(l))
           /\ reader' = [r EXCEPT !.ok = ~l.wide]
    /\ UNCHANGED <<setup, clock, log, qtcs, phase, adif, imported>>

EndExport ==
    /\ phase = "export" /\ ~QtcFollows(reader)
    /\ reader.ok => NextQso(reader.line) = 0
    /\ phase' = "exported"
    /\ UNCHANGED <<setup, clock, log, qtcs, reader, out, adif, imported>>

WriteAdif ==
    /\ phase = "exported" /\ adif = <<>>
    /\ adif' = SelectSeq(log, IsQso)
    /\ UNCHANGED <<setup, clock, log, qtcs, phase, reader, out, imported>>

-----------------------------------------------------------------------------
(* readcabrillo().                                                         *)

ReadCabrillo ==
    /\ phase = "exported" /\ phase' = "import" /\ imported' = NoLogs
    /\ UNCHANGED <<setup, clock, log, qtcs, reader, out, adif>>

\* write_log_fm_cabr()
ImportQso(i, l) == [i EXCEPT !.log = Append(@, l)]

\* write_qtclog_fm_cabr(): a contact of that call and time that is not yet
\* used, searched from the first one that is not; the reset at the start of
\* a block changes nothing, because each search already returns there.
Fits(i, l, p) == p \notin i.used /\ <<i.log[p].call, i.log[p].time>> = l.of

\* Mutant: the search goes on where the last one has ended.
ImportSent_Mutation(i, l) ==
    LET p == SelectInSubSeq([q \in DOMAIN i.log |-> q], i.from, Len(i.log),
                            LAMBDA q : Fits(i, l, q))
    IN  [i EXCEPT !.send = Append(@, [pos |-> p, nr |-> Len(i.log)]),
                  !.used = IF p = 0 THEN @ ELSE @ \cup {p},
                  !.from = IF p # 0 THEN p + 1 ELSE @]

ImportSent(i, l) ==
    LET p == SelectInSubSeq([q \in DOMAIN i.log |-> q], i.from, Len(i.log),
                            LAMBDA q : Fits(i, l, q))
    IN  [i EXCEPT !.send = Append(@, [pos |-> p, nr |-> Len(i.log)]),
                  !.used = IF p = 0 THEN @ ELSE @ \cup {p},
                  !.from = IF p = i.from THEN p + 1 ELSE @]

ImportReceived(i, l) == [i EXCEPT !.recv = Append(@, [pos |-> None, nr |-> Len(i.log)])]

\* cab_qso_to_tlf(): the kind of line decides; other lines are skipped.
ImportLine ==
    /\ phase = "import" /\ imported.line < Len(out)
    /\ LET l == out[imported.line + 1]
           i == [imported EXCEPT !.line = @ + 1]
       IN  imported' = CASE l.kind = "qso"  -> ImportQso(i, l)
                         [] l.kind = "send" -> ImportSent(i, l)
                         [] l.kind = "recv" -> ImportReceived(i, l)
                         [] OTHER           -> i
    /\ UNCHANGED <<setup, clock, log, qtcs, phase, reader, out, adif>>

EndImport ==
    /\ phase = "import" /\ imported.line = Len(out) /\ phase' = "imported"
    /\ UNCHANGED <<setup, clock, log, qtcs, reader, out, adif, imported>>

Contest == Tick \/ LogQso \/ LogNote \/ DeleteQso \/ LogQtc("send") \/ LogQtc("recv")

Export == WriteCabrillo \/ ExportQso \/ ExportQtc \/ EndExport \/ WriteAdif

Import == ReadCabrillo \/ ImportLine \/ EndImport

Next == Contest \/ Export \/ Import

Spec == Init /\ [][Next]_vars

-----------------------------------------------------------------------------
(* Properties.                                                             *)

\* The lines of one kind, in order: what SelectSeq() returns, as a function that
\* proofs can look into.
OfKind(lines, kind) ==
    LET of[n \in 0 .. Len(lines)] ==
            IF n = 0 THEN <<>>
            ELSE IF lines[n].kind = kind THEN Append(of[n - 1], lines[n]) ELSE of[n - 1]
    IN  of[Len(lines)]

Simple == ~setup.notes /\ ~setup.deletes /\ ~setup.early

\* The file has all contacts in order unless a value was too wide; and all
\* QTCs, once, in the order of their log, and none before a line that is
\* older, as long as the log has no notes and lost no contacts.  The merge
\* compares a count of contacts with numbers that were counted otherwise,
\* and a QTC that is never reached blocks all that follow.
Complete ==
    phase = "exported" /\ reader.ok =>
        /\ OfKind(out, "qso") = OfKind(log, "qso")
        /\ Simple => /\ \A d \in Directions :
                           OfKind(out, d) = [k \in DOMAIN qtcs[d] |-> PrepareLine(qtcs[d][k])]
                     /\ \A i, j \in DOMAIN out : i < j => out[i].time <= out[j].time

\* Exported and read back, every QTC sent belongs to a contact of its own
\* with the call and time it quotes, and every QTC to the place in the log
\* where it was exchanged.
RoundTrip ==
    phase = "imported" /\ reader.ok /\ Simple /\ setup.slow =>
        /\ \A k \in DOMAIN imported.send :
            LET p == imported.send[k].pos
            IN  p # None /\ <<log[p].call, log[p].time>> = qtcs["send"][k].of
        /\ IsInjective([k \in DOMAIN imported.send |-> imported.send[k].pos])
        /\ \A d \in Directions :
            [k \in DOMAIN imported[d] |-> imported[d][k].nr] = [k \in DOMAIN qtcs[d] |-> qtcs[d][k].nr]

=============================================================================
