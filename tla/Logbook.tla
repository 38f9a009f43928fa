------------------------------- MODULE Logbook -------------------------------
(***************************************************************************)
(* The life of a contest log: QSOs of the operator and of other nodes are  *)
(* scored and stored, entries are edited and deleted, the statistics are   *)
(* rebuilt from the log file, and the program may be killed at any moment. *)
(*                                                                         *)
(* The log exists three times: as lines of the file, as qso_array, and     *)
(* condensed into the statistics of module Scoring.  The thread interplay  *)
(* while the array is rebuilt is the subject of module BackgroundProcess;  *)
(* here entries of other nodes arrive only while the main thread waits for *)
(* keys, in callinput() or getexchange().                                  *)
(***************************************************************************)
EXTENDS Scoring, Sequences, SequencesExt

CONSTANTS Setups,      \* contest and station configurations to consider
          MaxTime,     \* bound: the clock of a minitest stops here
          MaxBackups   \* bound: so many backups that hold lost entries

VARIABLES
    setup,        \* contest rules, lan_active, radio moves during a QSO
    rig,          \* bandinx and trxmode
    now,          \* the clock
    file,         \* the lines of the log file
    backups,      \* the log files renamed by do_backup()
    qsoArray,     \* qso_array
    st,           \* the statistics
    wpxPrefix,    \* wpx_prefix
    current,      \* current_qso: call and dupe
    phase,        \* what the main thread is doing
    pos,          \* lines read or rewritten so far
    logChanged,   \* log_changed of readcalls()
    interactive   \* argument of readcalls()

memory == <<qsoArray, st, wpxPrefix, current, pos, logChanged, interactive>>
vars   == <<setup, rig, now, file, backups, memory, phase>>

contest == setup.contest

Note == [comment |-> "note"]

QsoLine == [call : Calls, band : Bands, mode : Modes, time : Nat,
            comment : Exchanges, points : Nat, mark : SUBSET Marks]
Line    == QsoLine \cup {Note}

\* calls are the stations on the air.  maxLog is a bound: no new entries once
\* the log has this many.
Setup == [contest : Contest, lan : BOOLEAN, rigMoves : BOOLEAN, calls : SUBSET Calls,
          maxLog : Nat]

ASSUME LogbookAssumption ==
    /\ Setups \subseteq Setup
    /\ MaxTime \in Nat /\ MaxBackups \in Nat

\* A rules file with UNIQUE_CALL has no other kind of multiplier.
ASSUME UniqueCallAssumption ==
    \A s \in Setups : s.contest.mult = "unique_call" =>
        s.contest.pfx = "none" /\ ~s.contest.zones /\ ~s.contest.dxSections

Phases == {"down", "reading", "asking", "rename", "rewriting",
           "callinput", "getexchange", "editing"}

NoQso == [call |-> None, dupe |-> FALSE]

\* Bounds: the log is short, and the story ends when a crash made a backup
\* the only place of some entries.
MayLog == Len(file) < setup.maxLog /\ Cardinality(backups) < MaxBackups

Ready == phase \in {"callinput", "getexchange"}

MakeLine(q, points, mark) ==
    [call |-> q.call, band |-> q.band, mode |-> q.mode, time |-> q.time,
     comment |-> q.comment, points |-> points, mark |-> mark]

\* A line without the two fields that scoring fills in.
Entry(line) == IF line = Note THEN Note ELSE [line EXCEPT !.points = 0, !.mark = {}]
Entries(lines) == [i \in DOMAIN lines |-> Entry(lines[i])]
EntrySet(lines) == {Entry(lines[i]) : i \in DOMAIN lines}

\* The prefix that addcall() adds.  getctydata() sets wpx_prefix in contests
\* that count a prefix once; in contests that count it per band it is what
\* searchlog() last set it to.  In other contests nobody looks at it.
Px(call) == IF contest.pfx = "once" THEN WpxPrefix[call] ELSE wpxPrefix

SearchlogPx(call) == IF contest.pfx = "band" THEN WpxPrefix[call] ELSE wpxPrefix

Init ==
    /\ setup \in Setups
    /\ rig \in [band : Bands, mode : {CWMODE}]
    /\ now = 1
    /\ file = <<>> /\ backups = {}
    /\ qsoArray = <<>> /\ st = InitScoring
    /\ wpxPrefix = None /\ current = NoQso
    /\ phase = "callinput" /\ pos = 0
    /\ logChanged = FALSE /\ interactive = TRUE

-----------------------------------------------------------------------------
(* Working a station.                                                      *)

\* Mutant: the dupe state of the call is not refreshed.
CallInput_NoDupeCheck(call) ==
    /\ phase = "callinput" /\ MayLog /\ call \in setup.calls
    /\ current' = [call |-> call, dupe |-> FALSE]
    /\ wpxPrefix' = SearchlogPx(call)
    /\ phase' = "getexchange"
    /\ UNCHANGED <<setup, rig, now, file, backups, qsoArray, st, pos, logChanged,
                   interactive>>

\* callinput() returns with a call: dupe state and prefix are those of now.
CallInput(call) ==
    /\ phase = "callinput" /\ MayLog /\ call \in setup.calls
    /\ current' = [call |-> call,
                   dupe |-> IsDupe(contest, st, call, rig.band, rig.mode, now, rig)]
    /\ wpxPrefix' = SearchlogPx(call)
    /\ phase' = "getexchange"
    /\ UNCHANGED <<setup, rig, now, file, backups, qsoArray, st, pos, logChanged,
                   interactive>>

\* The operator gives the station up.
Abandon ==
    /\ phase = "getexchange"
    /\ current' = NoQso /\ phase' = "callinput"
    /\ UNCHANGED <<setup, rig, now, file, backups, qsoArray, st, wpxPrefix, pos,
                   logChanged, interactive>>

\* log_to_disk(false).
LogQso(exchange) ==
    LET q      == [call |-> current.call, band |-> rig.band, mode |-> rig.mode,
                   time |-> now, comment |-> exchange]
        px     == Px(q.call)
        points == Score(contest, q, current.dupe)
        line   == MakeLine(q, points, Mark(contest, st, px, q))
    IN  /\ phase = "getexchange" /\ MayLog
        /\ st' = ScoreQso(AddCall(contest, st, px, q), points)
        /\ file' = Append(file, line)
        /\ qsoArray' = Append(qsoArray, line)
        /\ current' = NoQso /\ phase' = "callinput"
        /\ UNCHANGED <<setup, rig, now, backups, wpxPrefix, pos, logChanged,
                       interactive>>

\* What another node of the same contest sends: a QSO that is a dupe or not,
\* with the multipliers that it brings there as a first QSO, or with none.
LanQsos ==
    [call : setup.calls, band : Bands, mode : IF contest.mixed THEN Modes ELSE {CWMODE},
     time : {now}, comment : Exchanges]

PrintedBy(q, isNew) ==
    MakeLine(q, contest.points[CWMODE],
             IF isNew THEN Mark(contest, InitScoring, WpxPrefix[q.call], q) ELSE {})

\* log_to_disk(true).
LogLan ==
    /\ setup.lan /\ Ready /\ MayLog
    /\ \E q \in LanQsos, isNew, dupe \in BOOLEAN :
        LET printed == PrintedBy(q, isNew)
            line    == IF dupe THEN [printed EXCEPT !.points = 0] ELSE printed
        IN  /\ st' = AddCall2(contest, ScoreQso(st, line.points), line, rig)
            /\ file' = Append(file, line)
            /\ qsoArray' = Append(qsoArray, line)
    /\ UNCHANGED <<setup, rig, now, backups, wpxPrefix, current, phase, pos,
                   logChanged, interactive>>

IncludeNote ==
    /\ phase = "callinput" /\ MayLog
    /\ file' = Append(file, Note)
    /\ qsoArray' = Append(qsoArray, Note)
    /\ UNCHANGED <<setup, rig, now, backups, st, wpxPrefix, current, phase, pos,
                   logChanged, interactive>>

\* The operator changes band or mode between QSOs; the radio also may be
\* turned during one.
TuneRig ==
    /\ phase = "callinput" \/ (phase = "getexchange" /\ setup.rigMoves)
    /\ rig' \in [band : Bands, mode : IF contest.mixed THEN Modes ELSE {CWMODE}]
    /\ UNCHANGED <<setup, now, file, backups, memory, phase>>

Tick ==
    /\ contest.minitest > 0 /\ now < MaxTime
    /\ now' = now + 1
    /\ UNCHANGED <<setup, rig, file, backups, memory, phase>>

-----------------------------------------------------------------------------
(* Reading the log: readcalls() and do_backup().                           *)

\* Mutant: the total is not reset.
StartReading_KeepsTotal(ask) ==
    /\ phase' = "reading"
    /\ qsoArray' = <<>> /\ st' = [InitScoring EXCEPT !.total = st.total]
    /\ pos' = 0 /\ logChanged' = FALSE /\ interactive' = ask
    /\ current' = NoQso

\* Mutant: worked[] is not emptied.
StartReading_KeepsWorked(ask) ==
    /\ phase' = "reading"
    /\ qsoArray' = <<>>
    /\ st' = [InitScoring EXCEPT !.time = st.time, !.worked = st.worked]
    /\ pos' = 0 /\ logChanged' = FALSE /\ interactive' = ask
    /\ current' = NoQso

StartReading(ask) ==
    /\ phase' = "reading"
    /\ qsoArray' = <<>> /\ st' = InitScoring
    /\ pos' = 0 /\ logChanged' = FALSE /\ interactive' = ask
    /\ current' = NoQso

ReadNote ==
    /\ phase = "reading" /\ pos < Len(file) /\ file[pos + 1] = Note
    /\ qsoArray' = Append(qsoArray, Note)
    /\ pos' = pos + 1
    /\ UNCHANGED <<setup, rig, now, file, backups, st, wpxPrefix, current, phase,
                   logChanged, interactive>>

ReadQso ==
    LET q      == file[pos + 1]
        px     == Px(q.call)
        dupe   == IsDupe(contest, st, q.call, q.band, q.mode, now, rig)
        points == Score(contest, q, dupe)
        line   == MakeLine(q, points, Mark(contest, st, px, q))
    IN  /\ phase = "reading" /\ pos < Len(file) /\ file[pos + 1] # Note
        /\ st' = ScoreQso(AddCall(contest, st, px, q), points)
        /\ qsoArray' = Append(qsoArray, line)
        /\ logChanged' = (logChanged \/ line # q)
        /\ pos' = pos + 1
        /\ UNCHANGED <<setup, rig, now, file, backups, wpxPrefix, current, phase,
                       interactive>>

\* The main thread waits for keys again; the locals of readcalls() are gone.
ToCallInput ==
    /\ phase' = "callinput"
    /\ pos' = 0 /\ logChanged' = FALSE /\ interactive' = TRUE

ReadEnd ==
    /\ phase = "reading" /\ pos = Len(file)
    /\ IF logChanged
       THEN /\ phase' = IF interactive THEN "asking" ELSE "rename"
            /\ UNCHANGED <<pos, logChanged, interactive>>
       ELSE ToCallInput
    /\ UNCHANGED <<setup, rig, now, file, backups, qsoArray, st, wpxPrefix, current>>

\* "Log changed due to rescoring. Do you want to save it? Y/(N)"
Answer ==
    /\ phase = "asking"
    /\ \/ ToCallInput
       \/ /\ Cardinality(backups) < MaxBackups
          /\ phase' = "rename"
          /\ UNCHANGED <<pos, logChanged, interactive>>
    /\ UNCHANGED <<setup, rig, now, file, backups, qsoArray, st, wpxPrefix, current>>

\* Mutant: the log is truncated, not renamed.
Rename_Truncates ==
    /\ phase = "rename"
    /\ file' = <<>>
    /\ pos' = 0 /\ phase' = "rewriting"
    /\ UNCHANGED <<setup, rig, now, backups, qsoArray, st, wpxPrefix, current,
                   logChanged, interactive>>

Rename ==
    /\ phase = "rename"
    /\ backups' = backups \cup {file}
    /\ file' = <<>>
    /\ pos' = 0 /\ phase' = "rewriting"
    /\ UNCHANGED <<setup, rig, now, qsoArray, st, wpxPrefix, current, logChanged,
                   interactive>>

Rewrite ==
    /\ phase = "rewriting" /\ pos < Len(qsoArray)
    /\ file' = Append(file, qsoArray[pos + 1])
    /\ pos' = pos + 1
    /\ UNCHANGED <<setup, rig, now, backups, qsoArray, st, wpxPrefix, current,
                   phase, logChanged, interactive>>

\* From here on the model forgets backups whose entries are in the log.
RewriteEnd ==
    /\ phase = "rewriting" /\ pos = Len(qsoArray)
    /\ ToCallInput
    /\ backups' = {f \in backups : ~(EntrySet(f) \subseteq EntrySet(file))}
    /\ UNCHANGED <<setup, rig, now, file, qsoArray, st, wpxPrefix, current>>

-----------------------------------------------------------------------------
(* Changing the log.                                                       *)

MayRescore == phase = "callinput" /\ Cardinality(backups) < MaxBackups

\* :rescore
Rescore ==
    /\ MayRescore
    /\ StartReading(FALSE)
    /\ UNCHANGED <<setup, rig, now, file, backups, wpxPrefix>>

\* delete_qso() cuts off the last line, whatever it is.
DeleteQso ==
    /\ MayRescore /\ file # <<>>
    /\ file' = Front(file)
    /\ StartReading(FALSE)
    /\ UNCHANGED <<setup, rig, now, backups, wpxPrefix>>

\* edit_last(): one field of a QSO in the array is changed and the line is
\* written over the same line of the file.  Band and mode are one field; number
\* and reports, which can be edited, too, are not in these lines.
Edited(line) ==
    {[line EXCEPT !.call = c] : c \in setup.calls}
    \cup {[line EXCEPT !.band = place[1], !.mode = place[2]] : place \in Bands \X Modes}
    \cup {[line EXCEPT !.time = t] : t \in 1..now}
    \cup {[line EXCEPT !.comment = x] : x \in Exchanges}

EditQso ==
    /\ MayRescore
    /\ \E i \in DOMAIN qsoArray :
        /\ qsoArray[i] # Note
        /\ \E line \in Edited(qsoArray[i]) \ {qsoArray[i]} :
            /\ file' = [file EXCEPT ![i] = line]
            /\ qsoArray' = [qsoArray EXCEPT ![i] = line]
    /\ phase' = "editing"
    /\ UNCHANGED <<setup, rig, now, backups, st, wpxPrefix, current, pos,
                   logChanged, interactive>>

EndEdit ==
    /\ phase = "editing"
    /\ StartReading(FALSE)
    /\ UNCHANGED <<setup, rig, now, file, backups, wpxPrefix>>

-----------------------------------------------------------------------------
(* The program is killed, or left, at any moment and started again.        *)

Crash ==
    /\ phase # "down"
    /\ phase' = "down"
    /\ qsoArray' = <<>> /\ st' = InitScoring
    /\ wpxPrefix' = None /\ current' = NoQso
    /\ pos' = 0 /\ logChanged' = FALSE /\ interactive' = TRUE
    /\ UNCHANGED <<setup, rig, now, file, backups>>

\* checklogfile_new() creates a missing file; readcalls() asks.
Restart ==
    /\ phase = "down"
    /\ StartReading(TRUE)
    /\ UNCHANGED <<setup, rig, now, file, backups, wpxPrefix>>

Next ==
    \/ \E call \in Calls : CallInput(call)
    \/ \E exchange \in Exchanges : LogQso(exchange)
    \/ Abandon \/ LogLan \/ IncludeNote \/ TuneRig \/ Tick
    \/ ReadNote \/ ReadQso \/ ReadEnd \/ Answer \/ Rename \/ Rewrite \/ RewriteEnd
    \/ Rescore \/ DeleteQso \/ EditQso \/ EndEdit \/ Crash \/ Restart

Spec == Init /\ [][Next]_vars

-----------------------------------------------------------------------------
(* Properties.                                                             *)

(* Every variable has its type, and every cursor is inside its sequence. *)
TypeOK ==
    /\ setup \in Setups
    /\ rig \in [band : Bands, mode : Modes]
    /\ now \in Nat \ {0}
    /\ file \in Seq(Line) /\ qsoArray \in Seq(Line)
    /\ backups \subseteq Seq(Line)
    /\ st \in Stats
    /\ wpxPrefix \in WpxPrefixes \cup {None}
    /\ current \in [call : Calls \cup {None}, dupe : BOOLEAN]
    /\ phase = "getexchange" => current.call \in Calls
    /\ phase \in Phases /\ pos \in Nat
    /\ phase = "reading" => pos <= Len(file)
    /\ phase = "rewriting" => pos <= Len(qsoArray)
    /\ logChanged \in BOOLEAN /\ interactive \in BOOLEAN

\* Every score on the display is the number of distinct things worked: the
\* counters that addcall() and addcall2() keep next to the tables of
\* countries, zones and multipliers never drift away from them, through LAN
\* entries, deletions, rescoring and restarts.
CountersAgree == CountersMatch(st)

\* The same for the prefixes: nr_of_px counts every prefix once.
PrefixesAgree == PrefixesMatch(st)

PointsOf(line) == IF line = Note THEN 0 ELSE line.points

SumOfPoints(lines) ==
    LET sum[n \in 0..Len(lines)] ==
            IF n = 0 THEN 0 ELSE sum[n - 1] + PointsOf(lines[n])
    IN  sum[Len(lines)]

\* The points on the display are the sum of the points printed in the log,
\* also while the log is being read and for QSOs of other nodes.
TotalIsSumOfLog == phase # "down" => st.total = SumOfPoints(qsoArray)

\* Whenever the operator can work a station, line n of the file and entry n
\* of qso_array are about the same contact: editing depends on it.
ArrayMatchesFile == Ready \/ phase = "editing" => Entries(file) = Entries(qsoArray)

\* The books that are kept twice agree: the counters of the score window with the
\* flags of countries[], nr_of_px with prefixes_worked[] and the array of lines
\* with the log file, whatever was logged, noted, deleted, edited and reread.
BooksAgree == CountersAgree /\ PrefixesAgree /\ ArrayMatchesFile

\* worked[] knows exactly the stations in the log: a deleted or edited QSO
\* leaves no trace that makes a later one a dupe.
WorkedMatchesLog ==
    Ready => \A c \in Calls, m \in Modes, b \in Bands :
        st.time[c][m][b] # 0 <=>
            \E i \in DOMAIN qsoArray :
                /\ qsoArray[i] # Note
                /\ qsoArray[i].call = c /\ qsoArray[i].mode = m /\ qsoArray[i].band = b

\* No step but deleting or editing a QSO removes it from the disk: it is in
\* the log or in a backup, even when the program is killed while it rewrites
\* the log after rescoring.
OnDisk == EntrySet(file) \cup UNION {EntrySet(f) : f \in backups}
NothingLost == [][OnDisk \subseteq OnDisk' \/ DeleteQso \/ EditQso]_vars

\* Stations whose result depends only on the log: no QSOs of other nodes, no
\* radio moving under a QSO, no clock in the rules, no prefix per band.
Deterministic ==
    ~setup.lan /\ ~setup.rigMoves /\ contest.minitest = 0 /\ contest.pfx # "band"

\* One line of the log read again: r holds what was read before.
ReadLine(r, q) ==
    IF q = Note THEN [r EXCEPT !.lines = Append(@, Note)]
    ELSE LET px     == IF contest.pfx = "once" THEN WpxPrefix[q.call] ELSE None
             dupe   == IsDupe(contest, r.st, q.call, q.band, q.mode, now, rig)
             points == Score(contest, q, dupe)
         IN  [st    |-> ScoreQso(AddCall(contest, r.st, px, q), points),
              lines |-> Append(r.lines, MakeLine(q, points, Mark(contest, r.st, px, q)))]

\* readcalls() in one go.
Reread(lines) ==
    LET read[n \in 0..Len(lines)] ==
            IF n = 0 THEN [st |-> InitScoring, lines |-> <<>>]
            ELSE ReadLine(read[n - 1], lines[n])
    IN  read[Len(lines)]

\* The parts of the statistics that a restart must reproduce.
Result(stats) == [total |-> stats.total, mults |-> NrOfMults(contest, stats),
                  worked |-> stats.worked, time |-> stats.time,
                  qsos |-> stats.qsosPerBand]

\* Scoring QSO by QSO gives what reading the log again gives: a restart, or
\* rescoring, changes neither a line of the log nor the result.
RescoringChangesNothing ==
    Deterministic /\ Ready =>
        LET again == Reread(file)
        IN  Result(again.st) = Result(st) /\ again.lines = qsoArray

\* The rules of the contest, independent of how Tlf counts.
QsosOf(lines) == Range(lines) \ {Note}

EarlierQso(lines, i) ==
    \E j \in 1..(i - 1) :
        /\ lines[j] # Note /\ lines[j].call = lines[i].call
        /\ contest.qsoOnce \/ lines[j].band = lines[i].band
        /\ contest.mixed => lines[j].mode = lines[i].mode

NoPoints(lines, i) == ~contest.ignoreDupe /\ EarlierQso(lines, i)

ScoredByRules(lines, i) ==
    IF lines[i] = Note THEN Note
    ELSE [lines[i] EXCEPT !.points = IF NoPoints(lines, i) THEN 0
                                     ELSE contest.points[lines[i].mode]]

RulesPoints(lines) == SumOfPoints([i \in DOMAIN lines |-> ScoredByRules(lines, i)])

PerBandMode(name, q) ==
    CASE MultMode(contest, q) = "once" -> <<name>>
      [] MultMode(contest, q) = "band" -> <<name, q.band>>
      [] OTHER                         -> <<name, q.band, q.mode>>

RulesMults(q) ==
    LET home == Country[q.call] \in HomeCountries
        vetoed == Country[q.call] \in contest.excluded
        nobody == Country[q.call] = NoCountry
    IN  IF contest.dxSections
        THEN IF home THEN {<<x, q.band>> : x \in {q.comment} \cap Sections}
             ELSE IF vetoed \/ nobody THEN {} ELSE {<<"country", Country[q.call], q.band>>}
        ELSE IF contest.mult # "none"
        THEN CASE contest.mult = "section" -> {PerBandMode(x, q) : x \in {q.comment} \cap Sections}
               [] contest.mult = "wysiwyg" -> {PerBandMode(q.comment, q)}
               [] OTHER                    -> {PerBandMode(q.call, q)}
        ELSE IF contest.pfx = "once" THEN {<<WpxPrefix[q.call]>>}
        ELSE IF contest.zones /\ ~vetoed THEN {<<x, q.band>> : x \in {q.comment} \cap Zones}
        ELSE {}

\* worked[].band leaves out the stations that addcall() does not add, and with
\* MIXED a station of a QSO_ONCE contest counts again on another band.
DupesAsInRules ==
    ~contest.dxSections /\ contest.excluded = {} /\ ~(contest.qsoOnce /\ contest.mixed)

\* Countries and sections are the multipliers, or others are.
OneKindOfMult == contest.dxSections => contest.mult = "none"
HasMults ==
    contest.dxSections \/ contest.mult # "none" \/ contest.pfx = "once" \/ contest.zones

\* With rules that depend on the log only, the score is the one of the rules: each
\* station counts once, and each multiplier once per contest, band or band and
\* mode, however the log came about; without multipliers the points are the score.
ScoreByTheRules ==
    Deterministic /\ Ready =>
        /\ DupesAsInRules => st.total = RulesPoints(qsoArray)
        /\ OneKindOfMult =>
               NrOfMults(contest, st) =
                   IF HasMults THEN Cardinality(UNION {RulesMults(q) : q \in QsosOf(qsoArray)})
                   ELSE 1

=============================================================================
