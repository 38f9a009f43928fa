--------------------------------- MODULE Config ---------------------------------
(***************************************************************************)
(* The configuration: logcfg.dat and the rules file of the contest are     *)
(* read line by line, later lines over earlier ones, the program checks    *)
(* what it needs and opens its devices, and :CFG reads both files again    *)
(* while it runs (parse_logcfg.c, rules.c, setcontest.c, main.c,           *)
(* cabrillo_utils.c, changepars.c).                                        *)
(*                                                                         *)
(* A line is a record of keyword and parameter.  One keyword stands for    *)
(* all that are handled by the same function in the same way.              *)
(***************************************************************************)
EXTENDS Naturals, Sequences, Functions, FiniteSetsExt, CabrilloFields

CONSTANTS Starts,    \* lines that may occur, rules files, bounds
          MaxNodes   \* bc_hostaddress[] has that many entries

ASSUME NodesAssumption == MaxNodes \in Nat

\* All lines that occur in a file.
ConfigLines ==
    UNION {x.lines \cup x.edits \cup UNION {Range(x.rules[c]) : c \in DOMAIN x.rules} : x \in Starts}

ASSUME StartsAssumption ==
    /\ \A x \in Starts : \A c \in DOMAIN x.rules : x.rules[c] \in Seq(ConfigLines)
    /\ \A l \in ConfigLines :
          /\ l.key = "CABRILLO-TEMPLATE" => l.template \in Seq([field : STRING, value : STRING])
          /\ l.key \in {"NODE_X", "THISNODE"} => l.node \in Nat

VARIABLES
    start,
    stage,    \* what main() does
    lines,    \* logcfg.dat as far as it was read
    rules,    \* the rules file that was read last (history)
    s,        \* the settings, and if the last reading went without error
    open,     \* nodes with an open socket, and the keyer's port
    kept,     \* settings before :CFG read the files again (history)
    edited,   \* logcfg.dat was changed since the start (history)
    header    \* header of the last Cabrillo file

configVars == <<start, stage, lines, rules, s, open, kept, edited, header>>

Missing == "no parameter"
Bad     == "bad"             \* any parameter the handler rejects

NodeIds == 0 .. MaxNodes - 1

\* The contests that setcontest() treats differently.
Contests == {"qso", "wpx", "arrl_ss", "arrldx_dx", "other"}

lookup_contest(name) == IF name \in Contests \ {"other"} THEN name ELSE "other"

Defaults ==
    [ok |-> TRUE, call |-> "", qra |-> NoValue, whichcontest |-> "qso", contest |-> "qso",
     iscontest |-> FALSE, showscore_flag |-> FALSE, searchflg |-> FALSE, sectn_mult |-> "NONE",
     qso_once |-> FALSE, leading_zeros |-> TRUE, multlist |-> FALSE, multsfile |-> "",
     points |-> [c \in Contests |-> IF c = "arrl_ss" THEN "2" ELSE
                                    IF c = "arrldx_dx" THEN "3" ELSE "own"],
     recall_mult |-> [c \in Contests |-> c = "arrldx_dx"],
     dx_sections |-> FALSE, countrylist |-> "", continentlist |-> "", exclude |-> "NONE",
     pfxnummulti |-> "",
     nodes |-> 0, named |-> FALSE, host |-> [n \in NodeIds |-> ""], lan_active |-> FALSE,
     thisnode |-> 0, cwkeyer |-> "NO", digikeyer |-> "NO", port |-> "", trxmode |-> "CW", digital_mode |-> "",
     trx_control |-> FALSE, packet |-> "NONE", fixedmult |-> "0", bandweight |-> "",
     qtc |-> "NONE", qtc_recv_lazy |-> FALSE, cluster |-> "NOCLUSTER", filter |-> "",
     minitest |-> "0", change_rst |-> FALSE, rst |-> "", corners |-> "", cqdelay |-> "8",
     logfile |-> "general.log", message |-> "", digi_message |-> NoValue,
     cabrillo |-> NoValue, cab |-> cabrillo_fields]

Fail(x) == [x EXCEPT !.ok = FALSE]

-----------------------------------------------------------------------------
(* Handlers of the keywords.                                               *)

\* setcontest() also resets what lines before it may have set.
SetContest(x, name) ==
    LET c == lookup_contest(name) IN
    [x EXCEPT !.whichcontest = name, !.contest = c,
              !.iscontest = c # "qso", !.showscore_flag = c # "qso", !.searchflg = TRUE,
              !.sectn_mult = IF c = "arrldx_dx" THEN "ONCE" ELSE "NONE",
              !.qso_once = @ \/ c = "arrl_ss", !.multlist = @ \/ c = "arrl_ss",
              !.leading_zeros = @ /\ c # "arrl_ss"]

cfg_contest_Mutation(x, val) ==          \* Mutant: the name of the log is reset, too
    IF val = Bad THEN Fail(x) ELSE [SetContest(x, val) EXCEPT !.logfile = "general.log"]

cfg_contest(x, val) == IF val = Bad THEN Fail(x) ELSE SetContest(x, val)

Truth(val) == val \in {Missing, "ON"}

cfg_bool(x, field, val) ==
    IF val \notin {Missing, "ON", "OFF"} THEN Fail(x) ELSE [x EXCEPT ![field] = Truth(val)]

cfg_contest_bool(x, val) ==
    IF val \notin {Missing, "ON", "OFF"} THEN Fail(x)
    ELSE [x EXCEPT !.recall_mult[x.contest] = Truth(val)]

\* Strings and integers; too long or out of range is bad.
cfg_string(x, field, val) == IF val = Bad THEN Fail(x) ELSE [x EXCEPT ![field] = val]

cfg_int_const(x, field, value) == [x EXCEPT ![field] = value]

\* The call is written before it is found to be too short.
cfg_call(x, val) == [x EXCEPT !.call = val, !.ok = val # Bad]

cfg_myqra(x, val) == [x EXCEPT !.qra = val, !.ok = val # Bad]

cfg_n_points(x, n) == [x EXCEPT !.points[x.contest] = n]

cfg_mult_list(x, val) ==
    IF val = Bad THEN Fail(x) ELSE [x EXCEPT !.multsfile = val, !.multlist = TRUE]

cfg_dx_n_sections(x) == SetContest([x EXCEPT !.dx_sections = TRUE], x.whichcontest)

\* A prefix that is too long leaves the list half read.
cfg_countrylist(x, val) ==
    IF val = Bad THEN Fail([x EXCEPT !.countrylist = "part"])
    ELSE SetContest([x EXCEPT !.countrylist = val], x.whichcontest)

\* The prefixes replace those of an earlier line.
cfg_pfx_num_multis(x, val) == SetContest([x EXCEPT !.pfxnummulti = val], x.whichcontest)

cfg_continentlist(x, val) ==
    IF val = Bad THEN Fail([x EXCEPT !.continentlist = "part"])
    ELSE SetContest([x EXCEPT !.continentlist = val], x.whichcontest)

cfg_exclude_multilist(x, val) ==
    CASE val = "CONTINENTLIST" /\ x.continentlist # "" -> [x EXCEPT !.exclude = "CONTINENT"]
      [] val = "COUNTRYLIST" /\ x.countrylist # "" -> [x EXCEPT !.exclude = "COUNTRY"]
      [] OTHER -> Fail(x)

set_multi_mode(x, val) ==
    IF val \notin {"ONCE", "BAND", "BAND+MODE", "NONE"} THEN Fail(x)
    ELSE [x EXCEPT !.sectn_mult = val]

\* A truth value is taken for the multiplier per band or none.
cfg_section_mult(x, val) ==
    IF val \in {Missing, "ON", "OFF"}
    THEN [x EXCEPT !.sectn_mult = IF Truth(val) THEN "BAND" ELSE "NONE"]
    ELSE set_multi_mode(x, val)

\* Only the first multiplier above zero counts; so does the first list of
\* band weights, which is kept in a static variable.
cfg_powermult(x, val) == [x EXCEPT !.fixedmult = IF @ = "0" THEN val ELSE @]

cfg_bandweight(x, val) == [x EXCEPT !.bandweight = IF @ = "" THEN val ELSE @]

parse_node(x, n, val) == [x EXCEPT !.host[n] = val, !.lan_active = TRUE]

cfg_addnode(x, val) ==
    IF x.named \/ x.nodes >= MaxNodes THEN Fail(x)
    ELSE [parse_node(x, x.nodes, val) EXCEPT !.nodes = @ + 1]

cfg_node_x(x, n, val) ==
    IF n >= MaxNodes \/ (~x.named /\ x.nodes > 0) THEN Fail(x)
    ELSE [parse_node(x, n, val) EXCEPT !.named = TRUE, !.nodes = Max({@, n + 1})]

cfg_thisnode(x, n) == IF n >= MaxNodes THEN Fail(x) ELSE [x EXCEPT !.thisnode = n]

cfg_mfj1278_keyer(x, val) ==
    IF val = Bad THEN Fail(x)
    ELSE [x EXCEPT !.port = val, !.cwkeyer = "MFJ", !.digikeyer = "MFJ"]

cfg_gmfsk(x, val) ==
    IF val = Bad THEN Fail(x)
    ELSE [x EXCEPT !.port = val, !.digikeyer = "GMFSK", !.trxmode = "DIGI"]

cfg_fldigi(x, val) ==
    IF val = Bad THEN Fail(x)
    ELSE [x EXCEPT !.digikeyer = "FLDIGI", !.trxmode = "DIGI"]

cfg_rttymode(x) == [x EXCEPT !.trxmode = "DIGI", !.digital_mode = "RTTY"]

cfg_telnetport(x, val) == IF val = Bad THEN Fail(x) ELSE [x EXCEPT !.packet = "TELNET"]

cfg_tncport(x) == [x EXCEPT !.packet = "TNC"]

cfg_bandmap(x, val) ==
    [x EXCEPT !.cluster = "MAP", !.filter = IF val = Missing THEN "" ELSE val]

cfg_change_rst(x, val) ==
    IF val = Bad THEN Fail([x EXCEPT !.change_rst = TRUE])
    ELSE [x EXCEPT !.change_rst = TRUE, !.rst = IF val = Missing THEN "" ELSE val]

cfg_minitest(x, val) ==
    IF val = Bad THEN Fail(x)
    ELSE [x EXCEPT !.minitest = IF val = Missing THEN "600" ELSE val]

\* All four frequencies or none.
cfg_band(x, val) == cfg_string(x, "corners", val)

cfg_qtc(x, val) ==
    IF val \notin {"RECV", "SEND", "BOTH"} THEN Fail(x) ELSE [x EXCEPT !.qtc = val]

\* The fields of the header and the format, as they were and after a line.
HeaderOf(x) == [fields |-> x.cab, format |-> x.cabrillo, ok |-> TRUE]

With(x, r) == [x EXCEPT !.cab = r.fields, !.cabrillo = r.format, !.ok = r.ok]

cfg_cabrillo_field(x, field, val) ==
    With(x, AddCabrilloField(HeaderOf(x), field, IF val = Missing THEN NoValue ELSE val))

cfg_cabrillo_template(x, val) == With(x, ReadTemplate(HeaderOf(x), val))

-----------------------------------------------------------------------------
(* The table of keywords.                                                  *)

Flags == [CONTEST_MODE |-> "iscontest", SCOREWINDOW |-> "showscore_flag", CHECKWINDOW |-> "searchflg",
          RADIO_CONTROL |-> "trx_control", QTC_RECV_LAZY |-> "qtc_recv_lazy",
          LEADING_ZEROS_SERIAL |-> "leading_zeros"]
Texts == [LOGFILE |-> "logfile", CQDELAY |-> "cqdelay", F1 |-> "message",
          DKF1 |-> "digi_message", CABRILLO |-> "cabrillo", DIGITAL_MODE |-> "digital_mode"]

Selections == [NETKEYER |-> <<"cwkeyer", "NET">>, HAMLIB_KEYER |-> <<"cwkeyer", "HAMLIB">>,
               SSBMODE |-> <<"trxmode", "SSB">>, FIFO_INTERFACE |-> <<"packet", "FIFO">>,
               CLUSTER |-> <<"cluster", "CLUSTER">>]

NoParam  == {"ONE_POINT", "TWO_POINTS", "DX_&_SECTIONS", "RTTYMODE"} \cup DOMAIN Selections
Optional == DOMAIN Flags \cup {"RECALL_MULTS", "SECTION_MULT", "BANDMAP", "CHANGE_RST", "FLDIGI",
                               "MINITEST", "CABRILLO-FIELD"}

Keywords == NoParam \cup Optional \cup DOMAIN Texts \cup
    {"CALL", "MYQRA", "CONTEST", "MULT_LIST", "COUNTRYLIST", "CONTINENTLIST",
     "EXCLUDE_MULTILIST", "PFX_NUM_MULTIS", "POWERMULT",
     "BANDWEIGHT_POINTS", "ADDNODE", "NODE_X", "THISNODE", "MFJ1278_KEYER", "GMFSK",
     "TELNETPORT", "TNCPORT", "BAND_X", "QTC", "CABRILLO-TEMPLATE"}

\* apply_config(): the keyword with or without parameter, as it needs it.
Refused(l) ==
    \/ l.key \notin Keywords
    \/ l.key \in NoParam /\ l.val # Missing
    \/ l.key \notin NoParam \cup Optional /\ l.val = Missing

Handled(x, l) ==
    LET k == l.key
        v == l.val
    IN  CASE k \in DOMAIN Flags        -> cfg_bool(x, Flags[k], v)
          [] k \in DOMAIN Texts        -> cfg_string(x, Texts[k], v)
          [] k \in DOMAIN Selections   -> cfg_int_const(x, Selections[k][1], Selections[k][2])
          [] k = "RECALL_MULTS"        -> cfg_contest_bool(x, v)
          [] k = "ONE_POINT"           -> cfg_n_points(x, "1")
          [] k = "TWO_POINTS"          -> cfg_n_points(x, "2")
          [] k = "DX_&_SECTIONS"       -> cfg_dx_n_sections(x)
          [] k = "RTTYMODE"            -> cfg_rttymode(x)
          [] k = "CALL"                -> cfg_call(x, v)
          [] k = "MYQRA"               -> cfg_myqra(x, v)
          [] k = "CONTEST"             -> cfg_contest(x, v)
          [] k = "MULT_LIST"           -> cfg_mult_list(x, v)
          [] k = "COUNTRYLIST"         -> cfg_countrylist(x, v)
          [] k = "PFX_NUM_MULTIS"      -> cfg_pfx_num_multis(x, v)
          [] k = "CONTINENTLIST"       -> cfg_continentlist(x, v)
          [] k = "EXCLUDE_MULTILIST"   -> cfg_exclude_multilist(x, v)
          [] k = "SECTION_MULT"        -> cfg_section_mult(x, v)
          [] k = "POWERMULT"           -> cfg_powermult(x, v)
          [] k = "BANDWEIGHT_POINTS"   -> cfg_bandweight(x, v)
          [] k = "ADDNODE"             -> cfg_addnode(x, v)
          [] k = "NODE_X"              -> cfg_node_x(x, l.node, v)
          [] k = "THISNODE"            -> cfg_thisnode(x, l.node)
          [] k = "MFJ1278_KEYER"       -> cfg_mfj1278_keyer(x, v)
          [] k = "GMFSK"               -> cfg_gmfsk(x, v)
          [] k = "FLDIGI"              -> cfg_fldigi(x, v)
          [] k = "TELNETPORT"          -> cfg_telnetport(x, v)
          [] k = "TNCPORT"             -> cfg_tncport(x)
          [] k = "BANDMAP"             -> cfg_bandmap(x, v)
          [] k = "CHANGE_RST"          -> cfg_change_rst(x, v)
          [] k = "MINITEST"            -> cfg_minitest(x, v)
          [] k = "BAND_X"              -> cfg_band(x, v)
          [] k = "QTC"                 -> cfg_qtc(x, v)
          [] k = "CABRILLO-FIELD"      -> cfg_cabrillo_field(x, l.field, v)
          [] k = "CABRILLO-TEMPLATE"   -> cfg_cabrillo_template(x, l.template)

Apply(x, l) == IF Refused(l) THEN Fail(x) ELSE Handled(x, l)

\* parse_configfile(): up to the first line with an error.
ReadFile(x, file) ==
    LET read[n \in 0 .. Len(file)] ==
            IF n = 0 THEN x
            ELSE IF read[n - 1].ok THEN Apply(read[n - 1], file[n]) ELSE read[n - 1]
    IN  read[Len(file)]

\* The rules file is the one of the contest; it may be missing.
RulesFile(x) == IF x.whichcontest \in DOMAIN start.rules THEN start.rules[x.whichcontest] ELSE <<>>

ReadRules_Mutation(x) ==                 \* Mutant: the CW messages are copied in any case
    LET found == x.whichcontest \in DOMAIN start.rules
        y == IF found THEN ReadFile(x, start.rules[x.whichcontest])
             ELSE [SetContest(x, "qso") EXCEPT !.logfile = "qso.log"]
    IN  [y EXCEPT !.digi_message = "|" \o @]

\* Without its rules file it is no contest.
\* Messages for digital modes that are still unset are those for CW.
ReadRules(x) ==
    LET found == x.whichcontest \in DOMAIN start.rules
        y == IF found THEN ReadFile(x, start.rules[x.whichcontest])
             ELSE [SetContest(x, "qso") EXCEPT !.logfile = "qso.log"]
    IN  [y EXCEPT !.digi_message = IF @ = NoValue THEN "|" \o y.message ELSE @]

-----------------------------------------------------------------------------
NoHeader == [f \in Fields |-> NoValue]
Closed   == [nodes |-> {}, port |-> FALSE]

ConfigInit ==
    /\ start \in Starts
    /\ stage = "logcfg" /\ lines = <<>> /\ rules = <<>> /\ s = Defaults /\ open = Closed
    /\ kept = Defaults /\ edited = FALSE /\ header = NoHeader

ReadLine ==
    /\ stage = "logcfg" /\ Len(lines) < start.max
    /\ \E l \in start.lines :
          /\ lines' = Append(lines, l)
          /\ s' = Apply(s, l)
    /\ stage' = IF s'.ok THEN stage ELSE "exit"
    /\ UNCHANGED <<start, rules, open, kept, edited, header>>

EndOfConfig ==
    /\ stage = "logcfg"
    /\ rules' = RulesFile(s) /\ s' = ReadRules(s) /\ kept' = s'
    /\ stage' = IF s'.ok THEN "check" ELSE "exit"
    /\ UNCHANGED <<start, lines, open, edited, header>>

\* databases_load() after the files were read: exchange list, logs and plugin
\* may have errors.
CheckDatabases ==
    /\ stage = "check"
    /\ \E errors \in BOOLEAN :
          stage' = IF s.call = "" \/ (s.multlist /\ s.multsfile = "") \/ errors
                   THEN "exit" ELSE "devices"
    /\ s' = [s EXCEPT !.qtc_recv_lazy = @ /\ s.trxmode # "DIGI"]
    /\ UNCHANGED <<start, lines, rules, open, kept, edited, header>>

\* Sockets are opened for named and unnamed nodes, except for the own one.
Reachable(x) == {n \in NodeIds : n < x.nodes /\ x.host[n] # ""
                                 /\ ~(x.named /\ n = x.thisnode)}

HamlibLost(radio) == s.trx_control /\ ~radio

FldigiInit(x, works) == IF x.digikeyer = "FLDIGI" /\ ~works THEN "NO" ELSE x.digikeyer

\* Hamlib can key the radio only if it is under control and knows how to; if it
\* cannot stop, the operator is asked.
KeyerFails(lost, morse, stop, goon) ==
    s.cwkeyer = "HAMLIB" /\ ~lost /\ ~(s.trx_control /\ morse /\ (stop \/ goon))

\* Without the radio keyer_init() returns before it opens the controller.
PortOpened(lost) ==
    /\ s.cwkeyer = "MFJ" \/ s.digikeyer \in {"MFJ", "GMFSK"}
    /\ ~(s.cwkeyer = "HAMLIB" /\ lost)

\* The radio or fldigi may not answer; then the operator goes on without the
\* radio or gives up.  At most one question is asked.
InitDevices ==
    /\ stage = "devices"
    /\ \E radio, fldigi, morse, stop, goon \in BOOLEAN :
          LET lost == HamlibLost(radio) IN
          /\ stage' = IF (lost /\ ~goon) \/ KeyerFails(lost, morse, stop, goon)
                       THEN "exit" ELSE "running"
          /\ s' = [s EXCEPT !.trx_control = @ /\ radio, !.digikeyer = FldigiInit(s, fldigi)]
          /\ open' = [nodes |-> IF s.lan_active THEN Reachable(s) ELSE {},
                      port  |-> PortOpened(lost)]
    /\ UNCHANGED <<start, lines, rules, kept, edited, header>>

\* :CFG - after an error the settings read before it stay, and the rules file
\* is read all the same.
RereadConfig ==
    /\ stage = "running"
    /\ \E file \in {lines} \cup (IF edited THEN {} ELSE {Append(lines, l) : l \in start.edits}) :
          /\ lines' = file
          /\ edited' = (edited \/ file # lines)
          /\ LET y == ReadFile([s EXCEPT !.ok = TRUE], file) IN
             /\ rules' = RulesFile(y)
             /\ s' = [ReadRules([y EXCEPT !.ok = TRUE]) EXCEPT !.ok = @ /\ y.ok]
    /\ stage' = "reread" /\ header' = NoHeader
    /\ UNCHANGED <<start, open, kept>>

GoOn ==
    /\ stage = "reread" /\ stage' = "running"
    /\ UNCHANGED <<start, lines, rules, s, open, kept, edited, header>>

\* :WRITE
WriteHeader ==
    /\ stage = "running"
    /\ s' = [s EXCEPT !.cab = Filled(@, s.call, "score", s.qra)]
    /\ \E answer \in {NoValue, "answer"} : header' = Header(s'.cab, answer)
    /\ UNCHANGED <<start, stage, lines, rules, open, kept, edited>>

ConfigNext ==
    \/ ReadLine \/ EndOfConfig \/ CheckDatabases \/ InitDevices
    \/ RereadConfig \/ GoOn \/ WriteHeader

ConfigSpec == ConfigInit /\ [][ConfigNext]_configVars

-----------------------------------------------------------------------------
(* Properties.                                                             *)

Topics ==
    <<{"CONTEST", "ONE_POINT", "TWO_POINTS", "RECALL_MULTS", "CONTEST_MODE", "SCOREWINDOW",
       "CHECKWINDOW", "LEADING_ZEROS_SERIAL", "MULT_LIST", "COUNTRYLIST", "CONTINENTLIST",
       "PFX_NUM_MULTIS", "EXCLUDE_MULTILIST", "DX_&_SECTIONS", "SECTION_MULT"},
      {"ADDNODE", "NODE_X", "THISNODE"},
      {"NETKEYER", "HAMLIB_KEYER", "MFJ1278_KEYER", "GMFSK", "FLDIGI", "RTTYMODE", "SSBMODE",
       "DIGITAL_MODE"},
      {"TELNETPORT", "TNCPORT", "FIFO_INTERFACE"}, {"CLUSTER", "BANDMAP"},
      {"CABRILLO", "CABRILLO-FIELD", "CABRILLO-TEMPLATE"}>>

SameTopic(a, b) == a.key = b.key \/ \E i \in DOMAIN Topics : {a.key, b.key} \subseteq Topics[i]

\* The man page promises that commands "can generally appear in any order":
\* whatever was read before, two lines about different things give the same
\* settings in both orders.
OrderFree ==
    stage = "logcfg" =>
        LET after == [l \in start.lines |-> Apply(s, l)]
            right == {l \in start.lines : after[l].ok}
        IN  \A a, b \in right :
                ~SameTopic(a, b) => Apply(after[a], b) = Apply(after[b], a)

\* Lines that count once more when they are read again: nodes are added, settings
\* of a contest before its name go to the contest of the last time, and rules that
\* name another contest change the choice of the rules.
Steady ==
    /\ \A c \in DOMAIN start.rules : \A l \in Range(start.rules[c]) : l.key \notin {"CONTEST", "ADDNODE"}
    /\ \A i \in DOMAIN lines : lines[i].key # "ADDNODE"
    /\ \A i, j \in DOMAIN lines :
          lines[i].key \in {"ONE_POINT", "TWO_POINTS", "RECALL_MULTS"} /\ lines[j].key = "CONTEST" =>
              j < i

\* What write_cabrillo_header() fills in remains in the settings.
Written == {"CALLSIGN", "CLAIMED-SCORE", "GRID-LOCATOR"}

Comparable(x) == [x EXCEPT !.cab = [f \in Fields \ Written |-> @[f]],
                           !.trx_control = TRUE, !.digikeyer = "NO"]

\* :CFG without a change in the files brings the settings that were read at
\* the start, however often it is used.
RereadSame == stage = "reread" /\ ~edited /\ Steady => Comparable(s) = Comparable(kept)

\* What a line says about fields of the header.
Values(l) ==
    CASE l.key = "CABRILLO-FIELD" ->
             <<[field |-> l.field, value |-> IF l.val = Missing THEN NoValue ELSE l.val]>>
      [] l.key = "CABRILLO-TEMPLATE" -> l.template
      [] OTHER -> <<>>

Silent(l, f) == \A k \in DOMAIN Values(l) : Values(l)[k].field # f

\* The k-th entry of line i is the last one about field f.
LastAbout(all, f, i, k) ==
    /\ Values(all[i])[k].field = f
    /\ \A m \in DOMAIN Values(all[i]) : m > k => Values(all[i])[m].field # f
    /\ \A j \in DOMAIN all : j > i => Silent(all[j], f)

\* A header field has the value of the last entry about it, be it in a line or
\* in a template, of logcfg.dat or of the rules, through exports and rereading,
\* if the last reading went without error.
HeaderAsGiven ==
    s.ok /\ header # NoHeader =>
        LET all == lines \o rules IN
        \A f \in Fields \ Written, i \in DOMAIN all : \A k \in DOMAIN Values(all[i]) :
            LET last == Values(all[i])[k].value IN
            LastAbout(all, f, i, k) /\ last \notin {NoValue, Hint} =>
                header[f] = IF last = Dash THEN NoValue ELSE last

=============================================================================
