-------------------------------- MODULE MCConfig --------------------------------
(* A setup has the lines that may be written, and the rules files.         *)
EXTENDS Config

Line(key, val) == [key |-> key, val |-> val]
Node(n, val)   == [key |-> "NODE_X", node |-> n, val |-> val]
Field(f, val)  == [key |-> "CABRILLO-FIELD", field |-> f, val |-> val]
Template(t)    == [key |-> "CABRILLO-TEMPLATE", val |-> "file", template |-> t]

Call == Line("CALL", "DL1A")

\* Everything in any order, two or three lines of it.
All ==
    {Call, Line("CALL", Bad), Line("MYQRA", "JO60"), Line("CONTEST", "arrl_ss"),
     Line("CONTEST", "wpx"), Line("CONTEST", Bad), Line("CONTEST_MODE", "OFF"), Line("SCOREWINDOW", "ON"),
     Line("ONE_POINT", Missing), Line("TWO_POINTS", Missing), Line("RECALL_MULTS", "ON"),
     Line("SECTION_MULT", "BAND+MODE"), Line("DX_&_SECTIONS", Missing),
     Line("COUNTRYLIST", "PA"), Line("CONTINENTLIST", "EU"),
     Line("CONTINENTLIST", Bad), Line("PFX_NUM_MULTIS", "JA"), Line("EXCLUDE_MULTILIST", "COUNTRYLIST"),
     Line("EXCLUDE_MULTILIST", "CONTINENTLIST"), Line("MULT_LIST", "provinces"),
     Line("POWERMULT", "2"), Line("BANDWEIGHT_POINTS", "160:2"),
     Line("ADDNODE", "hostA"), Node(0, "hostA"), Node(1, "hostB"),
     [key |-> "THISNODE", node |-> 1, val |-> "B"],
     Line("NETKEYER", Missing), Line("HAMLIB_KEYER", Missing), Line("MFJ1278_KEYER", "tty"),
     Line("GMFSK", "tty"), Line("FLDIGI", Missing), Line("RTTYMODE", Missing), Line("SSBMODE", Missing),
     Line("RADIO_CONTROL", "ON"), Line("RADIO_CONTROL", "OFF"),
     Line("TELNETPORT", "8000"), Line("TNCPORT", "tty"), Line("FIFO_INTERFACE", Missing),
     Line("CLUSTER", Missing), Line("BANDMAP", "DS"),
     Line("CHANGE_RST", "599"), Line("CHANGE_RST", Bad),
     Line("MINITEST", "300"), Line("BAND_X", "7000,7040,7050,7200"),
     Line("BAND_X", Bad), Line("QTC", "RECV"), Line("QTC_RECV_LAZY", Missing),
     Line("LOGFILE", "wpx.log"), Line("LOGFILE", Bad), Line("CQDELAY", "10"),
     Line("F1", "CQ"), Line("DKF1", "CQ CQ"),
     Field("NAME", "Hans"), Field("EMAIL", Missing), Template(<<[field |-> "CLUB", value |-> "DARC"]>>),
     Line("XCHG_PATTERN", "any"), Line("RTTYMODE", "x"), Line("DIGITAL_MODE", "PSK"),
     Line("CHECKWINDOW", "OFF"),
     Line("CABRILLO", "WPX"), Field("QSO-FORMAT", "SWEEP"),
     Template(<<[field |-> "QSO-FORMAT", value |-> "DX"]>>)}

Wpx   == <<Line("CONTEST", "wpx"), Line("LOGFILE", "wpx.log"),
           Line("CONTEST_MODE", Missing), Line("F1", "TEST")>>
Sweep == <<Line("CONTEST", "arrl_ss"), Line("MULT_LIST", "sections"), Line("TWO_POINTS", Missing)>>

Orders == [lines |-> All, max |-> 2, edits |-> {}, rules |-> [wpx |-> Wpx, arrl_ss |-> Sweep]]

Contest ==
    [lines |-> {Call, Line("CONTEST", "wpx"), Line("CONTEST", "arrl_ss"), Line("CONTEST", "arrldx_dx"),
                Line("ONE_POINT", Missing), Line("SECTION_MULT", "BAND"),
                Line("COUNTRYLIST", "PA"), Line("EXCLUDE_MULTILIST", "COUNTRYLIST"),
                Line("RECALL_MULTS", Missing), Line("POWERMULT", "2"),
                Line("CHECKWINDOW", "OFF")},
     max |-> 4, edits |-> {Line("ONE_POINT", Missing)},
     rules |-> [wpx |-> Append(Wpx, Line("POWERMULT", "3")), arrl_ss |-> Sweep]]

Station ==
    [lines |-> {Call, Line("HAMLIB_KEYER", Missing), Line("RADIO_CONTROL", "ON"), Line("GMFSK", "tty"),
                Line("FLDIGI", Missing), Line("SSBMODE", Missing), Line("QTC_RECV_LAZY", Missing),
                Line("F1", "CQ"), Line("MFJ1278_KEYER", "tty")},
     max |-> 4, edits |-> {Line("RTTYMODE", Missing)},
     rules |-> [qso |-> <<Line("QTC", "RECV")>>]]

Net ==
    [lines |-> {Call, Line("ADDNODE", "hostA"), Line("ADDNODE", "hostB"),
                Node(0, "hostA"), Node(1, "hostB"), Node(2, "hostC"), Node(3, "hostD"),
                [key |-> "THISNODE", node |-> 1, val |-> "B"]},
     max |-> 5, edits |-> {Line("ADDNODE", "hostC")},
     rules |-> [qso |-> << >>]]

Export ==
    [lines |-> {Call, Line("MYQRA", "JO60"), Field("NAME", "Hans"), Field("NAME", Dash), Field("NAME", Hint),
                Field("NAME", Missing), Field("EMAIL", "a@b"), Field("GRID-LOCATOR", Missing),
                Template(<<[field |-> "CALLSIGN", value |-> "DL0X"], [field |-> "CLUB", value |-> "DARC"]>>),
                Template(<<[field |-> "CLUB", value |-> "DARC"], [field |-> "BAD", value |-> "X"]>>),
                Field("QSO-FORMAT", "SWEEP")},
     max |-> 4, edits |-> {Line("MYQRA", "JO61"), Field("NAME", "Otto")},
     rules |-> [qso |-> <<Field("CLUB", Hint)>>]]

MCSetups == {Orders, Contest, Station, Net, Export}
=============================================================================
