------------------------------ MODULE MCQtcWindow ------------------------------
(* Blocks of two lines, and at most two QTCs per station.                  *)
EXTENDS QtcWindow

CONSTANTS c1, c2

\* The beginning of the call of c1.
MCStartingWith == [c \in Calls \cup {Partial} |-> IF c = Partial THEN {Partial, c1} ELSE {c}]

\* Each setup has what its name says, and as few QSOs as show it.
Sending ==
    [dirs |-> {"send"}, digi |-> FALSE, lazy |-> FALSE, keys |-> {}, lan |-> "none",
     stations |-> Calls, maxQsos |-> 3, maxLines |-> 3, maxDeletes |-> 0, restarts |-> TRUE]
SendDigi   == [Sending EXCEPT !.digi = TRUE, !.keys = {"mark"}, !.maxLines = 2]
Careless   == [Sending EXCEPT !.keys = {"leave", "delete", "call"}, !.maxQsos = 2,
                              !.restarts = FALSE]
Counting   == [Sending EXCEPT !.keys = {"leave", "count", "beyond"}, !.maxQsos = 2]
Deleting   == [SendDigi EXCEPT !.maxDeletes = 1, !.keys = {}]
SameLan    == [SendDigi EXCEPT !.lan = "same", !.keys = {}, !.maxQsos = 2, !.restarts = FALSE]
OtherLan   == [SendDigi EXCEPT !.lan = "other", !.maxQsos = 2, !.keys = {}, !.stations = {c1}]
Receiving  ==
    [dirs |-> {"recv"}, digi |-> FALSE, lazy |-> FALSE, keys |-> {"text"}, lan |-> "none",
     stations |-> Calls, maxQsos |-> 0, maxLines |-> 2, maxDeletes |-> 0, restarts |-> FALSE]
Correcting == [Receiving EXCEPT !.keys = {"text", "edit", "fill"}, !.stations = {c1},
                                !.maxLines = 1]
Lazy       == [Receiving EXCEPT !.lazy = TRUE, !.keys = {"call", "count"}, !.maxLines = 1]
Terminal   == [Receiving EXCEPT !.digi = TRUE, !.keys = {"terminal"}, !.stations = {c1},
                                !.maxLines = 1]
Both       == [Receiving EXCEPT !.dirs = Directions, !.maxQsos = 1, !.keys = {}]
ReceiveLan == [Receiving EXCEPT !.lan = "same", !.keys = {}, !.stations = {c1}]

MCSetups == {Sending, SendDigi, Careless, Counting, Deleting, SameLan, OtherLan, Receiving,
             Correcting, Lazy, Terminal, Both, ReceiveLan}
=============================================================================
