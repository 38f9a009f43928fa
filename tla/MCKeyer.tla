-------------------------------- MODULE MCKeyer --------------------------------
(* Messages of one or two pieces, a line of two and a buffer of three; for  *)
(* Fldigi three messages of one.                                           *)
EXTENDS Keyer

Plain   == [device |-> "hamlib", lengths |-> {1, 2}, blocks |-> FALSE, modes |-> FALSE,
            fails |-> FALSE, toggles |-> FALSE, pieces |-> 5]
Net     == [Plain EXCEPT !.device = "net", !.fails = TRUE]
Mfj     == [Plain EXCEPT !.device = "mfj", !.fails = TRUE]
Digital == [Plain EXCEPT !.device = "fldigi", !.lengths = {1}, !.blocks = TRUE,
                           !.pieces = 3]
Modem   == [Digital EXCEPT !.blocks = FALSE]
Remote  == [Modem EXCEPT !.fails = TRUE, !.toggles = TRUE]
Modes   == [Plain EXCEPT !.modes = TRUE, !.lengths = {2}]

MCSetups == {Plain, Net, Mfj, Digital, Modem, Remote, Modes}
=============================================================================
