------------------------------- MODULE MCCabrillo -------------------------------
(* Three lines in the log, up to two QTCs each way, two to four minutes.   *)
EXTENDS Cabrillo, TLC

Plain  == [slow |-> FALSE, notes |-> FALSE, deletes |-> FALSE, early |-> FALSE,
           modes |-> {"CW"}, wide |-> {FALSE}, minutes |-> 2]
Slow   == [Plain EXCEPT !.slow = TRUE, !.minutes = 4]
Notes  == [Slow EXCEPT !.notes = TRUE, !.deletes = TRUE, !.early = TRUE,
                      !.minutes = 3]
Wide   == [Slow EXCEPT !.wide = BOOLEAN, !.minutes = 3]

MCSetups == {Plain, Slow, Notes, Wide}

Symmetry == Permutations(Calls)
=============================================================================
