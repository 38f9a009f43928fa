------------------------------- MODULE MCBandmap -------------------------------
(* Two frequencies in the CW part of a band and one in its SSB part, each  *)
(* within TOLERANCE of the next; one on a WARC band and one out of band.   *)
EXTENDS Bandmap

MCFreqs == {1000, 1060, 1120, 5000, 9000}
MCBand  == [f \in MCFreqs |-> CASE f < 5000 -> "b1" [] f = 5000 -> "warc" [] OTHER -> "oob"]
MCMode  == [f \in MCFreqs |-> IF f < 1100 THEN "cw" ELSE "ssb"]

\* Reports only: every order of four of them, for two calls at least twice.
Base ==
    [showdupes |-> TRUE, allband |-> TRUE, outOfBand |-> TRUE, skipdupes |-> TRUE,
     displayed |-> TRUE, busy |-> FALSE, torn |-> FALSE, grabs |-> FALSE, radio |-> {1000},
     maxReports |-> 4, maxLogs |-> 0, maxCrashes |-> 0, maxTime |-> 0]

Ageing   == [Base EXCEPT !.maxReports = 2, !.maxTime = 4, !.maxCrashes = 1]
Grabbing == [Base EXCEPT !.maxReports = 3, !.maxTime = 1, !.grabs = TRUE,
                         !.radio = MCFreqs]
Filtered == [Grabbing EXCEPT !.maxReports = 2, !.maxLogs = 1, !.showdupes = FALSE,
                             !.allband = FALSE, !.outOfBand = FALSE, !.radio = {1120}]

Dupes == [Filtered EXCEPT !.showdupes = TRUE, !.allband = TRUE]

Torn  == [Ageing EXCEPT !.torn = TRUE]

MCSetups == {Base, Ageing, Torn, Grabbing, Filtered, Dupes}
=============================================================================
