----------------------------- MODULE MCRigControl -----------------------------
(* Two frequencies of 40 m, one of 20 m and one out of band.               *)
EXTENDS RigControl

MCFreqs     == {"7040", "7050", "14100", "9000"}
MCBand      ==
    [f \in MCFreqs |-> CASE f \in {"7040", "7050"} -> 0 [] f = "14100" -> 1 [] OTHER -> 2]
MCLowFreqs  == {"7040", "7050", "9000"}
MCBandStart == [b \in 0..2 |-> CASE b = 0 -> "7040" [] b = 1 -> "14100" [] OTHER -> NoFreq]

\* Frequencies only, requested and by the frequency dialog.
Plain ==
    [modeSync |-> TRUE, fldigi |-> FALSE, bandOutput |-> FALSE, bandKeys |-> FALSE,
     qsy |-> TRUE, dial |-> TRUE, modes |-> {}, knob |-> FALSE,
     voice |-> FALSE, rit |-> FALSE, longMessages |-> TRUE,
     maxWishes |-> 3, maxFails |-> 0]

Modes == [Plain EXCEPT !.qsy = FALSE, !.dial = FALSE, !.modes = {"CW", "SSB"}]
Voice == [Plain EXCEPT !.qsy = FALSE, !.dial = FALSE, !.voice = TRUE]

\* Messages that end before gettxinfo() has gone round.
ShortVoice == [Voice EXCEPT !.longMessages = FALSE, !.maxWishes = 4]

\* Everything at once, with a radio that fails to answer.
All ==
    [Plain EXCEPT !.dial = FALSE, !.modes = TrxModes, !.bandKeys = TRUE, !.knob = TRUE,
                  !.maxWishes = 2, !.maxFails = 1]

\* An antenna switch: all bands are requested, or all are found by the poll.
Antenna == [Plain EXCEPT !.dial = FALSE, !.bandOutput = TRUE, !.modeSync = FALSE]
Followed == [Antenna EXCEPT !.qsy = FALSE, !.dial = TRUE, !.knob = TRUE, !.maxWishes = 2,
                            !.maxFails = 1]

\* Fldigi as keyer: it tells the frequency and moves the radio.
Fldigi ==
    [Plain EXCEPT !.qsy = FALSE, !.dial = FALSE, !.fldigi = TRUE,
                  !.modes = {"CW", "DIGI"}]

NoSync == [All EXCEPT !.modeSync = FALSE, !.knob = FALSE, !.rit = TRUE, !.maxFails = 0]

MCSetups   == {Plain, Modes, Voice, ShortVoice, All, Antenna, Followed, Fldigi, NoSync}
=============================================================================
