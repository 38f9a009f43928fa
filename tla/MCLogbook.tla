------------------------------ MODULE MCLogbook ------------------------------
(***************************************************************************)
(* Small contests for Logbook: two stations, one at home and one abroad,   *)
(* and one of a country that is not known; two bands, two exchanges.       *)
(***************************************************************************)
EXTENDS Logbook, TLC

CONSTANTS c1, c2, c3, ctyHome, ctyDx, cty0, p1, p2, x1, x2, b1, b2

MCCountry == c1 :> ctyHome @@ c2 :> ctyDx @@ c3 :> cty0
MCPrefix  == c1 :> p1 @@ c2 :> p2 @@ c3 :> p2

OnePoint == [m \in Modes |-> 1]

Plain == [mult |-> "none", multMode |-> "band", pfx |-> "none", zones |-> FALSE,
          dxSections |-> FALSE, qsoOnce |-> FALSE, mixed |-> FALSE,
          ignoreDupe |-> FALSE, excluded |-> {}, minitest |-> 0, points |-> OnePoint]

ZoneContest    == [Plain EXCEPT !.zones = TRUE, !.excluded = {ctyDx}]
WysiwygContest == [Plain EXCEPT !.mult = "wysiwyg"]
MixedContest   == [Plain EXCEPT !.mult = "section", !.multMode = "band_mode",
                                !.mixed = TRUE]
CallContest    == [Plain EXCEPT !.mult = "unique_call", !.multMode = "once",
                                !.qsoOnce = TRUE]
PfxContest     == [Plain EXCEPT !.pfx = "once"]
PfxBandContest == [Plain EXCEPT !.pfx = "band"]
DxContest      == [Plain EXCEPT !.dxSections = TRUE]
BothContest    == [DxContest EXCEPT !.mult = "wysiwyg", !.multMode = "once"]
SlackContest   == [Plain EXCEPT !.ignoreDupe = TRUE]
MiniContest    == [Plain EXCEPT !.mult = "wysiwyg", !.minitest = 2]

Alone(c, n) == [contest |-> c, lan |-> FALSE, rigMoves |-> FALSE,
                calls |-> {c1, c2}, maxLog |-> n]
InLan(c)    == [Alone(c, 2) EXCEPT !.lan = TRUE]

MCSetups ==
    {Alone(c, 2) : c \in {Plain, ZoneContest, WysiwygContest, MixedContest, PfxContest,
                          PfxBandContest, DxContest, BothContest, SlackContest,
                          CallContest}}
    \cup {[Alone(DxContest, 2) EXCEPT !.calls = {c2, c3}]}
    \cup {[Alone(CallContest, 3) EXCEPT !.calls = {c2}]}
    \cup {InLan(c) : c \in {WysiwygContest, PfxContest, CallContest}}
    \cup {[Alone(MiniContest, 2) EXCEPT !.rigMoves = TRUE]}

Symmetry == Permutations({b1, b2}) \cup Permutations({x1, x2})
=============================================================================
