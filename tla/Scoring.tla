------------------------------- MODULE Scoring -------------------------------
(***************************************************************************)
(* What one QSO does to the statistics of a contest: who was worked where  *)
(* and when, countries, zones, prefixes and other multipliers, points.     *)
(*                                                                         *)
(* The statistics are a record (the C code keeps them in global arrays).   *)
(* A contest is a record of the switches of the contest rules that these   *)
(* functions look at.  A set of bands stands for a bit mask.               *)
(***************************************************************************)
EXTENDS Naturals, FiniteSets, Functions

CONSTANTS Calls,            \* call signs
          Bands, Modes,     \* the indices of bands and modes
          CWMODE,           \* the mode used where the mode does not matter
          Countries,        \* DXCC countries
          Country,          \* getctynr() for every call sign
          NoCountry,        \* 0, what it gives for calls that are not known
          HomeCountries,    \* w_cty and ve_cty
          WpxPrefixes,      \* WPX prefixes
          WpxPrefix,        \* getpx() for every call sign
          Exchanges,        \* what stations send
          Zones, Sections,  \* exchanges that are zones, listed multipliers
          None              \* an empty string

ASSUME ScoringAssumption ==
    /\ CWMODE \in Modes
    /\ Country \in [Calls -> Countries] /\ HomeCountries \subseteq Countries
    /\ NoCountry \in Countries
    /\ WpxPrefix \in [Calls -> WpxPrefixes]
    /\ Zones \subseteq Exchanges /\ Sections \subseteq Exchanges
    /\ None \notin Calls \cup WpxPrefixes \cup Exchanges

ASSUME FiniteAssumption ==
    /\ IsFiniteSet(Countries) /\ IsFiniteSet(WpxPrefixes) /\ IsFiniteSet(Exchanges)
    /\ IsFiniteSet(Calls) /\ IsFiniteSet(Bands) /\ IsFiniteSet(Modes)

MultNames == Exchanges \cup Calls
Marks     == WpxPrefixes \cup Countries \cup MultNames

\* The switches of a rules file.
Contest ==
    [mult     : {"none", "section", "wysiwyg", "unique_call"},
     multMode : {"once", "band", "band_mode"},
     pfx      : {"none", "once", "band"},     \* pfxmult, pfxmultab
     zones    : BOOLEAN,                      \* wazmult
     dxSections : BOOLEAN, qsoOnce : BOOLEAN, mixed : BOOLEAN, ignoreDupe : BOOLEAN,
     excluded : SUBSET Countries,             \* EXCLUDE_MULTILIST
     minitest : Nat,
     points   : [Modes -> Nat]]

Qso == [call : Calls, band : Bands, mode : Modes, time : Nat,
        comment : Exchanges]

Stats ==
    [time         : [Calls -> [Modes -> [Bands -> Nat]]],  \* worked[].qsotime
     exchange     : [Calls -> Exchanges \cup {None}],      \* worked[].exchange
     worked       : [Calls -> SUBSET Bands],               \* worked[].band
     qsosPerBand  : [Bands -> Nat],
     countries    : [Countries -> SUBSET Bands],
     countryscore : [Bands -> Nat],
     zones        : [Zones -> SUBSET Bands],
     zonescore    : [Bands -> Nat],
     prefixes     : [WpxPrefixes -> SUBSET Bands],            \* prefixes_worked
     nrOfPx       : Nat,
     nrOfPxAb     : Nat,
     pfxsPerBand  : [Bands -> Nat],
     multis       : [MultNames -> SUBSET (Modes \X Bands)],
     nrMultis     : Nat,
     multscore    : [Bands -> Nat],
     total        : Nat]

ZeroPerBand == [b \in Bands |-> 0]

InitScoring ==
    [time         |-> [c \in Calls |-> [m \in Modes |-> ZeroPerBand]],
     exchange     |-> [c \in Calls |-> None],
     worked       |-> [c \in Calls |-> {}],
     qsosPerBand  |-> ZeroPerBand,
     countries    |-> [c \in Countries |-> {}],
     countryscore |-> ZeroPerBand,
     zones        |-> [z \in Zones |-> {}],
     zonescore    |-> ZeroPerBand,
     prefixes     |-> [p \in WpxPrefixes |-> {}],
     nrOfPx       |-> 0,
     nrOfPxAb     |-> 0,
     pfxsPerBand  |-> ZeroPerBand,
     multis       |-> [n \in MultNames |-> {}],
     nrMultis     |-> 0,
     multscore    |-> ZeroPerBand,
     total        |-> 0]

-----------------------------------------------------------------------------
(* Dupes.  lookup_worked() finds every station with a qsotime entry.       *)

LookupWorked(st, call) == \E m \in Modes, b \in Bands : st.time[call][m][b] # 0

\* The current band and mode of the radio are used, not those of the QSO.
WorkedInCurrentMinitestPeriod(contest, st, call, now, rig) ==
    \/ contest.minitest = 0
    \/ st.time[call][rig.mode][rig.band] >=
           (now \div contest.minitest) * contest.minitest

IsDupe(contest, st, call, band, mode, now, rig) ==
    /\ ~contest.ignoreDupe
    /\ LookupWorked(st, call)
    /\ contest.qsoOnce \/ band \in st.worked[call]
    /\ contest.mixed => st.time[call][mode][band] # 0
    /\ WorkedInCurrentMinitestPeriod(contest, st, call, now, rig)

\* A LAN entry comes with an empty comment (None) and keeps the exchange.
UpdateWorked(st, q) ==
    [st EXCEPT !.time[q.call][q.mode][q.band] = q.time,
               !.exchange[q.call] = IF q.comment = None THEN @ ELSE q.comment]

-----------------------------------------------------------------------------
(* Prefixes.  An empty prefix always matches the free slot behind the   *)
(* last one: it is counted, but not remembered.                            *)

NewPfx(contest, st, px, band) ==
    IF px = None THEN contest.pfx = "band"
    ELSE IF contest.pfx = "band" THEN band \notin st.prefixes[px]
    ELSE st.prefixes[px] = {}

CountPfx(st, px, band) ==
    [st EXCEPT !.nrOfPxAb = @ + 1, !.pfxsPerBand[band] = @ + 1,
               !.nrOfPx = IF px = None \/ st.prefixes[px] # {} THEN @ ELSE @ + 1]

AddPfx(st, px, band) ==
    IF px = None THEN CountPfx(st, px, band)
    ELSE IF band \in st.prefixes[px] THEN st
    ELSE [CountPfx(st, px, band) EXCEPT !.prefixes[px] = @ \cup {band}]

-----------------------------------------------------------------------------
(* Named multipliers: multis[].                                            *)

\* Mutant: the mode never matters.
EffectiveMode_Band(multMode, mode) == CWMODE

EffectiveMode(multMode, mode) == IF multMode = "band_mode" THEN mode ELSE CWMODE

NewMulti(st, name, band, mode, multMode) ==
    /\ name # None
    /\ \/ st.multis[name] = {}
       \/ /\ multMode # "once"
          /\ <<EffectiveMode(multMode, mode), band>> \notin st.multis[name]

RememberMulti(st, name, band, mode, multMode) ==
    IF ~NewMulti(st, name, band, mode, multMode) THEN st
    ELSE [st EXCEPT
            !.multis[name] = @ \cup {<<EffectiveMode(multMode, mode), band>>},
            !.nrMultis = IF st.multis[name] = {} THEN @ + 1 ELSE @,
            !.multscore[band] = @ + 1]

\* DX_&_SECTIONS counts sections of W/VE stations, before other kinds are asked for.
HomeSections(contest, q) ==
    contest.mult # "section" /\ contest.dxSections /\ Country[q.call] \in HomeCountries

CountsSection(contest, q) == contest.mult = "section" \/ HomeSections(contest, q)

MultName(contest, q) ==
    CASE CountsSection(contest, q)    -> IF q.comment \in Sections THEN q.comment ELSE None
      [] contest.mult = "wysiwyg"     -> q.comment
      [] contest.mult = "unique_call" -> q.call
      [] OTHER                        -> None

MultMode(contest, q) ==
    IF contest.mult = "none" \/ HomeSections(contest, q) THEN "band" ELSE contest.multMode

AddMult(contest, st, q) ==
    RememberMulti(st, MultName(contest, q), q.band, q.mode, MultMode(contest, q))

NewMult(contest, st, q) ==
    NewMulti(st, MultName(contest, q), q.band, q.mode, MultMode(contest, q))

-----------------------------------------------------------------------------
(* Countries and zones.                                                    *)

CheckVeto(contest, call) == Country[call] \in contest.excluded

AddOk(contest, call) ==
    /\ ~(contest.dxSections /\ Country[call] \in HomeCountries)
    /\ ~CheckVeto(contest, call)

ZoneNr(contest, comment) == IF contest.zones /\ comment \in Zones THEN comment ELSE None

NewCty(contest, st, q) ==
    /\ AddOk(contest, q.call) /\ Country[q.call] # NoCountry
    /\ q.band \notin st.countries[Country[q.call]]

NewZone(contest, st, q) ==
    LET z == ZoneNr(contest, q.comment)
    IN  AddOk(contest, q.call) /\ z # None /\ q.band \notin st.zones[z]

\* Mutant: every QSO counts a country.
AddCountry_Always(st, cty, band) ==
    [st EXCEPT !.countries[cty] = @ \cup {band}, !.countryscore[band] = @ + 1]

AddCountry(st, cty, band) ==
    IF cty = NoCountry \/ band \in st.countries[cty] THEN st
    ELSE [st EXCEPT !.countries[cty] = @ \cup {band}, !.countryscore[band] = @ + 1]

AddZone(st, zone, band) ==
    IF zone = None THEN st
    ELSE IF band \in st.zones[zone] THEN st
    ELSE [st EXCEPT !.zones[zone] = @ \cup {band}, !.zonescore[band] = @ + 1]

MarkWorked(st, call, band) == [st EXCEPT !.worked[call] = @ \cup {band}]
CountQso(st, band) == [st EXCEPT !.qsosPerBand[band] = @ + 1]

AddStation(contest, st, call, comment, band) ==
    AddZone(AddCountry(MarkWorked(st, call, band), Country[call], band),
            ZoneNr(contest, comment), band)

-----------------------------------------------------------------------------
(* addcall(), score_qso() and the multiplier field of makelogline().       *)

\* Prefixes are left out in contests that never look at them.
AddsPfx(contest, call) ==
    /\ contest.pfx # "none"
    /\ contest.pfx = "band" => ~CheckVeto(contest, call)

AddCall(contest, st, px, q) ==
    LET seen    == UpdateWorked(st, q)
        pfxed   == IF AddsPfx(contest, q.call) THEN AddPfx(seen, px, q.band) ELSE seen
        counted == CountQso(pfxed, q.band)
        added   == IF AddOk(contest, q.call)
                   THEN AddStation(contest, counted, q.call, q.comment, q.band)
                   ELSE counted
    IN  AddMult(contest, added, q)

Score(contest, q, dupe) == IF dupe THEN 0 ELSE contest.points[q.mode]

ScoreQso(st, points) == [st EXCEPT !.total = @ + points]

\* The new multipliers as shown in columns 68 to 75 of the log line.
Mark(contest, st, px, q) ==
    IF contest.pfx # "none"
    THEN IF AddsPfx(contest, q.call) /\ NewPfx(contest, st, px, q.band)
         THEN {px} \ {None} ELSE {}
    ELSE IF contest.zones
    THEN (IF NewCty(contest, st, q) THEN {Country[q.call]} ELSE {})
         \cup (IF NewZone(contest, st, q) THEN {q.comment} ELSE {})
    ELSE IF contest.dxSections /\ Country[q.call] \notin HomeCountries
    THEN IF NewCty(contest, st, q) THEN {Country[q.call]} ELSE {}
    ELSE IF NewMult(contest, st, q) THEN {MultName(contest, q)} ELSE {}

-----------------------------------------------------------------------------
(* A QSO of another node: addcall2() and addmult_lan().                    *)

LanPfx(contest, st, line) ==
    IF contest.pfx = "none" \/ line.mark = {} THEN st
    ELSE AddPfx(st, CHOOSE px \in line.mark : TRUE, line.band)

\* Only some kinds are counted; the band is the band of this node's radio
\* and the mode is always CW.
AddMultLan(contest, st, line, rig) ==
    LET once(name) ==
            RememberMulti(st, name, rig.band, CWMODE, contest.multMode)
    IN  CASE contest.mult = "wysiwyg" -> once(line.comment)
          [] /\ contest.mult = "unique_call"
             /\ contest.multMode # "band_mode"
             /\ line.mark # {}        -> once(CHOOSE n \in line.mark : TRUE)
          [] OTHER -> st

AddCall2(contest, st, line, rig) ==
    LET seen  == UpdateWorked(st, [line EXCEPT !.comment = None])
        added == IF CheckVeto(contest, line.call) THEN seen
                 ELSE AddStation(contest, CountQso(seen, line.band),
                                 line.call, line.comment, line.band)
    IN  AddMultLan(contest, LanPfx(contest, added, line), line, rig)

-----------------------------------------------------------------------------
(* get_nr_of_mults(), with every band counting alike.                      *)

SumPerBand(score) == FoldFunction(+, 0, score)

NrOfMults(contest, st) ==
    IF contest.dxSections THEN SumPerBand(st.multscore) + SumPerBand(st.countryscore)
    ELSE IF contest.mult # "none"
    THEN IF contest.multMode = "once" THEN st.nrMultis ELSE SumPerBand(st.multscore)
    ELSE IF contest.pfx = "once" THEN st.nrOfPx
    ELSE IF contest.pfx = "band" THEN st.nrOfPxAb
    ELSE IF contest.zones THEN SumPerBand(st.zonescore)
    ELSE 1

-----------------------------------------------------------------------------
(* What the counters should say: the numbers of distinct things worked.    *)

EverWorked(table) == Cardinality({x \in DOMAIN table : table[x] # {}})
WorkedOn(table, band) == Cardinality({x \in DOMAIN table : band \in table[x]})
MultisOn(table, band) ==
    Cardinality({x \in (DOMAIN table) \X Modes : <<x[2], band>> \in table[x[1]]})

CountersMatch(s) ==
    /\ \A b \in Bands : /\ s.countryscore[b] = WorkedOn(s.countries, b)
                        /\ s.zonescore[b] = WorkedOn(s.zones, b)
                        /\ s.multscore[b] = MultisOn(s.multis, b)
    /\ s.nrMultis = EverWorked(s.multis)

PrefixesMatch(s) == s.nrOfPx = EverWorked(s.prefixes)
=============================================================================
