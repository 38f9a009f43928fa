---------------------------- MODULE Logbook_proofs ----------------------------
(***************************************************************************)
(* What the program keeps twice agrees, for every contest, every log and   *)
(* every order of events: counters and tables, array and file, worked[]    *)
(* and the log, the total and the points, the score and what reading the   *)
(* log again gives.                                                        *)
(*                                                                         *)
(* First come lemmas about the operators of Scoring, for one QSO: every    *)
(* helper keeps the counters in step with the tables.  Only the LAN needs  *)
(* more: what another node sends must be a line this contest can print, or *)
(* a prefix that is none gets counted.  The type invariant says so of all  *)
(* lines.                                                                  *)
(***************************************************************************)
EXTENDS Logbook, FiniteSetTheorems, SequenceTheorems, WellFoundedInduction, TLAPS

-----------------------------------------------------------------------------
(* What one QSO does to the statistics.                                    *)

\* Statistics whose counters and tables agree.
Good(s) == s \in Stats /\ CountersMatch(s) /\ PrefixesMatch(s)

IsQso(q) ==
    /\ q.call \in Calls /\ q.band \in Bands /\ q.mode \in Modes /\ q.time \in Nat
    /\ q.comment \in Exchanges \cup {None}

(* The set of multipliers is finite. *)
LEMMA FiniteMults == IsFiniteSet(MultNames) /\ IsFiniteSet(MultNames \X Modes)
<1>1. IsFiniteSet(MultNames)
  BY FS_Union, FiniteAssumption DEF MultNames
<1>2. IsFiniteSet(MultNames \X Modes)
  BY <1>1, FS_Product, FiniteAssumption
<1> QED  BY <1>1, <1>2

(* Empty tables and zero counters match. *)
LEMMA InitGood == Good(InitScoring)
<1>1. InitScoring \in Stats
  BY ScoringAssumption DEF InitScoring, Stats, ZeroPerBand
<1>2. /\ InitScoring.countries = [c \in Countries |-> {}]
      /\ InitScoring.zones = [z \in Zones |-> {}]
      /\ InitScoring.prefixes = [p \in WpxPrefixes |-> {}]
      /\ InitScoring.multis = [n \in MultNames |-> {}]
      /\ InitScoring.countryscore = ZeroPerBand /\ InitScoring.zonescore = ZeroPerBand
      /\ InitScoring.multscore = ZeroPerBand
      /\ InitScoring.nrMultis = 0 /\ InitScoring.nrOfPx = 0
  BY DEF InitScoring
<1>3. ASSUME NEW S, NEW b
      PROVE  /\ WorkedOn([x \in S |-> {}], b) = 0 /\ EverWorked([x \in S |-> {}]) = 0
             /\ MultisOn([x \in S |-> {}], b) = 0
  <2> DEFINE t == [x \in S |-> {}]
  <2>1. {x \in DOMAIN t : b \in t[x]} = {}
    OBVIOUS
  <2>2. {x \in DOMAIN t : t[x] # {}} = {}
    OBVIOUS
  <2>3. {x \in (DOMAIN t) \X Modes : <<x[2], b>> \in t[x[1]]} = {}
    OBVIOUS
  <2> QED  BY <2>1, <2>2, <2>3, FS_EmptySet DEF WorkedOn, EverWorked, MultisOn
<1>4. CountersMatch(InitScoring) /\ PrefixesMatch(InitScoring)
  BY <1>2, <1>3 DEF CountersMatch, PrefixesMatch, ZeroPerBand
<1> QED  BY <1>1, <1>4 DEF Good

-----------------------------------------------------------------------------
(* Steps that leave countries, zones, prefixes and multipliers alone.      *)

SameTables(s, t) ==
    /\ t.countryscore = s.countryscore /\ t.countries = s.countries
    /\ t.zonescore = s.zonescore /\ t.zones = s.zones
    /\ t.multscore = s.multscore /\ t.multis = s.multis /\ t.nrMultis = s.nrMultis
    /\ t.nrOfPx = s.nrOfPx /\ t.prefixes = s.prefixes

(* Counters and tables match as long as neither changes. *)
LEMMA SameTablesGood ==
    ASSUME NEW s, NEW t, Good(s), t \in Stats, SameTables(s, t)
    PROVE  Good(t)
BY DEF Good, SameTables, CountersMatch, PrefixesMatch

(* update_worked() *)
LEMMA UpdateWorkedGood ==
    ASSUME NEW s, Good(s), NEW q, IsQso(q)
    PROVE  Good(UpdateWorked(s, q))
<1> DEFINE time == [s.time EXCEPT ![q.call][q.mode][q.band] = q.time]
           exchange == [s.exchange EXCEPT ![q.call] = IF q.comment = None THEN @ ELSE q.comment]
           t1 == [s EXCEPT !.time = time]
           t == [t1 EXCEPT !.exchange = exchange]
<1>1. s \in Stats
  BY DEF Good
<1>2. /\ time \in [Calls -> [Modes -> [Bands -> Nat]]]
      /\ exchange \in [Calls -> Exchanges \cup {None}]
  <2>1. s.time \in [Calls -> [Modes -> [Bands -> Nat]]]
    BY <1>1 DEF Stats
  <2>2. s.exchange \in [Calls -> Exchanges \cup {None}]
    BY <1>1 DEF Stats
  <2>3. time \in [Calls -> [Modes -> [Bands -> Nat]]]
    BY <2>1 DEF IsQso
  <2>4. exchange \in [Calls -> Exchanges \cup {None}]
    BY <2>2 DEF IsQso
  <2> QED  BY <2>3, <2>4
<1> HIDE DEF time, exchange
<1>3. t1 \in Stats /\ SameTables(s, t1)
  BY <1>1, <1>2 DEF Stats, SameTables
<1> HIDE DEF t1
<1>4. t \in Stats /\ SameTables(t1, t)
  BY <1>3, <1>2 DEF Stats, SameTables
<1>5. t = UpdateWorked(s, q)
  BY <1>1 DEF UpdateWorked, t1, time, exchange, Stats
<1> QED  BY <1>3, <1>4, <1>5, SameTablesGood

(* qsos_per_band counts lines. *)
LEMMA CountQsoGood ==
    ASSUME NEW s, Good(s), NEW band \in Bands
    PROVE  Good(CountQso(s, band))
<1> DEFINE qsos == [s.qsosPerBand EXCEPT ![band] = @ + 1]
           t    == [s EXCEPT !.qsosPerBand = qsos]
<1>1. s \in Stats
  BY DEF Good
<1>2. qsos \in [Bands -> Nat]
  <2>1. s.qsosPerBand \in [Bands -> Nat]
    BY <1>1 DEF Stats
  <2> QED  BY <2>1
<1> HIDE DEF qsos
<1>3. t \in Stats /\ SameTables(s, t)
  BY <1>1, <1>2 DEF Stats, SameTables
<1>4. t = CountQso(s, band)
  BY DEF CountQso, qsos
<1> QED  BY <1>3, <1>4, SameTablesGood

(* The dupe list. *)
LEMMA MarkWorkedGood ==
    ASSUME NEW s, Good(s), NEW call \in Calls, NEW band \in Bands
    PROVE  Good(MarkWorked(s, call, band))
<1> DEFINE worked == [s.worked EXCEPT ![call] = @ \cup {band}]
           t      == [s EXCEPT !.worked = worked]
<1>1. s \in Stats
  BY DEF Good
<1>2. worked \in [Calls -> SUBSET Bands]
  <2>1. s.worked \in [Calls -> SUBSET Bands]
    BY <1>1 DEF Stats
  <2> QED  BY <2>1
<1> HIDE DEF worked
<1>3. t \in Stats /\ SameTables(s, t)
  BY <1>1, <1>2 DEF Stats, SameTables
<1>4. t = MarkWorked(s, call, band)
  BY DEF MarkWorked, worked
<1> QED  BY <1>3, <1>4, SameTablesGood

(* The points. *)
LEMMA ScoreQsoGood ==
    ASSUME NEW s, Good(s), NEW points \in Nat
    PROVE  Good(ScoreQso(s, points))
<1> DEFINE sum == s.total + points
           t   == [s EXCEPT !.total = sum]
<1>1. s \in Stats
  BY DEF Good
<1>2. sum \in Nat
  <2>1. s.total \in Nat
    BY <1>1 DEF Stats
  <2> QED  BY <2>1
<1> HIDE DEF sum
<1>3. t \in Stats /\ SameTables(s, t)
  BY <1>1, <1>2 DEF Stats, SameTables
<1>4. t = ScoreQso(s, points)
  BY DEF ScoreQso, sum
<1> QED  BY <1>3, <1>4, SameTablesGood

-----------------------------------------------------------------------------
(* Tables that grow by one entry.                                          *)

(* A set that a predicate cuts out of a finite set grows by one. *)
LEMMA OneMore ==
    ASSUME NEW S, IsFiniteSet(S), NEW A, A \subseteq S, NEW x, x \notin A
    PROVE  Cardinality(A \cup {x}) = Cardinality(A) + 1
BY FS_Subset, FS_AddElement

(* One entry of a table grows: what the counts of the whole table need. *)
Grows(S, old, new, x) ==
    /\ DOMAIN old = S /\ DOMAIN new = S /\ x \in S /\ new[x] # {}
    /\ \A z \in S : z # x => new[z] = old[z]

(* Counting what was worked at all. *)
LEMMA EverWorkedGrows ==
    ASSUME NEW S, IsFiniteSet(S), NEW table, NEW new, NEW x, Grows(S, table, new, x)
    PROVE  EverWorked(new) = IF table[x] = {} THEN EverWorked(table) + 1 ELSE EverWorked(table)
<1> DEFINE A == {z \in DOMAIN table : table[z] # {}}
           B == {z \in DOMAIN new : new[z] # {}}
<1>1. EverWorked(table) = Cardinality(A) /\ EverWorked(new) = Cardinality(B)
  BY DEF EverWorked
<1>2. CASE table[x] = {}
  <2>1. B = A \cup {x} /\ A \subseteq S /\ x \notin A
    BY <1>2 DEF Grows
  <2> QED  BY <1>1, <1>2, <2>1, OneMore
<1>3. CASE table[x] # {}
  <2>1. B = A
    BY <1>3 DEF Grows
  <2> QED  BY <1>1, <1>3, <2>1
<1> QED  BY <1>2, <1>3

(* Counting what was worked on a band. *)
LEMMA WorkedOnGrows ==
    ASSUME NEW S, IsFiniteSet(S), NEW T, NEW table \in [S -> SUBSET T],
           NEW x \in S, NEW y \in T, y \notin table[x], NEW b
    PROVE  WorkedOn([table EXCEPT ![x] = @ \cup {y}], b) =
               IF b = y THEN WorkedOn(table, b) + 1 ELSE WorkedOn(table, b)
<1> DEFINE new == [table EXCEPT ![x] = @ \cup {y}]
           A   == {z \in DOMAIN table : b \in table[z]}
           B   == {z \in DOMAIN new : b \in new[z]}
<1>1. WorkedOn(table, b) = Cardinality(A) /\ WorkedOn(new, b) = Cardinality(B)
  BY DEF WorkedOn
<1>2. CASE b = y
  <2>1. B = A \cup {x} /\ A \subseteq S /\ x \notin A
    BY <1>2
  <2> QED  BY <1>1, <1>2, <2>1, OneMore
<1>3. CASE b # y
  <2>1. B = A
    BY <1>3
  <2> QED  BY <1>1, <1>3, <2>1
<1> QED  BY <1>2, <1>3

(* Counting the modes in which multipliers were worked on a band. *)
LEMMA MultisOnGrows ==
    ASSUME NEW S, IsFiniteSet(S \X Modes), NEW table \in [S -> SUBSET (Modes \X Bands)],
           NEW x \in S, NEW m \in Modes, NEW y \in Bands,
           <<m, y>> \notin table[x], NEW b \in Bands
    PROVE  MultisOn([table EXCEPT ![x] = @ \cup {<<m, y>>}], b) =
               IF b = y THEN MultisOn(table, b) + 1 ELSE MultisOn(table, b)
<1> DEFINE new == [table EXCEPT ![x] = @ \cup {<<m, y>>}]
           A   == {z \in (DOMAIN table) \X Modes : <<z[2], b>> \in table[z[1]]}
           B   == {z \in (DOMAIN new) \X Modes : <<z[2], b>> \in new[z[1]]}
<1>1. MultisOn(table, b) = Cardinality(A) /\ MultisOn(new, b) = Cardinality(B)
  BY DEF MultisOn
<1>2. DOMAIN table = S /\ DOMAIN new = S
  OBVIOUS
<1>3. ASSUME NEW z \in S \X Modes
      PROVE  <<z[2], b>> \in new[z[1]] <=>
                 <<z[2], b>> \in table[z[1]] \/ (z = <<x, m>> /\ b = y)
  OBVIOUS
<1>4. CASE b = y
  <2>1. B = A \cup {<<x, m>>}
    <3>1. <<x, m>> \in S \X Modes
      OBVIOUS
    <3> HIDE DEF new
    <3> QED  BY <1>2, <1>3, <1>4, <3>1
  <2>2. A \subseteq S \X Modes /\ <<x, m>> \notin A
    BY <1>2, <1>4
  <2>3. Cardinality(A \cup {<<x, m>>}) = Cardinality(A) + 1
    <3> HIDE DEF A
    <3> QED  BY <2>2, OneMore
  <2> QED  BY <1>1, <1>4, <2>1, <2>3
<1>5. CASE b # y
  <2>1. B = A
    <3> HIDE DEF new
    <3> QED  BY <1>2, <1>3, <1>5
  <2> QED  BY <1>1, <1>5, <2>1
<1> QED  BY <1>4, <1>5

-----------------------------------------------------------------------------
(* Steps that count something new.                                         *)

(* A country is counted on the bands where it is new. *)
LEMMA AddCountryGood ==
    ASSUME NEW s, Good(s), NEW cty \in Countries, NEW band \in Bands
    PROVE  Good(AddCountry(s, cty, band))
<1> DEFINE table == [s.countries EXCEPT ![cty] = @ \cup {band}]
           score == [s.countryscore EXCEPT ![band] = @ + 1]
           t1    == [s EXCEPT !.countries = table]
           t     == [t1 EXCEPT !.countryscore = score]
<1>1. s \in Stats /\ CountersMatch(s) /\ PrefixesMatch(s)
  BY DEF Good
<1>2. CASE cty = NoCountry \/ band \in s.countries[cty]
  BY <1>2 DEF AddCountry
<1>3. CASE cty # NoCountry /\ band \notin s.countries[cty]
  <2>1. s.countries \in [Countries -> SUBSET Bands] /\ s.countryscore \in [Bands -> Nat]
    BY <1>1 DEF Stats
  <2>2. table \in [Countries -> SUBSET Bands] /\ score \in [Bands -> Nat]
    BY <2>1
  <2>3. ASSUME NEW b \in Bands
        PROVE  score[b] = WorkedOn(table, b)
    <3>1. WorkedOn(table, b) = IF b = band THEN WorkedOn(s.countries, b) + 1
                               ELSE WorkedOn(s.countries, b)
      BY <1>3, <2>1, WorkedOnGrows, FiniteAssumption
    <3>2. s.countryscore[b] = WorkedOn(s.countries, b)
      BY <1>1 DEF CountersMatch
    <3> QED  BY <2>1, <3>1, <3>2
  <2>4. t = AddCountry(s, cty, band)
    BY <1>1, <1>3 DEF AddCountry, Stats
  <2> HIDE DEF table, score
  <2>5. t1 \in Stats /\ t1.countryscore = s.countryscore
    BY <1>1, <2>2 DEF Stats
  <2>6. /\ t1.zonescore = s.zonescore /\ t1.zones = s.zones /\ t1.countries = table
        /\ t1.multscore = s.multscore /\ t1.multis = s.multis /\ t1.nrMultis = s.nrMultis
        /\ t1.nrOfPx = s.nrOfPx /\ t1.prefixes = s.prefixes
    BY <1>1 DEF Stats
  <2> HIDE DEF t1
  <2>7. t \in Stats
    BY <2>5, <2>2 DEF Stats
  <2>8. /\ t.zonescore = t1.zonescore /\ t.zones = t1.zones /\ t.countries = t1.countries
        /\ t.countryscore = score
        /\ t.multscore = t1.multscore /\ t.multis = t1.multis /\ t.nrMultis = t1.nrMultis
        /\ t.nrOfPx = t1.nrOfPx /\ t.prefixes = t1.prefixes
    BY <2>5 DEF Stats
  <2> HIDE DEF t
  <2> QED  BY <1>1, <2>3, <2>4, <2>6, <2>7, <2>8 DEF Good, CountersMatch, PrefixesMatch
<1> QED  BY <1>2, <1>3

(* A zone likewise. *)
LEMMA AddZoneGood ==
    ASSUME NEW s, Good(s), NEW zone \in Zones \cup {None}, NEW band \in Bands
    PROVE  Good(AddZone(s, zone, band))
<1> DEFINE table == [s.zones EXCEPT ![zone] = @ \cup {band}]
           score == [s.zonescore EXCEPT ![band] = @ + 1]
           t1    == [s EXCEPT !.zones = table]
           t     == [t1 EXCEPT !.zonescore = score]
<1>1. s \in Stats /\ CountersMatch(s) /\ PrefixesMatch(s)
  BY DEF Good
<1>2. CASE zone = None \/ band \in s.zones[zone]
  BY <1>2 DEF AddZone
<1>3. CASE zone # None /\ band \notin s.zones[zone]
  <2>1. s.zones \in [Zones -> SUBSET Bands] /\ s.zonescore \in [Bands -> Nat] /\ zone \in Zones
    BY <1>1, <1>3 DEF Stats
  <2>2. table \in [Zones -> SUBSET Bands] /\ score \in [Bands -> Nat]
    BY <2>1
  <2>3. ASSUME NEW b \in Bands
        PROVE  score[b] = WorkedOn(table, b)
    <3>1. WorkedOn(table, b) = IF b = band THEN WorkedOn(s.zones, b) + 1
                               ELSE WorkedOn(s.zones, b)
      <4>1. IsFiniteSet(Zones)
        BY FS_Subset, FiniteAssumption, ScoringAssumption
      <4> QED  BY <1>3, <2>1, <4>1, WorkedOnGrows
    <3>2. s.zonescore[b] = WorkedOn(s.zones, b)
      BY <1>1 DEF CountersMatch
    <3> QED  BY <2>1, <3>1, <3>2
  <2>4. t = AddZone(s, zone, band)
    BY <1>1, <1>3 DEF AddZone, Stats
  <2> HIDE DEF table, score
  <2>5. t1 \in Stats /\ t1.zonescore = s.zonescore
    BY <1>1, <2>2 DEF Stats
  <2>6. /\ t1.countryscore = s.countryscore /\ t1.countries = s.countries /\ t1.zones = table
        /\ t1.multscore = s.multscore /\ t1.multis = s.multis /\ t1.nrMultis = s.nrMultis
        /\ t1.nrOfPx = s.nrOfPx /\ t1.prefixes = s.prefixes
    BY <1>1 DEF Stats
  <2> HIDE DEF t1
  <2>7. t \in Stats
    BY <2>5, <2>2 DEF Stats
  <2>8. /\ t.countryscore = t1.countryscore /\ t.countries = t1.countries
        /\ t.zones = t1.zones /\ t.zonescore = score
        /\ t.multscore = t1.multscore /\ t.multis = t1.multis /\ t.nrMultis = t1.nrMultis
        /\ t.nrOfPx = t1.nrOfPx /\ t.prefixes = t1.prefixes
    BY <2>5 DEF Stats
  <2> HIDE DEF t
  <2> QED  BY <1>1, <2>3, <2>4, <2>6, <2>7, <2>8 DEF Good, CountersMatch, PrefixesMatch
<1> QED  BY <1>2, <1>3

(* remember_multi() counts a name once, and once on each band and mode that *)
(* matters.                                                                 *)
LEMMA RememberMultiGood ==
    ASSUME NEW s, Good(s), NEW name \in MultNames \cup {None}, NEW band \in Bands,
           NEW mode \in Modes, NEW multMode
    PROVE  Good(RememberMulti(s, name, band, mode, multMode))
<1> DEFINE m     == EffectiveMode(multMode, mode)
           table == [s.multis EXCEPT ![name] = @ \cup {<<m, band>>}]
           nr    == IF s.multis[name] = {} THEN s.nrMultis + 1 ELSE s.nrMultis
           score == [s.multscore EXCEPT ![band] = @ + 1]
           t1    == [s EXCEPT !.multis = table]
           t2    == [t1 EXCEPT !.nrMultis = nr]
           t     == [t2 EXCEPT !.multscore = score]
<1>1. s \in Stats /\ CountersMatch(s) /\ PrefixesMatch(s)
  BY DEF Good
<1>2. CASE ~NewMulti(s, name, band, mode, multMode)
  BY <1>2 DEF RememberMulti
<1>3. CASE NewMulti(s, name, band, mode, multMode)
  <2>1. /\ s.multis \in [MultNames -> SUBSET (Modes \X Bands)]
        /\ s.multscore \in [Bands -> Nat] /\ s.nrMultis \in Nat
    BY <1>1 DEF Stats
  <2>2. name \in MultNames /\ m \in Modes /\ <<m, band>> \notin s.multis[name]
    BY <1>3, ScoringAssumption DEF NewMulti, EffectiveMode
  <2>3. t = RememberMulti(s, name, band, mode, multMode)
    BY <1>1, <1>3 DEF RememberMulti, Stats
  <2> HIDE DEF m
  <2>4. /\ table \in [MultNames -> SUBSET (Modes \X Bands)]
        /\ score \in [Bands -> Nat] /\ nr \in Nat
    BY <2>1, <2>2
  <2>5. ASSUME NEW b \in Bands
        PROVE  score[b] = MultisOn(table, b)
    <3>1. MultisOn(table, b) = IF b = band THEN MultisOn(s.multis, b) + 1
                               ELSE MultisOn(s.multis, b)
      BY <2>1, <2>2, MultisOnGrows, FiniteMults
    <3>2. s.multscore[b] = MultisOn(s.multis, b)
      BY <1>1 DEF CountersMatch
    <3> QED  BY <2>1, <3>1, <3>2
  <2>6. nr = EverWorked(table)
    <3>1. <<m, band>> \in Modes \X Bands
      BY <2>2
    <3>2. EverWorked(table) = IF s.multis[name] = {} THEN EverWorked(s.multis) + 1
                              ELSE EverWorked(s.multis)
      <4>1. Grows(MultNames, s.multis, table, name)
        BY <2>1, <2>2, <3>1 DEF Grows
      <4> HIDE DEF table
      <4> QED  BY <4>1, EverWorkedGrows, FiniteMults
    <3>3. s.nrMultis = EverWorked(s.multis)
      BY <1>1 DEF CountersMatch
    <3> QED  BY <3>2, <3>3
  <2> HIDE DEF table, score, nr
  <2>7. /\ t1 \in Stats
        /\ t1.countryscore = s.countryscore /\ t1.countries = s.countries
        /\ t1.zonescore = s.zonescore /\ t1.zones = s.zones /\ t1.multis = table
        /\ t1.nrOfPx = s.nrOfPx /\ t1.prefixes = s.prefixes
    BY <1>1, <2>4 DEF Stats
  <2> HIDE DEF t1
  <2>8. /\ t2 \in Stats
        /\ t2.countryscore = t1.countryscore /\ t2.countries = t1.countries
        /\ t2.zonescore = t1.zonescore /\ t2.zones = t1.zones
        /\ t2.multis = t1.multis /\ t2.nrMultis = nr
        /\ t2.nrOfPx = t1.nrOfPx /\ t2.prefixes = t1.prefixes
    BY <2>4, <2>7 DEF Stats
  <2> HIDE DEF t2
  <2>9. /\ t \in Stats
        /\ t.countryscore = t2.countryscore /\ t.countries = t2.countries
        /\ t.zonescore = t2.zonescore /\ t.zones = t2.zones
        /\ t.multis = t2.multis /\ t.nrMultis = t2.nrMultis /\ t.multscore = score
        /\ t.nrOfPx = t2.nrOfPx /\ t.prefixes = t2.prefixes
    BY <2>4, <2>8 DEF Stats
  <2> HIDE DEF t
  <2> QED  BY <1>1, <2>3, <2>5, <2>6, <2>7, <2>8, <2>9
           DEF Good, CountersMatch, PrefixesMatch
<1> QED  BY <1>2, <1>3

(* add_pfx() counts a prefix once in nr_of_px; an empty one is not counted *)
(* there.                                                                  *)
LEMMA AddPfxGood ==
    ASSUME NEW s, Good(s), NEW px \in WpxPrefixes \cup {None}, NEW band \in Bands
    PROVE  Good(AddPfx(s, px, band))
<1> DEFINE nrAb  == s.nrOfPxAb + 1
           perB  == [s.pfxsPerBand EXCEPT ![band] = @ + 1]
           nr    == IF px = None \/ s.prefixes[px] # {} THEN s.nrOfPx ELSE s.nrOfPx + 1
           table == [s.prefixes EXCEPT ![px] = @ \cup {band}]
           t1    == [s EXCEPT !.nrOfPxAb = nrAb]
           t2    == [t1 EXCEPT !.pfxsPerBand = perB]
           t3    == [t2 EXCEPT !.nrOfPx = nr]
           t     == [t3 EXCEPT !.prefixes = table]
<1>1. s \in Stats /\ CountersMatch(s) /\ PrefixesMatch(s)
  BY DEF Good
<1>2. /\ s.nrOfPxAb \in Nat /\ s.pfxsPerBand \in [Bands -> Nat] /\ s.nrOfPx \in Nat
      /\ s.prefixes \in [WpxPrefixes -> SUBSET Bands]
  BY <1>1 DEF Stats
<1>3. nrAb \in Nat /\ perB \in [Bands -> Nat] /\ nr \in Nat
  BY <1>2
<1>4. t3 = CountPfx(s, px, band)
  BY <1>1 DEF CountPfx, Stats
<1> HIDE DEF nrAb, perB, nr
<1>5. /\ t1 \in Stats
      /\ t1.countryscore = s.countryscore /\ t1.countries = s.countries
      /\ t1.zonescore = s.zonescore /\ t1.zones = s.zones
      /\ t1.multis = s.multis /\ t1.nrMultis = s.nrMultis /\ t1.multscore = s.multscore
      /\ t1.prefixes = s.prefixes
  BY <1>1, <1>3 DEF Stats
<1> HIDE DEF t1
<1>6. /\ t2 \in Stats
      /\ t2.countryscore = t1.countryscore /\ t2.countries = t1.countries
      /\ t2.zonescore = t1.zonescore /\ t2.zones = t1.zones
      /\ t2.multis = t1.multis /\ t2.nrMultis = t1.nrMultis /\ t2.multscore = t1.multscore
      /\ t2.prefixes = t1.prefixes
  BY <1>3, <1>5 DEF Stats
<1> HIDE DEF t2
<1>7. /\ t3 \in Stats
      /\ t3.countryscore = t2.countryscore /\ t3.countries = t2.countries
      /\ t3.zonescore = t2.zonescore /\ t3.zones = t2.zones
      /\ t3.multis = t2.multis /\ t3.nrMultis = t2.nrMultis /\ t3.multscore = t2.multscore
      /\ t3.prefixes = t2.prefixes /\ t3.nrOfPx = nr
  BY <1>3, <1>6 DEF Stats
<1> HIDE DEF t3
<1>8. CountersMatch(t3)
  BY <1>1, <1>5, <1>6, <1>7 DEF CountersMatch
<1>9. CASE px = None
  <2>1. nr = s.nrOfPx
    BY <1>9 DEF nr
  <2> QED  BY <1>1, <1>4, <1>5, <1>6, <1>7, <1>8, <1>9, <2>1 DEF AddPfx, Good, PrefixesMatch
<1>10. CASE px # None /\ band \in s.prefixes[px]
  BY <1>10 DEF AddPfx
<1>11. CASE px # None /\ band \notin s.prefixes[px]
  <2>1. px \in WpxPrefixes
    BY <1>11
  <2>2. table \in [WpxPrefixes -> SUBSET Bands]
    BY <1>2, <2>1
  <2>3. nr = EverWorked(table)
    <3>1. EverWorked(table) = IF s.prefixes[px] = {} THEN EverWorked(s.prefixes) + 1
                              ELSE EverWorked(s.prefixes)
      <4>1. Grows(WpxPrefixes, s.prefixes, table, px)
        BY <1>2, <2>1 DEF Grows
      <4> HIDE DEF table
      <4> QED  BY <4>1, EverWorkedGrows, FiniteAssumption
    <3>2. s.nrOfPx = EverWorked(s.prefixes)
      BY <1>1 DEF PrefixesMatch
    <3> QED  BY <1>11, <3>1, <3>2 DEF nr
  <2>4. t = AddPfx(s, px, band)
    <3>1. t3.prefixes = s.prefixes
      BY <1>5, <1>6, <1>7
    <3>2. AddPfx(s, px, band) = [t3 EXCEPT !.prefixes[px] = @ \cup {band}]
      BY <1>4, <1>11 DEF AddPfx
    <3>3. [t3 EXCEPT !.prefixes[px] = @ \cup {band}] = t
      BY <1>7, <3>1 DEF Stats
    <3> QED  BY <3>2, <3>3
  <2> HIDE DEF table
  <2>5. /\ t \in Stats
        /\ t.countryscore = t3.countryscore /\ t.countries = t3.countries
        /\ t.zonescore = t3.zonescore /\ t.zones = t3.zones
        /\ t.multis = t3.multis /\ t.nrMultis = t3.nrMultis /\ t.multscore = t3.multscore
        /\ t.prefixes = table /\ t.nrOfPx = t3.nrOfPx
    BY <1>7, <2>2 DEF Stats
  <2> HIDE DEF t
  <2> QED  BY <1>7, <1>8, <2>3, <2>4, <2>5 DEF Good, CountersMatch, PrefixesMatch
<1> QED  BY <1>9, <1>10, <1>11

-----------------------------------------------------------------------------
(* Whole entries.                                                          *)

(* addcall()'s part for the station itself. *)
LEMMA AddStationGood ==
    ASSUME NEW ct, NEW s, Good(s), NEW call \in Calls,
           NEW comment \in Exchanges \cup {None}, NEW band \in Bands
    PROVE  Good(AddStation(ct, s, call, comment, band))
<1>1. Country[call] \in Countries
  BY ScoringAssumption
<1>2. ZoneNr(ct, comment) \in Zones \cup {None}
  BY DEF ZoneNr
<1>3. Good(MarkWorked(s, call, band))
  BY MarkWorkedGood
<1>4. Good(AddCountry(MarkWorked(s, call, band), Country[call], band))
  BY <1>1, <1>3, AddCountryGood
<1> QED  BY <1>2, <1>4, AddZoneGood DEF AddStation

(* addmult(), whatever kind of multiplier the contest has. *)
LEMMA AddMultGood ==
    ASSUME NEW ct, NEW s, Good(s), NEW q, IsQso(q), q.comment \in Exchanges
    PROVE  Good(AddMult(ct, s, q))
<1>1. MultName(ct, q) \in MultNames \cup {None}
  BY DEF MultName, MultNames, IsQso
<1> QED  BY <1>1, RememberMultiGood DEF AddMult, IsQso

(* addcall() *)
LEMMA AddCallGood ==
    ASSUME NEW ct, NEW s, Good(s), NEW q, IsQso(q), q.comment \in Exchanges,
           NEW px \in WpxPrefixes \cup {None}
    PROVE  Good(AddCall(ct, s, px, q))
<1> DEFINE seen    == UpdateWorked(s, q)
           pfxed   == IF AddsPfx(ct, q.call) THEN AddPfx(seen, px, q.band) ELSE seen
           counted == CountQso(pfxed, q.band)
           added   == IF AddOk(ct, q.call)
                      THEN AddStation(ct, counted, q.call, q.comment, q.band)
                      ELSE counted
<1>1. q.call \in Calls /\ q.band \in Bands
  BY DEF IsQso
<1>2. Good(seen)
  BY UpdateWorkedGood
<1> HIDE DEF seen
<1>3. Good(pfxed)
  BY <1>1, <1>2, AddPfxGood
<1> HIDE DEF pfxed
<1>4. Good(counted)
  BY <1>1, <1>3, CountQsoGood
<1> HIDE DEF counted
<1>5. Good(added)
  BY <1>1, <1>4, AddStationGood
<1> HIDE DEF added
<1>6. Good(AddMult(ct, added, q))
  BY <1>5, AddMultGood
<1> QED  BY <1>6 DEF AddCall, added, counted, pfxed, seen

(* A line that another node may send to a node in this contest. *)
IsLanLine(ct, line) ==
    /\ line \in [call : Calls, band : Bands, mode : Modes, time : Nat,
                 comment : Exchanges, points : Nat, mark : SUBSET Marks]
    /\ ct.pfx # "none" => line.mark \subseteq WpxPrefixes
    /\ ct.mult = "unique_call" => line.mark \subseteq MultNames

(* The prefix found in columns 68 to 75 of a LAN entry. *)
LEMMA LanPfxGood ==
    ASSUME NEW ct, NEW s, Good(s), NEW line, IsLanLine(ct, line)
    PROVE  Good(LanPfx(ct, s, line))
<1>1. CASE ct.pfx = "none" \/ line.mark = {}
  BY <1>1 DEF LanPfx
<1>2. CASE ct.pfx # "none" /\ line.mark # {}
  <2> DEFINE px == CHOOSE px \in line.mark : TRUE
  <2>1. px \in WpxPrefixes \cup {None} /\ line.band \in Bands
    BY <1>2 DEF IsLanLine
  <2> HIDE DEF px
  <2>2. Good(AddPfx(s, px, line.band))
    BY <2>1, AddPfxGood
  <2> QED  BY <1>2, <2>2 DEF LanPfx, px
<1> QED  BY <1>1, <1>2

(* addmult_lan() *)
LEMMA AddMultLanGood ==
    ASSUME NEW ct, NEW s, Good(s), NEW line, IsLanLine(ct, line),
           NEW radio, radio.band \in Bands
    PROVE  Good(AddMultLan(ct, s, line, radio))
<1>1. CWMODE \in Modes
  BY ScoringAssumption
<1>2. ASSUME NEW name \in MultNames
      PROVE  Good(RememberMulti(s, name, radio.band, CWMODE, ct.multMode))
  BY <1>1, RememberMultiGood
<1>3. CASE ct.mult = "wysiwyg"
  <2>1. line.comment \in MultNames
    BY DEF IsLanLine, MultNames
  <2> QED  BY <1>2, <1>3, <2>1 DEF AddMultLan
<1>4. CASE /\ ct.mult = "unique_call" /\ ct.multMode # "band_mode"
           /\ line.mark # {}
  <2> DEFINE name == CHOOSE n \in line.mark : TRUE
  <2>1. name \in MultNames
    BY <1>4 DEF IsLanLine
  <2> HIDE DEF name
  <2>2. Good(RememberMulti(s, name, radio.band, CWMODE, ct.multMode))
    BY <1>2, <2>1
  <2>3. AddMultLan(ct, s, line, radio)
            = RememberMulti(s, name, radio.band, CWMODE, ct.multMode)
    BY <1>4 DEF AddMultLan, name
  <2> QED  BY <2>2, <2>3
<1>5. CASE /\ ct.mult # "wysiwyg"
           /\ ~ /\ ct.mult = "unique_call" /\ ct.multMode # "band_mode"
                /\ line.mark # {}
  BY <1>5 DEF AddMultLan
<1> QED  BY <1>3, <1>4, <1>5

(* addcall2() *)
LEMMA AddCall2Good ==
    ASSUME NEW ct, NEW s, Good(s), NEW line, IsLanLine(ct, line),
           NEW radio, radio.band \in Bands
    PROVE  Good(AddCall2(ct, s, line, radio))
<1> DEFINE q     == [line EXCEPT !.comment = None]
           seen  == UpdateWorked(s, q)
           added == IF CheckVeto(ct, line.call) THEN seen
                    ELSE AddStation(ct, CountQso(seen, line.band),
                                    line.call, line.comment, line.band)
           pfxed == LanPfx(ct, added, line)
<1>1. line.call \in Calls /\ line.band \in Bands /\ line.comment \in Exchanges
  BY DEF IsLanLine
<1>2. IsQso(q)
  BY DEF IsLanLine, IsQso
<1> HIDE DEF q
<1>3. Good(seen)
  BY <1>2, UpdateWorkedGood
<1> HIDE DEF seen
<1>4. Good(added)
  <2>1. Good(CountQso(seen, line.band))
    BY <1>1, <1>3, CountQsoGood
  <2>2. Good(AddStation(ct, CountQso(seen, line.band),
                        line.call, line.comment, line.band))
    BY <1>1, <2>1, AddStationGood
  <2> QED  BY <1>3, <2>2
<1> HIDE DEF added
<1>5. Good(pfxed)
  BY <1>4, LanPfxGood
<1> HIDE DEF pfxed
<1>6. Good(AddMultLan(ct, pfxed, line, radio))
  BY <1>5, AddMultLanGood
<1> QED  BY <1>6 DEF AddCall2, pfxed, added, seen, q

-----------------------------------------------------------------------------
(* worked[].qsotime.                                                       *)

(* Only update_worked() writes it. *)
LEMMA TimeKept ==
    ASSUME NEW s, s \in Stats, NEW call, NEW comment, NEW band, NEW px, NEW name, NEW mode,
           NEW multMode, NEW points, NEW ct
    PROVE  /\ CountQso(s, band).time = s.time
           /\ ScoreQso(s, points).time = s.time
           /\ AddPfx(s, px, band).time = s.time
           /\ RememberMulti(s, name, band, mode, multMode).time = s.time
           /\ AddStation(ct, s, call, comment, band).time = s.time
<1> DEFINE HasTime(t) == "time" \in DOMAIN t /\ t.time = s.time
<1>1. HasTime(s)
  BY DEF Stats
<1>2. HasTime(CountQso(s, band)) /\ HasTime(ScoreQso(s, points))
  BY <1>1 DEF CountQso, ScoreQso
<1>3. HasTime(CountPfx(s, px, band))
  BY <1>1 DEF CountPfx
<1>4. HasTime(AddPfx(s, px, band))
  <2> DEFINE t == CountPfx(s, px, band)
  <2>1. HasTime(t)
    BY <1>3
  <2>2. AddPfx(s, px, band) \in {s, t, [t EXCEPT !.prefixes[px] = @ \cup {band}]}
    BY DEF AddPfx
  <2> HIDE DEF t
  <2> QED  BY <1>1, <2>1, <2>2
<1>5. HasTime(RememberMulti(s, name, band, mode, multMode))
  BY <1>1 DEF RememberMulti
<1>6. HasTime(MarkWorked(s, call, band))
  BY <1>1 DEF MarkWorked
<1>7. ASSUME NEW t, HasTime(t), NEW cty, NEW zone
      PROVE  HasTime(AddCountry(t, cty, band)) /\ HasTime(AddZone(t, zone, band))
  BY <1>7 DEF AddCountry, AddZone
<1>8. HasTime(AddStation(ct, s, call, comment, band))
  BY <1>6, <1>7 DEF AddStation
<1> QED  BY <1>2, <1>4, <1>5, <1>8

(* It writes the entry of the QSO. *)
LEMMA UpdateWorkedTime ==
    ASSUME NEW s, s \in Stats, NEW q, IsQso(q), NEW c \in Calls, NEW m \in Modes, NEW b \in Bands
    PROVE  UpdateWorked(s, q).time[c][m][b] =
               IF c = q.call /\ m = q.mode /\ b = q.band THEN q.time ELSE s.time[c][m][b]
<1> DEFINE time == [s.time EXCEPT ![q.call][q.mode][q.band] = q.time]
<1>1. s.time \in [Calls -> [Modes -> [Bands -> Nat]]]
  BY DEF Stats
<1>2. UpdateWorked(s, q).time = time
  BY DEF UpdateWorked, Stats
<1>3. time[c][m][b] = IF c = q.call /\ m = q.mode /\ b = q.band THEN q.time
                      ELSE s.time[c][m][b]
  BY <1>1 DEF IsQso
<1> QED  BY <1>2, <1>3

(* addcall() *)
LEMMA AddCallTime ==
    ASSUME NEW ct, NEW s, Good(s), NEW q, IsQso(q), q.comment \in Exchanges,
           NEW px \in WpxPrefixes \cup {None}
    PROVE  AddCall(ct, s, px, q).time = UpdateWorked(s, q).time
<1> DEFINE seen    == UpdateWorked(s, q)
           pfxed   == IF AddsPfx(ct, q.call) THEN AddPfx(seen, px, q.band) ELSE seen
           counted == CountQso(pfxed, q.band)
           added   == IF AddOk(ct, q.call)
                      THEN AddStation(ct, counted, q.call, q.comment, q.band)
                      ELSE counted
<1>1. q.call \in Calls /\ q.band \in Bands
  BY DEF IsQso
<1>2. Good(seen)
  BY UpdateWorkedGood
<1> HIDE DEF seen
<1>3. Good(pfxed) /\ pfxed.time = seen.time
  BY <1>1, <1>2, AddPfxGood, TimeKept DEF Good
<1> HIDE DEF pfxed
<1>4. Good(counted) /\ counted.time = pfxed.time
  BY <1>1, <1>3, CountQsoGood, TimeKept DEF Good
<1> HIDE DEF counted
<1>5. Good(added) /\ added.time = counted.time
  <2>1. Good(added)
    BY <1>1, <1>4, AddStationGood
  <2>2. AddStation(ct, counted, q.call, q.comment, q.band).time = counted.time
    BY <1>4, TimeKept DEF Good
  <2> QED  BY <2>1, <2>2
<1> HIDE DEF added
<1>6. AddMult(ct, added, q).time = added.time
  BY <1>5, TimeKept DEF AddMult, Good
<1> QED  BY <1>3, <1>4, <1>5, <1>6 DEF AddCall, added, counted, pfxed, seen

(* addcall2() *)
LEMMA AddCall2Time ==
    ASSUME NEW ct, NEW s, Good(s), NEW line, IsLanLine(ct, line),
           NEW radio, radio.band \in Bands
    PROVE  AddCall2(ct, s, line, radio).time
               = UpdateWorked(s, [line EXCEPT !.comment = None]).time
<1> DEFINE q     == [line EXCEPT !.comment = None]
           seen  == UpdateWorked(s, q)
           added == IF CheckVeto(ct, line.call) THEN seen
                    ELSE AddStation(ct, CountQso(seen, line.band),
                                    line.call, line.comment, line.band)
           pfxed == LanPfx(ct, added, line)
<1>1. line.call \in Calls /\ line.band \in Bands /\ line.comment \in Exchanges
  BY DEF IsLanLine
<1>2. IsQso(q)
  BY DEF IsLanLine, IsQso
<1>3. Good(seen)
  <2> HIDE DEF q
  <2> QED  BY <1>2, UpdateWorkedGood
<1> HIDE DEF seen
<1>4. Good(added) /\ added.time = seen.time
  <2> DEFINE counted == CountQso(seen, line.band)
  <2>1. Good(counted) /\ counted.time = seen.time
    BY <1>1, <1>3, CountQsoGood, TimeKept DEF Good
  <2> HIDE DEF counted
  <2> DEFINE station == AddStation(ct, counted, line.call, line.comment, line.band)
  <2>2. Good(station) /\ station.time = counted.time
    <3>1. Good(station)
      BY <1>1, <2>1, AddStationGood
    <3>2. station.time = counted.time
      BY <2>1, TimeKept DEF Good
    <3> QED  BY <3>1, <3>2
  <2> HIDE DEF station
  <2> QED  BY <1>3, <2>1, <2>2 DEF counted, station
<1> HIDE DEF added
<1>5. Good(pfxed) /\ pfxed.time = added.time
  <2>1. added \in Stats
    BY <1>4 DEF Good
  <2>2. pfxed.time = added.time
    BY <2>1, TimeKept DEF LanPfx
  <2> QED  BY <1>4, <2>2, LanPfxGood
<1> HIDE DEF pfxed
<1>6. AddMultLan(ct, pfxed, line, radio).time = pfxed.time
  <2>1. pfxed \in Stats
    BY <1>5 DEF Good
  <2> DEFINE Kept(t) == t.time = pfxed.time
  <2>2. \A name : Kept(RememberMulti(pfxed, name, radio.band, CWMODE, ct.multMode))
    BY <2>1, TimeKept
  <2>3. \/ AddMultLan(ct, pfxed, line, radio) = pfxed
        \/ \E name : AddMultLan(ct, pfxed, line, radio)
                        = RememberMulti(pfxed, name, radio.band, CWMODE, ct.multMode)
    <3>1. CASE ct.mult = "wysiwyg"
      BY <3>1 DEF AddMultLan
    <3>2. CASE /\ ct.mult = "unique_call" /\ ct.multMode # "band_mode"
               /\ line.mark # {}
      <4> DEFINE name == CHOOSE n \in line.mark : TRUE
      <4>1. AddMultLan(ct, pfxed, line, radio)
                = RememberMulti(pfxed, name, radio.band, CWMODE, ct.multMode)
        BY <3>2 DEF AddMultLan
      <4> HIDE DEF name
      <4> QED  BY <4>1
    <3>3. CASE /\ ct.mult # "wysiwyg"
               /\ ~ /\ ct.mult = "unique_call" /\ ct.multMode # "band_mode"
                    /\ line.mark # {}
      BY <3>3 DEF AddMultLan
    <3> QED  BY <3>1, <3>2, <3>3
  <2> QED  BY <2>2, <2>3
<1> QED  BY <1>4, <1>5, <1>6 DEF AddCall2, pfxed, added, seen, q

-----------------------------------------------------------------------------
(* The total.                                                              *)

(* addcall() and addcall2() leave the points to score_qso(). *)
LEMMA TotalKept ==
    ASSUME NEW ct, NEW s, s \in Stats, NEW px, NEW q, NEW radio
    PROVE  /\ AddCall(ct, s, px, q).total = s.total
           /\ AddCall2(ct, s, q, radio).total = s.total
<1> DEFINE HasTotal(t) == "total" \in DOMAIN t /\ t.total = s.total
<1>1. HasTotal(s)
  BY DEF Stats
<1>2. ASSUME NEW t, HasTotal(t), NEW x
      PROVE  HasTotal(UpdateWorked(t, x))
  BY <1>2 DEF UpdateWorked
<1>3. ASSUME NEW t, HasTotal(t), NEW b
      PROVE  HasTotal(CountQso(t, b))
  BY <1>3 DEF CountQso
<1>4. ASSUME NEW t, HasTotal(t), NEW p, NEW b
      PROVE  HasTotal(AddPfx(t, p, b))
  <2> DEFINE u == CountPfx(t, p, b)
  <2>1. HasTotal(u)
    BY <1>4 DEF CountPfx
  <2>2. AddPfx(t, p, b) \in {t, u, [u EXCEPT !.prefixes[p] = @ \cup {b}]}
    BY DEF AddPfx
  <2> HIDE DEF u
  <2> QED  BY <1>4, <2>1, <2>2
<1>5. ASSUME NEW t, HasTotal(t), NEW name, NEW b, NEW mode, NEW multMode
      PROVE  HasTotal(RememberMulti(t, name, b, mode, multMode))
  BY <1>5 DEF RememberMulti
<1>6. ASSUME NEW t, HasTotal(t), NEW call, NEW comment, NEW b
      PROVE  HasTotal(AddStation(ct, t, call, comment, b))
  <2>1. HasTotal(MarkWorked(t, call, b))
    BY <1>6 DEF MarkWorked
  <2>2. ASSUME NEW u, HasTotal(u), NEW cty, NEW zone
        PROVE  HasTotal(AddCountry(u, cty, b)) /\ HasTotal(AddZone(u, zone, b))
    BY <2>2 DEF AddCountry, AddZone
  <2> QED  BY <2>1, <2>2 DEF AddStation
<1>7. ASSUME NEW t, HasTotal(t)
      PROVE  HasTotal(LanPfx(ct, t, q)) /\ HasTotal(AddMultLan(ct, t, q, radio))
  <2>1. HasTotal(LanPfx(ct, t, q))
    BY <1>4, <1>7 DEF LanPfx
  <2>2. \A name : HasTotal(RememberMulti(t, name, radio.band, CWMODE, ct.multMode))
    BY <1>5, <1>7
  <2>3. CASE ct.mult = "wysiwyg"
    BY <2>1, <2>2, <2>3 DEF AddMultLan
  <2>4. CASE /\ ct.mult = "unique_call" /\ ct.multMode # "band_mode"
             /\ q.mark # {}
    <3> DEFINE name == CHOOSE n \in q.mark : TRUE
    <3>1. AddMultLan(ct, t, q, radio)
              = RememberMulti(t, name, radio.band, CWMODE, ct.multMode)
      BY <2>4 DEF AddMultLan
    <3> HIDE DEF name
    <3> QED  BY <2>1, <2>2, <3>1
  <2>5. CASE /\ ct.mult # "wysiwyg"
             /\ ~ /\ ct.mult = "unique_call" /\ ct.multMode # "band_mode"
                  /\ q.mark # {}
    BY <1>7, <2>1, <2>5 DEF AddMultLan
  <2> QED  BY <2>3, <2>4, <2>5
<1> HIDE DEF HasTotal
<1>8. HasTotal(AddCall(ct, s, px, q))
  <2> DEFINE seen    == UpdateWorked(s, q)
             pfxed   == IF AddsPfx(ct, q.call) THEN AddPfx(seen, px, q.band) ELSE seen
             counted == CountQso(pfxed, q.band)
             added   == IF AddOk(ct, q.call)
                        THEN AddStation(ct, counted, q.call, q.comment, q.band)
                        ELSE counted
  <2>1. HasTotal(seen)
    BY <1>1, <1>2
  <2> HIDE DEF seen
  <2>2. HasTotal(pfxed)
    BY <1>4, <2>1
  <2> HIDE DEF pfxed
  <2>3. HasTotal(counted)
    BY <1>3, <2>2
  <2> HIDE DEF counted
  <2>4. HasTotal(added)
    BY <1>6, <2>3
  <2> HIDE DEF added
  <2>5. HasTotal(AddMult(ct, added, q))
    BY <1>5, <2>4 DEF AddMult
  <2> QED  BY <2>5 DEF AddCall, added, counted, pfxed, seen
<1>9. HasTotal(AddCall2(ct, s, q, radio))
  <2> DEFINE seen  == UpdateWorked(s, [q EXCEPT !.comment = None])
             added == IF CheckVeto(ct, q.call) THEN seen
                      ELSE AddStation(ct, CountQso(seen, q.band),
                                      q.call, q.comment, q.band)
  <2>1. HasTotal(seen)
    BY <1>1, <1>2
  <2> HIDE DEF seen
  <2>2. HasTotal(added)
    BY <1>3, <1>6, <2>1
  <2> HIDE DEF added
  <2>3. HasTotal(AddMultLan(ct, LanPfx(ct, added, q), q, radio))
    BY <1>7, <2>2
  <2> QED  BY <2>3 DEF AddCall2, added, seen
<1> QED  BY <1>8, <1>9 DEF HasTotal

-----------------------------------------------------------------------------
(* Lines that are about the same contact.                                  *)

\* The fields that scoring reads.
Alike(q, r) ==
    /\ r.call = q.call /\ r.band = q.band /\ r.mode = q.mode
    /\ r.time = q.time /\ r.comment = q.comment

(* The score printed in a line, and the prefix in a contest without prefixes, *)
(* make no difference when the line is scored again.                          *)
LEMMA AlikeScored ==
    ASSUME NEW ct, NEW s, NEW q, NEW r, Alike(q, r), NEW px, NEW py,
           ct.pfx = "none" \/ px = py
    PROVE  /\ AddCall(ct, s, px, q) = AddCall(ct, s, py, r)
           /\ Mark(ct, s, px, q) = Mark(ct, s, py, r)
<1>1. UpdateWorked(s, q) = UpdateWorked(s, r)
  BY DEF UpdateWorked, Alike
<1>2. MultName(ct, q) = MultName(ct, r) /\ MultMode(ct, q) = MultMode(ct, r)
  BY DEF MultName, MultMode, CountsSection, HomeSections, Alike
<1>3. \A t : AddMult(ct, t, q) = AddMult(ct, t, r)
  BY <1>2 DEF AddMult, Alike
<1>4. AddCall(ct, s, px, q) = AddCall(ct, s, py, r)
  <2>1. q.call = r.call /\ q.band = r.band /\ q.comment = r.comment
    BY DEF Alike
  <2>2. ct.pfx = "none" => ~AddsPfx(ct, q.call)
    BY DEF AddsPfx
  <2> QED  BY <1>1, <1>3, <2>1, <2>2 DEF AddCall
<1>5. Mark(ct, s, px, q) = Mark(ct, s, py, r)
  BY <1>2 DEF Mark, NewCty, NewZone, NewMult, Alike
<1> QED  BY <1>4, <1>5

-----------------------------------------------------------------------------
(* What ends up in a line of the log.                                      *)

(* The marks that a QSO earns are those of its contest. *)
LEMMA MarkType ==
    ASSUME NEW ct, NEW s, NEW q, IsQso(q), q.comment \in Exchanges,
           NEW px \in WpxPrefixes \cup {None}
    PROVE  /\ Mark(ct, s, px, q) \subseteq Marks
           /\ ct.pfx # "none" => Mark(ct, s, px, q) \subseteq WpxPrefixes
           /\ /\ ct.mult = "unique_call" /\ ct.pfx = "none"
              /\ ~ct.zones /\ ~ct.dxSections
              => Mark(ct, s, px, q) \subseteq MultNames
<1>1. MultName(ct, q) \in MultNames \cup {None}
  BY DEF MultName, MultNames, IsQso
<1>2. NewMult(ct, s, q) => MultName(ct, q) \in MultNames
  BY <1>1 DEF NewMult, NewMulti
<1>3. Country[q.call] \in Countries
  BY ScoringAssumption DEF IsQso
<1>4. q.comment \in MultNames
  BY DEF MultNames
<1>5. CASE ct.pfx # "none"
  BY <1>5 DEF Mark, Marks
<1>6. CASE ct.pfx = "none"
  <2>1. CASE ct.zones
    BY <1>3, <1>4, <1>6, <2>1 DEF Mark, Marks
  <2>2. CASE ~ct.zones /\ ct.dxSections /\ Country[q.call] \notin HomeCountries
    BY <1>3, <1>6, <2>2 DEF Mark, Marks
  <2>3. CASE ~ct.zones /\ ~(ct.dxSections /\ Country[q.call] \notin HomeCountries)
    BY <1>2, <1>6, <2>3 DEF Mark, Marks
  <2> QED  BY <2>1, <2>2, <2>3
<1> QED  BY <1>5, <1>6

-----------------------------------------------------------------------------
(* The log: types and counters.                                            *)

IInv == TypeOK /\ CountersAgree /\ PrefixesAgree

-----------------------------------------------------------------------------
(* Lines.                                                                  *)

(* makelogline() prints lines. *)
LEMMA MakeLineType ==
    ASSUME NEW q, IsQso(q), q.comment \in Exchanges, NEW points \in Nat,
           NEW mark \in SUBSET Marks
    PROVE  MakeLine(q, points, mark) \in QsoLine
BY DEF MakeLine, QsoLine, IsQso

(* The rules of every setup are rules. *)
LEMMA ContestType ==
    ASSUME setup \in Setups
    PROVE  /\ contest \in Contest
           /\ contest.points \in [Modes -> Nat]
           /\ setup.calls \subseteq Calls
BY LogbookAssumption DEF contest, Setup, Contest

(* The editor keeps the points, and no time becomes 0. *)
LEMMA EditedType ==
    ASSUME setup \in Setups, now \in Nat, NEW l \in QsoLine, NEW line \in Edited(l)
    PROVE  /\ line \in QsoLine /\ line.points = l.points
           /\ l.time # 0 => line.time # 0
<1>1. setup.calls \subseteq Calls
  BY ContestType
<1>2. CASE \E c \in setup.calls : line = [l EXCEPT !.call = c]
  BY <1>1, <1>2 DEF QsoLine
<1>3. CASE \E p \in Bands \X Modes : line = [l EXCEPT !.band = p[1], !.mode = p[2]]
  BY <1>3 DEF QsoLine
<1>4. CASE \E t \in 1..now : line = [l EXCEPT !.time = t]
  BY <1>4 DEF QsoLine
<1>5. CASE \E x \in Exchanges : line = [l EXCEPT !.comment = x]
  BY <1>5 DEF QsoLine
<1> QED  BY <1>2, <1>3, <1>4, <1>5 DEF Edited

(* Points are natural numbers. *)
LEMMA ScoreType ==
    ASSUME setup \in Setups, NEW q, IsQso(q), NEW dupe
    PROVE  Score(contest, q, dupe) \in Nat
BY ContestType DEF Score, IsQso

(* The prefix that addcall() adds. *)
LEMMA PxType ==
    ASSUME wpxPrefix \in WpxPrefixes \cup {None}, NEW call \in Calls
    PROVE  /\ Px(call) \in WpxPrefixes \cup {None}
           /\ SearchlogPx(call) \in WpxPrefixes \cup {None}
BY ScoringAssumption DEF Px, SearchlogPx

(* What scoring fills in has its type. *)
LEMMA QsoScored ==
    ASSUME IInv, NEW q, IsQso(q), q.comment \in Exchanges, NEW dupe
    PROVE  /\ Score(contest, q, dupe) \in Nat
           /\ Mark(contest, st, Px(q.call), q) \in SUBSET Marks
<1>1. setup \in Setups /\ wpxPrefix \in WpxPrefixes \cup {None} /\ q.call \in Calls
  BY DEF IInv, TypeOK, IsQso
<1>2. Px(q.call) \in WpxPrefixes \cup {None}
  BY <1>1, PxType
<1> QED  BY <1>1, <1>2, ScoreType, MarkType

(* One QSO scored by the main thread, from the keyer or from the file. *)
LEMMA OneQso ==
    ASSUME IInv, NEW q, IsQso(q), q.comment \in Exchanges, NEW dupe,
           NEW px, px = Px(q.call), NEW points, points = Score(contest, q, dupe)
    PROVE  /\ Good(ScoreQso(AddCall(contest, st, px, q), points))
           /\ MakeLine(q, points, Mark(contest, st, px, q)) \in Line
<1>1. Good(st) /\ q.call \in Calls
  BY DEF IInv, TypeOK, CountersAgree, PrefixesAgree, Good, IsQso
<1>2. px \in WpxPrefixes \cup {None} /\ points \in Nat
  <2>1. wpxPrefix \in WpxPrefixes \cup {None} /\ setup \in Setups
    BY DEF IInv, TypeOK
  <2>2. px \in WpxPrefixes \cup {None}
    BY <1>1, <2>1, PxType
  <2>3. points \in Nat
    BY <2>1, ScoreType
  <2> QED  BY <2>2, <2>3
<1>3. Good(AddCall(contest, st, px, q))
  BY <1>1, <1>2, AddCallGood
<1>4. Good(ScoreQso(AddCall(contest, st, px, q), points))
  BY <1>2, <1>3, ScoreQsoGood
<1>5. Mark(contest, st, px, q) \in SUBSET Marks
  BY <1>2, MarkType
<1>6. MakeLine(q, points, Mark(contest, st, px, q)) \in QsoLine
  BY <1>2, <1>5, MakeLineType
<1> QED  BY <1>4, <1>6 DEF Line

(* What another node sends is a line of this contest. *)
LEMMA LanLineType ==
    ASSUME IInv, NEW q \in LanQsos, NEW isNew \in BOOLEAN, NEW dupe \in BOOLEAN,
           NEW line,
           line = IF dupe THEN [PrintedBy(q, isNew) EXCEPT !.points = 0]
                  ELSE PrintedBy(q, isNew)
    PROVE  line \in QsoLine /\ IsLanLine(contest, line) /\ line.time = now
<1>1. /\ setup \in Setups /\ now \in Nat
      /\ contest.points \in [Modes -> Nat] /\ CWMODE \in Modes
  BY ContestType, ScoringAssumption DEF IInv, TypeOK
<1>2. IsQso(q) /\ q.comment \in Exchanges /\ q.time = now
  BY <1>1, ContestType DEF LanQsos, IsQso
<1> DEFINE px   == WpxPrefix[q.call]
           mark == IF isNew THEN Mark(contest, InitScoring, px, q) ELSE {}
           pts  == contest.points[CWMODE]
<1>3. px \in WpxPrefixes \cup {None} /\ pts \in Nat
  BY <1>1, <1>2, ScoringAssumption DEF IsQso
<1>4. /\ mark \in SUBSET Marks
      /\ contest.pfx # "none" => mark \subseteq WpxPrefixes
      /\ contest.mult = "unique_call" => mark \subseteq MultNames
  <2> HIDE DEF px
  <2>1. contest.mult = "unique_call" =>
            contest.pfx = "none" /\ ~contest.zones /\ ~contest.dxSections
    BY <1>1, UniqueCallAssumption DEF contest
  <2> QED  BY <1>2, <1>3, <2>1, MarkType
<1>5. PrintedBy(q, isNew) = MakeLine(q, pts, mark)
  BY DEF PrintedBy
<1> HIDE DEF mark, pts, px
<1>6. /\ MakeLine(q, pts, mark) \in QsoLine /\ MakeLine(q, pts, mark).mark = mark
      /\ MakeLine(q, pts, mark).time = now
  BY <1>2, <1>3, <1>4, MakeLineType DEF MakeLine
<1>7. line \in QsoLine /\ line.mark = mark /\ line.time = now
  BY <1>5, <1>6 DEF QsoLine
<1> QED  BY <1>4, <1>7 DEF IsLanLine, QsoLine

(* One QSO of another node. *)
LEMMA OneLanQso ==
    ASSUME IInv, NEW q \in LanQsos, NEW isNew \in BOOLEAN, NEW dupe \in BOOLEAN,
           NEW line,
           line = IF dupe THEN [PrintedBy(q, isNew) EXCEPT !.points = 0]
                  ELSE PrintedBy(q, isNew)
    PROVE  /\ Good(AddCall2(contest, ScoreQso(st, line.points), line, rig))
           /\ line \in Line
<1>1. Good(st) /\ rig.band \in Bands
  BY DEF IInv, TypeOK, CountersAgree, PrefixesAgree, Good
<1>2. line \in QsoLine /\ IsLanLine(contest, line)
  BY LanLineType
<1>3. Good(ScoreQso(st, line.points))
  BY <1>1, <1>2, ScoreQsoGood DEF QsoLine
<1>4. Good(AddCall2(contest, ScoreQso(st, line.points), line, rig))
  BY <1>1, <1>2, <1>3, AddCall2Good
<1> QED  BY <1>2, <1>4 DEF Line

-----------------------------------------------------------------------------
(* The inductive invariant.                                                *)

(* Nothing is worked in the beginning, and the log is empty. *)
LEMMA InitInv == Init => IInv
<1> SUFFICES ASSUME Init PROVE IInv
  OBVIOUS
<1>1. st \in Stats /\ CountersAgree /\ PrefixesAgree
  BY InitGood DEF Init, Good, CountersAgree, PrefixesAgree
<1>2. rig \in [band : Bands, mode : Modes]
  BY ScoringAssumption DEF Init
<1>3. file \in Seq(Line) /\ qsoArray \in Seq(Line) /\ backups \subseteq Seq(Line)
  BY DEF Init
<1>4. current \in [call : Calls \cup {None}, dupe : BOOLEAN]
  BY DEF Init, NoQso
<1>5. /\ setup \in Setups /\ now \in Nat \ {0} /\ pos \in Nat /\ wpxPrefix = None
      /\ phase = "callinput" /\ logChanged = FALSE /\ interactive = TRUE
  BY DEF Init
<1>6. TypeOK
  BY <1>1, <1>2, <1>3, <1>4, <1>5 DEF TypeOK, Phases
<1> QED  BY <1>1, <1>6 DEF IInv

(* What most steps leave alone is still good afterwards. *)
LEMMA GoodIsEnough ==
    ASSUME Good(st')
    PROVE  st' \in Stats /\ CountersAgree' /\ PrefixesAgree'
BY DEF Good, CountersAgree, PrefixesAgree

(* An edited sequence of lines is one. *)
LEMMA EditedSeq ==
    ASSUME NEW lines \in Seq(Line), NEW i, NEW line \in Line
    PROVE  [lines EXCEPT ![i] = line] \in Seq(Line)
<1>1. CASE i \in 1..Len(lines)
  BY <1>1, ExceptSeq
<1>2. CASE i \notin 1..Len(lines)
  <2>1. [lines EXCEPT ![i] = line] = lines
    BY <1>2
  <2> QED  BY <2>1
<1> QED  BY <1>1, <1>2

(* Reading starts with nothing worked. *)
LEMMA StartReadingInv ==
    ASSUME TypeOK, NEW ask \in BOOLEAN, StartReading(ask), file' \in Seq(Line),
           UNCHANGED <<setup, rig, now, backups, wpxPrefix>>
    PROVE  IInv'
<1>1. Good(st') /\ qsoArray' = <<>> /\ pos' = 0 /\ phase' = "reading"
      /\ current' = NoQso /\ logChanged' = FALSE /\ interactive' = ask
  BY InitGood DEF StartReading
<1>2. NoQso \in [call : Calls \cup {None}, dupe : BOOLEAN]
  BY DEF NoQso
<1>3. qsoArray' \in Seq(Line) /\ pos' <= Len(file')
  BY <1>1
<1> QED  BY <1>1, <1>2, <1>3, GoodIsEnough DEF IInv, TypeOK, Phases

(* Every step of Tlf keeps the invariant. *)
LEMMA NextInv == IInv /\ [Next]_vars => IInv'
<1> SUFFICES ASSUME IInv, [Next]_vars PROVE IInv'
  OBVIOUS
<1>1. TypeOK /\ Good(st) /\ Good(InitScoring)
  BY InitGood DEF IInv, TypeOK, CountersAgree, PrefixesAgree, Good
<1>2. NoQso \in [call : Calls \cup {None}, dupe : BOOLEAN] /\ <<>> \in Seq(Line)
  BY DEF NoQso
<1>3. ASSUME NEW call \in Calls, CallInput(call)
      PROVE  IInv'
  <2>1. SearchlogPx(call) \in WpxPrefixes \cup {None}
    BY <1>1, PxType DEF TypeOK
  <2>2. current' \in [call : Calls \cup {None}, dupe : BOOLEAN] /\ current'.call = call
    BY <1>3 DEF CallInput, IsDupe
  <2>3. Good(st')
    BY <1>1, <1>3 DEF CallInput
  <2> QED  BY <1>1, <1>3, <2>1, <2>2, <2>3, GoodIsEnough
           DEF IInv, TypeOK, CallInput, Phases
<1>4. CASE Abandon
  <2>1. Good(st')
    BY <1>1, <1>4 DEF Abandon
  <2> QED  BY <1>1, <1>2, <1>4, <2>1, GoodIsEnough DEF IInv, TypeOK, Abandon, Phases
<1>5. ASSUME NEW exchange \in Exchanges, LogQso(exchange)
      PROVE  IInv'
  <2> DEFINE q      == [call |-> current.call, band |-> rig.band, mode |-> rig.mode,
                        time |-> now, comment |-> exchange]
             px     == Px(q.call)
             points == Score(contest, q, current.dupe)
             line   == MakeLine(q, points, Mark(contest, st, px, q))
  <2>1. IsQso(q) /\ q.comment \in Exchanges
    BY <1>1, <1>5 DEF TypeOK, LogQso, IsQso
  <2>2. /\ st' = ScoreQso(AddCall(contest, st, px, q), points)
        /\ file' = Append(file, line) /\ qsoArray' = Append(qsoArray, line)
        /\ current' = NoQso /\ phase' = "callinput"
        /\ UNCHANGED <<setup, rig, now, backups, wpxPrefix, pos, logChanged, interactive>>
    BY <1>5 DEF LogQso
  <2> HIDE DEF q
  <2>3. Good(st') /\ line \in Line
    BY <2>1, <2>2, OneQso
  <2> HIDE DEF line
  <2>4. file' \in Seq(Line) /\ qsoArray' \in Seq(Line)
    BY <1>1, <2>2, <2>3 DEF TypeOK
  <2> QED  BY <1>1, <1>2, <2>2, <2>3, <2>4, GoodIsEnough DEF IInv, TypeOK, Phases
<1>6. CASE LogLan
  <2>1. PICK q \in LanQsos, isNew \in BOOLEAN, dupe \in BOOLEAN :
            LET printed == PrintedBy(q, isNew)
                line    == IF dupe THEN [printed EXCEPT !.points = 0] ELSE printed
            IN  /\ st' = AddCall2(contest, ScoreQso(st, line.points), line, rig)
                /\ file' = Append(file, line)
                /\ qsoArray' = Append(qsoArray, line)
    BY <1>6 DEF LogLan
  <2> DEFINE line == IF dupe THEN [PrintedBy(q, isNew) EXCEPT !.points = 0]
                     ELSE PrintedBy(q, isNew)
  <2>2. /\ st' = AddCall2(contest, ScoreQso(st, line.points), line, rig)
        /\ file' = Append(file, line) /\ qsoArray' = Append(qsoArray, line)
    BY <2>1
  <2>3. Good(AddCall2(contest, ScoreQso(st, line.points), line, rig)) /\ line \in Line
    BY OneLanQso
  <2> HIDE DEF line
  <2>4. file' \in Seq(Line) /\ qsoArray' \in Seq(Line) /\ Good(st')
    BY <1>1, <2>2, <2>3 DEF TypeOK
  <2>5. phase \in {"callinput", "getexchange"}
    BY <1>6 DEF LogLan, Ready
  <2> QED  BY <1>1, <1>6, <2>4, <2>5, GoodIsEnough DEF IInv, TypeOK, LogLan
<1>7. CASE IncludeNote
  <2>1. Good(st') /\ Note \in Line
    BY <1>1, <1>7 DEF IncludeNote, Line
  <2> QED  BY <1>1, <1>7, <2>1, GoodIsEnough DEF IInv, TypeOK, IncludeNote
<1>8. CASE TuneRig
  <2>1. Good(st')
    BY <1>1, <1>8 DEF TuneRig, memory
  <2>2. rig' \in [band : Bands, mode : Modes]
    BY <1>8, ScoringAssumption DEF TuneRig
  <2> QED  BY <1>1, <1>8, <2>1, <2>2, GoodIsEnough DEF IInv, TypeOK, TuneRig, memory
<1>9. CASE Tick
  <2>1. Good(st')
    BY <1>1, <1>9 DEF Tick, memory
  <2> QED  BY <1>1, <1>9, <2>1, GoodIsEnough DEF IInv, TypeOK, Tick, memory
<1>10. CASE ReadNote
  <2>1. Good(st') /\ Note \in Line
    BY <1>1, <1>10 DEF ReadNote, Line
  <2> QED  BY <1>1, <1>10, <2>1, GoodIsEnough DEF IInv, TypeOK, ReadNote
<1>11. CASE ReadQso
  <2> DEFINE q      == file[pos + 1]
             px     == Px(q.call)
             dupe   == IsDupe(contest, st, q.call, q.band, q.mode, now, rig)
             points == Score(contest, q, dupe)
             line   == MakeLine(q, points, Mark(contest, st, px, q))
  <2>1. pos + 1 \in 1..Len(file) /\ q # Note /\ file \in Seq(Line)
    BY <1>1, <1>11 DEF ReadQso, TypeOK
  <2>2. q \in QsoLine
    BY <2>1 DEF Line
  <2>3. /\ st' = ScoreQso(AddCall(contest, st, px, q), points)
        /\ qsoArray' = Append(qsoArray, line)
        /\ logChanged' = (logChanged \/ line # q)
        /\ pos' = pos + 1 /\ phase = "reading"
        /\ UNCHANGED <<setup, rig, now, file, backups, wpxPrefix, current, phase,
                       interactive>>
    BY <1>11 DEF ReadQso
  <2> HIDE DEF q
  <2>4. IsQso(q) /\ q.comment \in Exchanges
    BY <2>2 DEF QsoLine, IsQso
  <2>5. Good(st') /\ line \in Line
    BY <2>3, <2>4, OneQso
  <2> HIDE DEF line
  <2>6. qsoArray' \in Seq(Line) /\ logChanged' \in BOOLEAN /\ pos' \in Nat /\ pos' <= Len(file)
    BY <1>1, <2>1, <2>3, <2>5 DEF TypeOK
  <2> QED  BY <1>1, <2>3, <2>5, <2>6, GoodIsEnough DEF IInv, TypeOK
<1>12. CASE ReadEnd
  <2>1. Good(st')
    BY <1>1, <1>12 DEF ReadEnd
  <2>2. /\ phase' \in {"callinput", "asking", "rename"}
        /\ pos' = 0 \/ pos' = pos
        /\ logChanged' = FALSE \/ logChanged' = logChanged
        /\ interactive' = TRUE \/ interactive' = interactive
    BY <1>12 DEF ReadEnd, ToCallInput
  <2>3. UNCHANGED <<setup, rig, now, file, backups, qsoArray, st, wpxPrefix, current>>
    BY <1>12 DEF ReadEnd
  <2>4. pos' \in Nat /\ logChanged' \in BOOLEAN /\ interactive' \in BOOLEAN
    <3>1. pos \in Nat /\ logChanged \in BOOLEAN /\ interactive \in BOOLEAN
      BY <1>1 DEF TypeOK
    <3>2. pos' \in Nat
      BY <2>2, <3>1
    <3>3. logChanged' \in BOOLEAN
      BY <2>2, <3>1, Zenon
    <3>4. interactive' \in BOOLEAN
      BY <2>2, <3>1, Zenon
    <3> QED  BY <3>2, <3>3, <3>4
  <2>5. /\ setup' \in Setups /\ rig' \in [band : Bands, mode : Modes] /\ now' \in Nat \ {0}
        /\ file' \in Seq(Line) /\ qsoArray' \in Seq(Line) /\ backups' \subseteq Seq(Line)
        /\ wpxPrefix' \in WpxPrefixes \cup {None}
        /\ current' \in [call : Calls \cup {None}, dupe : BOOLEAN]
    BY <1>1, <2>3 DEF TypeOK
  <2>6. /\ phase' \in Phases /\ phase' # "reading" /\ phase' # "rewriting"
        /\ phase' # "getexchange"
    BY <2>2 DEF Phases
  <2> QED  BY <2>1, <2>4, <2>5, <2>6, GoodIsEnough DEF IInv, TypeOK
<1>13. CASE Answer
  <2>1. Good(st')
    BY <1>1, <1>13 DEF Answer
  <2>2. /\ phase' \in {"callinput", "rename"}
        /\ pos' = 0 \/ pos' = pos
        /\ logChanged' = FALSE \/ logChanged' = logChanged
        /\ interactive' = TRUE \/ interactive' = interactive
    BY <1>13 DEF Answer, ToCallInput
  <2>3. UNCHANGED <<setup, rig, now, file, backups, qsoArray, st, wpxPrefix, current>>
    BY <1>13 DEF Answer
  <2>4. pos' \in Nat /\ logChanged' \in BOOLEAN /\ interactive' \in BOOLEAN
    <3>1. pos \in Nat /\ logChanged \in BOOLEAN /\ interactive \in BOOLEAN
      BY <1>1 DEF TypeOK
    <3>2. pos' \in Nat
      BY <2>2, <3>1
    <3>3. logChanged' \in BOOLEAN
      BY <2>2, <3>1, Zenon
    <3>4. interactive' \in BOOLEAN
      BY <2>2, <3>1, Zenon
    <3> QED  BY <3>2, <3>3, <3>4
  <2>5. /\ setup' \in Setups /\ rig' \in [band : Bands, mode : Modes] /\ now' \in Nat \ {0}
        /\ file' \in Seq(Line) /\ qsoArray' \in Seq(Line) /\ backups' \subseteq Seq(Line)
        /\ wpxPrefix' \in WpxPrefixes \cup {None}
        /\ current' \in [call : Calls \cup {None}, dupe : BOOLEAN]
    BY <1>1, <2>3 DEF TypeOK
  <2>6. /\ phase' \in Phases /\ phase' # "reading" /\ phase' # "rewriting"
        /\ phase' # "getexchange"
    BY <2>2 DEF Phases
  <2> QED  BY <2>1, <2>4, <2>5, <2>6, GoodIsEnough DEF IInv, TypeOK
<1>14. CASE Rename
  <2>1. Good(st')
    BY <1>1, <1>14 DEF Rename
  <2> QED  BY <1>1, <1>14, <2>1, GoodIsEnough DEF IInv, TypeOK, Rename, Phases
<1>15. CASE Rewrite
  <2>1. Good(st') /\ qsoArray[pos + 1] \in Line
    BY <1>1, <1>15 DEF Rewrite, TypeOK
  <2> QED  BY <1>1, <1>15, <2>1, GoodIsEnough DEF IInv, TypeOK, Rewrite
<1>16. CASE RewriteEnd
  <2>1. Good(st')
    BY <1>1, <1>16 DEF RewriteEnd
  <2> QED  BY <1>1, <1>16, <2>1, GoodIsEnough DEF IInv, TypeOK, RewriteEnd, ToCallInput, Phases
<1>17. CASE Rescore
  BY <1>1, <1>17, StartReadingInv DEF Rescore, TypeOK
<1>18. CASE DeleteQso
  <2>1. file' \in Seq(Line)
    BY <1>1, <1>18, SubSeqProperties DEF DeleteQso, TypeOK, Front
  <2> QED  BY <1>1, <1>18, <2>1, StartReadingInv DEF DeleteQso
<1>19. CASE EditQso
  <2>1. Good(st')
    BY <1>1, <1>19 DEF EditQso
  <2>2. PICK i \in DOMAIN qsoArray : 
            /\ qsoArray[i] # Note
            /\ \E line \in Edited(qsoArray[i]) \ {qsoArray[i]} :
                /\ file' = [file EXCEPT ![i] = line]
                /\ qsoArray' = [qsoArray EXCEPT ![i] = line]
    BY <1>19 DEF EditQso
  <2>3. PICK line \in Edited(qsoArray[i]) :
            /\ file' = [file EXCEPT ![i] = line]
            /\ qsoArray' = [qsoArray EXCEPT ![i] = line]
    BY <2>2
  <2>4. qsoArray[i] \in QsoLine
    BY <1>1, <2>2 DEF TypeOK, Line
  <2>5. line \in Line
    BY <1>1, <2>3, <2>4, EditedType DEF Line, TypeOK
  <2>6. file' \in Seq(Line) /\ qsoArray' \in Seq(Line)
    <3>1. file \in Seq(Line) /\ qsoArray \in Seq(Line)
      BY <1>1 DEF TypeOK
    <3>2. file' \in Seq(Line)
      BY <2>3, <2>5, <3>1, EditedSeq
    <3>3. qsoArray' \in Seq(Line)
      BY <2>3, <2>5, <3>1, EditedSeq
    <3> QED  BY <3>2, <3>3
  <2> QED  BY <1>1, <1>19, <2>1, <2>6, GoodIsEnough DEF IInv, TypeOK, EditQso, Phases
<1>20. CASE EndEdit
  BY <1>1, <1>20, StartReadingInv DEF EndEdit, TypeOK
<1>21. CASE Crash
  <2>1. Good(st')
    BY <1>1, <1>21 DEF Crash
  <2> QED  BY <1>1, <1>2, <1>21, <2>1, GoodIsEnough DEF IInv, TypeOK, Crash, Phases
<1>22. CASE Restart
  BY <1>1, <1>22, StartReadingInv DEF Restart, TypeOK
<1>23. CASE UNCHANGED vars
  <2>1. Good(st')
    BY <1>1, <1>23 DEF vars, memory
  <2> QED  BY <1>1, <1>23, <2>1, GoodIsEnough DEF IInv, TypeOK, vars, memory
<1> QED
  BY <1>3, <1>4, <1>5, <1>6, <1>7, <1>8, <1>9, <1>10, <1>11, <1>12, <1>13, <1>14, <1>15,
     <1>16, <1>17, <1>18, <1>19, <1>20, <1>21, <1>22, <1>23 DEF Next

(* Every variable has its type and every cursor stays inside its sequence,  *)
(* whatever the order of QSOs, LAN entries, edits, crashes and restarts.    *)
THEOREM TypeCorrect == Spec => []TypeOK
<1>1. IInv => TypeOK
  BY DEF IInv
<1> QED  BY <1>1, InitInv, NextInv, PTL DEF Spec

(* The country, zone and multiplier scores that addcall() and addcall2()    *)
(* count up next to their tables are the cardinalities of those tables.     *)
THEOREM CounterValues == Spec => []CountersAgree
<1>1. IInv => CountersAgree
  BY DEF IInv
<1> QED  BY <1>1, InitInv, NextInv, PTL DEF Spec

(* nr_of_px is the number of prefixes in prefixes_worked.                   *)
THEOREM PrefixCount == Spec => []PrefixesAgree
<1>1. IInv => PrefixesAgree
  BY DEF IInv
<1> QED  BY <1>1, InitInv, NextInv, PTL DEF Spec

-----------------------------------------------------------------------------
(* The array and the file.                                                 *)

SameEntries(lines, others, n) == \A i \in 1..n : Entry(lines[i]) = Entry(others[i])

\* What every phase knows of the file and the array.  While the file is read
\* the array is a prefix of it, while it is rewritten it is the other way round.
MatchInv ==
    /\ Ready \/ phase \in {"editing", "asking", "rename"} =>
           Len(file) = Len(qsoArray) /\ SameEntries(file, qsoArray, Len(file))
    /\ phase = "reading"   => Len(qsoArray) = pos /\ SameEntries(file, qsoArray, pos)
    /\ phase = "rewriting" => Len(file) = pos /\ SameEntries(file, qsoArray, pos)

(* A line without its score, spelled out. *)
Bare(q) == [call |-> q.call, band |-> q.band, mode |-> q.mode,
            time |-> q.time, comment |-> q.comment, points |-> 0, mark |-> {}]

LEMMA BareLine ==
    ASSUME NEW q \in QsoLine
    PROVE  [q EXCEPT !.points = 0, !.mark = {}] = Bare(q)
<1>1. PICK c \in Calls, b \in Bands, o \in Modes, t \in Nat, x \in Exchanges,
           p \in Nat, k \in SUBSET Marks :
        q = [call |-> c, band |-> b, mode |-> o, time |-> t, comment |-> x,
             points |-> p, mark |-> k]
  BY DEF QsoLine
<1>2. [q EXCEPT !.points = 0]
          = [call |-> c, band |-> b, mode |-> o, time |-> t, comment |-> x,
             points |-> 0, mark |-> k]
  BY <1>1
<1>3. [[call |-> c, band |-> b, mode |-> o, time |-> t, comment |-> x,
        points |-> 0, mark |-> k] EXCEPT !.mark = {}]
          = [call |-> c, band |-> b, mode |-> o, time |-> t, comment |-> x,
             points |-> 0, mark |-> {}]
  OBVIOUS
<1>4. [q EXCEPT !.points = 0, !.mark = {}] = [[q EXCEPT !.points = 0] EXCEPT !.mark = {}]
  OBVIOUS
<1> QED  BY <1>1, <1>2, <1>3, <1>4 DEF Bare

(* Scoring a line again changes the fields of the score only. *)
LEMMA SameEntry ==
    ASSUME NEW q \in QsoLine, NEW points \in Nat, NEW mark \in SUBSET Marks
    PROVE  Entry(MakeLine(q, points, mark)) = Entry(q)
<1> DEFINE line == MakeLine(q, points, mark)
<1>1. line \in QsoLine
  BY DEF MakeLine, QsoLine
<1>2. ASSUME NEW x \in QsoLine PROVE x # Note
  <2>1. "call" \in DOMAIN x
    BY DEF QsoLine
  <2>2. "call" \notin DOMAIN Note
    BY DEF Note
  <2> QED  BY <2>1, <2>2
<1>3. line # Note /\ q # Note
  BY <1>1, <1>2
<1>4. [line EXCEPT !.points = 0, !.mark = {}] = [q EXCEPT !.points = 0, !.mark = {}]
  <2>1. [line EXCEPT !.points = 0, !.mark = {}] = Bare(line)
    BY <1>1, BareLine
  <2>2. [q EXCEPT !.points = 0, !.mark = {}] = Bare(q)
    BY BareLine
  <2>3. Bare(line) = Bare(q)
    BY DEF Bare, MakeLine
  <2> QED  BY <2>1, <2>2, <2>3
<1> HIDE DEF line
<1>5. Entry(line) = Entry(q)
  BY <1>3, <1>4 DEF Entry
<1> QED  BY <1>5 DEF line

(* Both grow by the same line. *)
LEMMA AppendBoth ==
    ASSUME NEW lines \in Seq(Line), NEW others \in Seq(Line), Len(lines) = Len(others),
           SameEntries(lines, others, Len(lines)), NEW line
    PROVE  /\ Len(Append(lines, line)) = Len(Append(others, line))
           /\ SameEntries(Append(lines, line), Append(others, line),
                          Len(Append(lines, line)))
BY DEF SameEntries

(* What a start of reading leaves: an array of nothing. *)
LEMMA StartReadingMatch ==
    ASSUME NEW ask, StartReading(ask)
    PROVE  MatchInv'
BY DEF StartReading, MatchInv, SameEntries, Ready

(* The invariant on file and array holds in the beginning and is kept. *)
LEMMA InitMatch == Init => MatchInv
BY DEF Init, MatchInv, SameEntries

LEMMA NextMatch == IInv /\ MatchInv /\ [Next]_vars => MatchInv'
<1> SUFFICES ASSUME IInv, MatchInv, [Next]_vars PROVE MatchInv'
  OBVIOUS
<1>1. file \in Seq(Line) /\ qsoArray \in Seq(Line) /\ pos \in Nat
  BY DEF IInv, TypeOK
<1>2. ASSUME Ready, NEW line, file' = Append(file, line), qsoArray' = Append(qsoArray, line),
             phase' \in {"callinput", "getexchange"}
      PROVE  MatchInv'
  BY <1>1, <1>2, AppendBoth DEF MatchInv
<1>3. ASSUME NEW call \in Calls, CallInput(call) PROVE MatchInv'
  BY <1>3 DEF CallInput, MatchInv, Ready
<1>4. CASE Abandon
  BY <1>4 DEF Abandon, MatchInv, Ready
<1>5. ASSUME NEW exchange \in Exchanges, LogQso(exchange) PROVE MatchInv'
  <2>1. /\ Ready /\ phase' = "callinput"
        /\ \E line : file' = Append(file, line) /\ qsoArray' = Append(qsoArray, line)
    BY <1>5 DEF LogQso, Ready
  <2> QED  BY <1>2, <2>1
<1>6. CASE LogLan
  <2>1. /\ Ready /\ phase' = phase
        /\ \E line : file' = Append(file, line) /\ qsoArray' = Append(qsoArray, line)
    BY <1>6 DEF LogLan
  <2>2. phase' \in {"callinput", "getexchange"}
    BY <2>1 DEF Ready
  <2> QED  BY <1>2, <2>1, <2>2
<1>7. CASE IncludeNote
  <2>1. /\ Ready /\ phase' = "callinput"
        /\ file' = Append(file, Note) /\ qsoArray' = Append(qsoArray, Note)
    BY <1>7 DEF IncludeNote, Ready
  <2> QED  BY <1>2, <2>1
<1>8. CASE TuneRig
  BY <1>8 DEF TuneRig, memory, MatchInv, Ready
<1>9. CASE Tick
  BY <1>9 DEF Tick, memory, MatchInv, Ready
<1>10. ASSUME phase = "reading", phase' = "reading", file' = file, pos' = pos + 1,
              pos < Len(file), NEW line, qsoArray' = Append(qsoArray, line),
              Entry(line) = Entry(file[pos + 1])
       PROVE  MatchInv'
  <2>1. Len(qsoArray) = pos /\ SameEntries(file, qsoArray, pos)
    BY <1>10 DEF MatchInv
  <2>2. Len(qsoArray') = pos + 1 /\ SameEntries(file, qsoArray', pos + 1)
    BY <1>1, <1>10, <2>1 DEF SameEntries
  <2> QED  BY <1>10, <2>2 DEF MatchInv, Ready
<1>11. CASE ReadNote
  <2>1. /\ phase = "reading" /\ phase' = "reading" /\ file' = file /\ pos' = pos + 1
        /\ pos < Len(file) /\ qsoArray' = Append(qsoArray, Note)
        /\ Entry(Note) = Entry(file[pos + 1])
    BY <1>11 DEF ReadNote
  <2> QED  BY <1>10, <2>1
<1>12. CASE ReadQso
  <2> DEFINE q    == file[pos + 1]
             pts  == Score(contest, q, IsDupe(contest, st, q.call, q.band, q.mode, now, rig))
             mark == Mark(contest, st, Px(q.call), q)
             line == MakeLine(q, pts, mark)
  <2>1. /\ phase = "reading" /\ phase' = "reading" /\ file' = file /\ pos' = pos + 1
        /\ pos < Len(file) /\ qsoArray' = Append(qsoArray, line) /\ q # Note
    BY <1>12 DEF ReadQso
  <2>2. q \in QsoLine
    BY <1>1, <2>1 DEF Line
  <2> HIDE DEF q
  <2>3. IsQso(q) /\ q.comment \in Exchanges
    BY <2>2 DEF QsoLine, IsQso
  <2>4. pts \in Nat /\ mark \in SUBSET Marks
    <3>1. setup \in Setups /\ wpxPrefix \in WpxPrefixes \cup {None} /\ q.call \in Calls
      BY <2>3 DEF IInv, TypeOK, IsQso
    <3>2. Px(q.call) \in WpxPrefixes \cup {None}
      BY <3>1, PxType
    <3>3. pts \in Nat
      BY <2>3, <3>1, ScoreType
    <3>4. mark \in SUBSET Marks
      BY <2>3, <3>2, MarkType
    <3> QED  BY <3>3, <3>4
  <2> HIDE DEF pts, mark
  <2>5. Entry(line) = Entry(q)
    BY <2>2, <2>4, SameEntry
  <2> QED  BY <1>10, <2>1, <2>5 DEF q
<1>13. CASE ReadEnd
  <2>1. /\ Len(file) = Len(qsoArray) /\ SameEntries(file, qsoArray, Len(file))
        /\ UNCHANGED <<file, qsoArray>>
    BY <1>13 DEF ReadEnd, MatchInv
  <2>2. phase' \in {"callinput", "asking", "rename"}
    BY <1>13 DEF ReadEnd, ToCallInput
  <2> QED  BY <2>1, <2>2 DEF MatchInv, Ready
<1>14. CASE Answer
  <2>1. /\ Len(file) = Len(qsoArray) /\ SameEntries(file, qsoArray, Len(file))
        /\ UNCHANGED <<file, qsoArray>>
    BY <1>14 DEF Answer, MatchInv
  <2>2. phase' \in {"callinput", "rename"}
    BY <1>14 DEF Answer, ToCallInput
  <2> QED  BY <2>1, <2>2 DEF MatchInv, Ready
<1>15. CASE Rename
  BY <1>15 DEF Rename, MatchInv, SameEntries, Ready
<1>16. CASE Rewrite
  <2>1. Len(file) = pos /\ SameEntries(file, qsoArray, pos)
    BY <1>16 DEF Rewrite, MatchInv
  <2>2. /\ phase' = "rewriting" /\ pos' = pos + 1 /\ qsoArray' = qsoArray
        /\ pos < Len(qsoArray) /\ file' = Append(file, qsoArray[pos + 1])
    BY <1>16 DEF Rewrite
  <2>3. Len(file') = pos + 1 /\ SameEntries(file', qsoArray, pos + 1)
    BY <1>1, <2>1, <2>2 DEF SameEntries
  <2> QED  BY <2>2, <2>3 DEF MatchInv, Ready
<1>17. CASE RewriteEnd
  BY <1>17 DEF RewriteEnd, ToCallInput, MatchInv, Ready
<1>18. CASE Rescore
  BY <1>18, StartReadingMatch DEF Rescore
<1>19. CASE DeleteQso
  BY <1>19, StartReadingMatch DEF DeleteQso
<1>20. CASE EditQso
  <2>1. PICK i \in DOMAIN qsoArray : \E line :
            /\ file' = [file EXCEPT ![i] = line]
            /\ qsoArray' = [qsoArray EXCEPT ![i] = line]
    BY <1>20 DEF EditQso
  <2>2. PICK line : /\ file' = [file EXCEPT ![i] = line]
                    /\ qsoArray' = [qsoArray EXCEPT ![i] = line]
    BY <2>1
  <2>3. Len(file) = Len(qsoArray) /\ SameEntries(file, qsoArray, Len(file))
    BY <1>20 DEF EditQso, MayRescore, MatchInv, Ready
  <2>4. Len(file') = Len(qsoArray') /\ SameEntries(file', qsoArray', Len(file'))
    BY <1>1, <2>2, <2>3 DEF SameEntries
  <2>5. phase' = "editing"
    BY <1>20 DEF EditQso
  <2> QED  BY <2>4, <2>5 DEF MatchInv, Ready
<1>21. CASE EndEdit
  BY <1>21, StartReadingMatch DEF EndEdit
<1>22. CASE Crash
  BY <1>22 DEF Crash, MatchInv, Ready
<1>23. CASE Restart
  BY <1>23, StartReadingMatch DEF Restart
<1>24. CASE UNCHANGED vars
  BY <1>24 DEF vars, memory, MatchInv, Ready
<1> QED
  BY <1>3, <1>4, <1>5, <1>6, <1>7, <1>8, <1>9, <1>11, <1>12, <1>13, <1>14, <1>15, <1>16,
     <1>17, <1>18, <1>19, <1>20, <1>21, <1>22, <1>23, <1>24 DEF Next

(* Whenever a station can be worked or an entry edited, entry n of the array *)
(* and line n of the file are the same contact: edit_last() writes over the  *)
(* line with the number that it has in the array.                            *)
THEOREM ArrayIsFile == Spec => []ArrayMatchesFile
<1>1. IInv /\ MatchInv => ArrayMatchesFile
  BY DEF IInv, TypeOK, MatchInv, SameEntries, ArrayMatchesFile, Entries
<1> QED  BY <1>1, InitInv, NextInv, InitMatch, NextMatch, PTL DEF Spec

-----------------------------------------------------------------------------
(* Who was worked.                                                         *)

\* A contact with this station in this mode and on this band is among the lines.
InLog(lines, c, m, b) ==
    \E i \in 1..Len(lines) :
        lines[i] # Note /\ lines[i].call = c /\ lines[i].mode = m /\ lines[i].band = b

\* A time of 0 in worked[] means "never", so no contact may have it.
Timed(lines) == \A i \in 1..Len(lines) : lines[i] # Note => lines[i].time # 0

WorkedAre(stats, lines) ==
    \A c \in Calls, m \in Modes, b \in Bands :
        stats.time[c][m][b] # 0 <=> InLog(lines, c, m, b)

\* Between the edit of a line and the reading of the log that follows, worked[]
\* may be wrong.
WorkedInv ==
    /\ Timed(file) /\ Timed(qsoArray)
    /\ phase # "editing" => WorkedAre(st, qsoArray)

(* Nobody is worked in an empty log. *)
LEMMA NobodyWorked == WorkedAre(InitScoring, <<>>) /\ Timed(<<>>)
<1>1. InitScoring.time = [c \in Calls |-> [m \in Modes |-> ZeroPerBand]]
  BY DEF InitScoring
<1> QED  BY <1>1 DEF WorkedAre, InLog, Timed, ZeroPerBand

(* A line more is a station more. *)
LEMMA WorkedGrows ==
    ASSUME NEW lines \in Seq(Line), NEW s, s \in Stats, NEW q, IsQso(q), q.time # 0,
           NEW t, t.time = UpdateWorked(s, q).time,
           NEW line, line # Note, line.call = q.call, line.mode = q.mode, line.band = q.band,
           line.time = q.time, WorkedAre(s, lines), Timed(lines)
    PROVE  WorkedAre(t, Append(lines, line)) /\ Timed(Append(lines, line))
<1> DEFINE more == Append(lines, line)
<1>1. /\ Len(more) = Len(lines) + 1 /\ Len(lines) \in Nat
      /\ \A i \in 1..Len(lines) : more[i] = lines[i]
      /\ more[Len(lines) + 1] = line
  OBVIOUS
<1> HIDE DEF more
<1>2. Timed(more)
  BY <1>1 DEF Timed
<1>3. ASSUME NEW c, NEW m, NEW b
      PROVE  InLog(more, c, m, b) <=>
                 InLog(lines, c, m, b) \/ (c = q.call /\ m = q.mode /\ b = q.band)
  BY <1>1 DEF InLog
<1>4. ASSUME NEW c \in Calls, NEW m \in Modes, NEW b \in Bands
      PROVE  t.time[c][m][b] # 0 <=> InLog(more, c, m, b)
  <2>1. t.time[c][m][b] = IF c = q.call /\ m = q.mode /\ b = q.band THEN q.time
                          ELSE s.time[c][m][b]
    BY UpdateWorkedTime
  <2>2. s.time[c][m][b] # 0 <=> InLog(lines, c, m, b)
    BY DEF WorkedAre
  <2> QED  BY <1>3, <2>1, <2>2
<1> QED  BY <1>2, <1>4 DEF WorkedAre, more

(* A note is nobody. *)
LEMMA NotesAreNobody ==
    ASSUME NEW lines \in Seq(Line), NEW s, WorkedAre(s, lines), Timed(lines)
    PROVE  WorkedAre(s, Append(lines, Note)) /\ Timed(Append(lines, Note))
<1> DEFINE more == Append(lines, Note)
<1>1. /\ Len(more) = Len(lines) + 1 /\ Len(lines) \in Nat
      /\ \A i \in 1..Len(lines) : more[i] = lines[i]
      /\ more[Len(lines) + 1] = Note
  OBVIOUS
<1> HIDE DEF more
<1>2. Timed(more)
  BY <1>1 DEF Timed
<1>3. ASSUME NEW c, NEW m, NEW b
      PROVE  InLog(more, c, m, b) <=> InLog(lines, c, m, b)
  BY <1>1 DEF InLog
<1> QED  BY <1>2, <1>3 DEF WorkedAre, more

(* Lines are timed one by one. *)
LEMMA AppendTimed ==
    ASSUME NEW lines \in Seq(Line), Timed(lines), NEW line, line # Note => line.time # 0
    PROVE  Timed(Append(lines, line))
BY DEF Timed

(* A QSO is no note. *)
LEMMA QsoIsNoNote ==
    ASSUME NEW q \in QsoLine
    PROVE  q # Note
<1>1. "call" \in DOMAIN q
  BY DEF QsoLine
<1>2. "call" \notin DOMAIN Note
  BY DEF Note
<1> QED  BY <1>1, <1>2

(* One QSO scored by the main thread: addcall() remembers it. *)
LEMMA OneQsoWorked ==
    ASSUME IInv, Timed(qsoArray), WorkedAre(st, qsoArray),
           NEW q, IsQso(q), q.comment \in Exchanges, q.time # 0, NEW points, points \in Nat,
           NEW px, px = Px(q.call), NEW mark, mark \in SUBSET Marks
    PROVE  LET line == MakeLine(q, points, mark)
           IN  /\ WorkedAre(ScoreQso(AddCall(contest, st, px, q), points),
                            Append(qsoArray, line))
               /\ Timed(Append(qsoArray, line))
               /\ line.time # 0
<1> DEFINE line  == MakeLine(q, points, mark)
           added == AddCall(contest, st, px, q)
           stats == ScoreQso(added, points)
<1>1. Good(st) /\ qsoArray \in Seq(Line) /\ st \in Stats
  BY DEF IInv, TypeOK, CountersAgree, PrefixesAgree, Good
<1>2. px \in WpxPrefixes \cup {None}
  BY PxType DEF IInv, TypeOK, IsQso
<1>3. Good(added) /\ added.time = UpdateWorked(st, q).time
  BY <1>1, <1>2, AddCallGood, AddCallTime
<1> HIDE DEF added
<1>4. stats.time = UpdateWorked(st, q).time
  BY <1>3, TimeKept DEF Good
<1>5. /\ line # Note /\ line.call = q.call /\ line.mode = q.mode /\ line.band = q.band
      /\ line.time = q.time
  <2>1. line \in QsoLine
    BY MakeLineType
  <2> QED  BY <2>1, QsoIsNoNote DEF MakeLine
<1> HIDE DEF stats, line
<1>6. WorkedAre(stats, Append(qsoArray, line)) /\ Timed(Append(qsoArray, line))
  BY <1>1, <1>4, <1>5, WorkedGrows
<1> QED  BY <1>5, <1>6 DEF stats, line, added

(* One QSO of another node: addcall2() remembers it. *)
LEMMA OneLanQsoWorked ==
    ASSUME IInv, Timed(qsoArray), WorkedAre(st, qsoArray),
           NEW line, line \in QsoLine, IsLanLine(contest, line), line.time # 0
    PROVE  /\ WorkedAre(AddCall2(contest, ScoreQso(st, line.points), line, rig),
                        Append(qsoArray, line))
           /\ Timed(Append(qsoArray, line))
<1> DEFINE scored == ScoreQso(st, line.points)
           q      == [line EXCEPT !.comment = None]
           stats  == AddCall2(contest, scored, line, rig)
<1>1. /\ Good(st) /\ qsoArray \in Seq(Line) /\ st \in Stats /\ rig.band \in Bands
      /\ line.points \in Nat
  BY DEF IInv, TypeOK, CountersAgree, PrefixesAgree, Good, QsoLine
<1>2. Good(scored) /\ scored.time = st.time
  BY <1>1, ScoreQsoGood, TimeKept
<1>3. /\ IsQso(q) /\ q.call = line.call /\ q.mode = line.mode /\ q.band = line.band
      /\ q.time = line.time
  BY DEF QsoLine, IsQso
<1>4. line # Note
  BY QsoIsNoNote
<1> HIDE DEF scored
<1>5. stats.time = UpdateWorked(scored, q).time
  BY <1>1, <1>2, AddCall2Time
<1>6. WorkedAre(scored, qsoArray) /\ scored \in Stats
  BY <1>2 DEF WorkedAre, Good
<1> HIDE DEF q, stats
<1>7. WorkedAre(stats, Append(qsoArray, line)) /\ Timed(Append(qsoArray, line))
  BY <1>1, <1>3, <1>4, <1>5, <1>6, WorkedGrows
<1> QED  BY <1>7 DEF stats, scored

(* The invariant on worked[] holds in the beginning. *)
LEMMA InitWorked == Init => WorkedInv
BY NobodyWorked DEF Init, WorkedInv

(* Reading starts with nobody worked. *)
LEMMA StartReadingWorked ==
    ASSUME NEW ask, StartReading(ask), Timed(file')
    PROVE  WorkedInv'
BY NobodyWorked DEF StartReading, WorkedInv

(* Editing a field leaves the time alone. *)
LEMMA EditedTimed ==
    ASSUME NEW lines \in Seq(Line), Timed(lines), NEW i, NEW line, line.time # 0
    PROVE  Timed([lines EXCEPT ![i] = line])
BY DEF Timed

(* Every step keeps the invariant on worked[]. *)
LEMMA NextWorked == IInv /\ WorkedInv /\ [Next]_vars => WorkedInv'
<1> SUFFICES ASSUME IInv, WorkedInv, [Next]_vars PROVE WorkedInv'
  OBVIOUS
<1>1. /\ file \in Seq(Line) /\ qsoArray \in Seq(Line) /\ pos \in Nat /\ now \in Nat \ {0}
      /\ setup \in Setups /\ Timed(file) /\ Timed(qsoArray)
  BY DEF IInv, TypeOK, WorkedInv
<1>2. ASSUME UNCHANGED <<file, qsoArray, st>>, phase # "editing"
      PROVE  WorkedInv'
  BY <1>2 DEF WorkedInv
<1>3. CASE \/ \E call \in Calls : CallInput(call)
           \/ Abandon
    <2>1. UNCHANGED <<file, qsoArray, st>> /\ phase # "editing"
      BY <1>3 DEF CallInput, Abandon
    <2> QED  BY <1>2, <2>1
<1>4. CASE TuneRig \/ Tick \/ UNCHANGED vars
  <2>1. UNCHANGED <<file, qsoArray, st, phase>>
    BY <1>4 DEF TuneRig, Tick, memory, vars
  <2> QED  BY <2>1 DEF WorkedInv
<1>5. ASSUME NEW exchange \in Exchanges, LogQso(exchange)
      PROVE  WorkedInv'
  <2> DEFINE q      == [call |-> current.call, band |-> rig.band, mode |-> rig.mode,
                        time |-> now, comment |-> exchange]
             px     == Px(q.call)
             points == Score(contest, q, current.dupe)
             mark   == Mark(contest, st, px, q)
             line   == MakeLine(q, points, mark)
  <2>1. IsQso(q) /\ q.comment \in Exchanges /\ q.time # 0
    BY <1>1, <1>5 DEF IInv, TypeOK, LogQso, IsQso
  <2>2. /\ st' = ScoreQso(AddCall(contest, st, px, q), points)
        /\ file' = Append(file, line) /\ qsoArray' = Append(qsoArray, line)
        /\ phase = "getexchange"
    BY <1>5 DEF LogQso
  <2> HIDE DEF q
  <2>3. points \in Nat /\ mark \in SUBSET Marks
    BY <1>1, <2>1, QsoScored DEF mark, points, px
  <2>4. WorkedAre(st, qsoArray)
    BY <2>2 DEF WorkedInv
  <2>5. WorkedAre(st', qsoArray') /\ Timed(qsoArray') /\ line.time # 0
    <3> HIDE DEF points, mark
    <3> QED  BY <1>1, <2>1, <2>2, <2>3, <2>4, OneQsoWorked
  <2> HIDE DEF line
  <2>6. Timed(file')
    BY <1>1, <2>2, <2>5, AppendTimed
  <2> QED  BY <2>5, <2>6 DEF WorkedInv
<1>6. CASE LogLan
  <2>1. PICK q \in LanQsos, isNew \in BOOLEAN, dupe \in BOOLEAN :
            LET printed == PrintedBy(q, isNew)
                line    == IF dupe THEN [printed EXCEPT !.points = 0] ELSE printed
            IN  /\ st' = AddCall2(contest, ScoreQso(st, line.points), line, rig)
                /\ file' = Append(file, line)
                /\ qsoArray' = Append(qsoArray, line)
    BY <1>6 DEF LogLan
  <2> DEFINE line == IF dupe THEN [PrintedBy(q, isNew) EXCEPT !.points = 0]
                     ELSE PrintedBy(q, isNew)
  <2>2. /\ st' = AddCall2(contest, ScoreQso(st, line.points), line, rig)
        /\ file' = Append(file, line) /\ qsoArray' = Append(qsoArray, line)
    BY <2>1
  <2>3. line \in QsoLine /\ IsLanLine(contest, line) /\ line.time = now
    BY LanLineType
  <2> HIDE DEF line
  <2>4. WorkedAre(st, qsoArray) /\ line.time # 0
    BY <1>1, <1>6, <2>3 DEF WorkedInv, LogLan, Ready
  <2>5. WorkedAre(st', qsoArray') /\ Timed(qsoArray')
    BY <1>1, <2>2, <2>3, <2>4, OneLanQsoWorked
  <2>6. Timed(file')
    BY <1>1, <2>2, <2>4, AppendTimed
  <2> QED  BY <2>5, <2>6 DEF WorkedInv
<1>7. CASE IncludeNote
  <2>1. /\ file' = Append(file, Note) /\ qsoArray' = Append(qsoArray, Note) /\ st' = st
        /\ WorkedAre(st, qsoArray)
    BY <1>7 DEF IncludeNote, WorkedInv
  <2>2. WorkedAre(st, qsoArray') /\ Timed(qsoArray') /\ Timed(file')
    BY <1>1, <2>1, NotesAreNobody, AppendTimed
  <2> QED  BY <2>1, <2>2 DEF WorkedInv
<1>8. CASE ReadNote
  <2>1. /\ file' = file /\ qsoArray' = Append(qsoArray, Note) /\ st' = st
        /\ WorkedAre(st, qsoArray)
    BY <1>8 DEF ReadNote, WorkedInv
  <2>2. WorkedAre(st, qsoArray') /\ Timed(qsoArray')
    BY <1>1, <2>1, NotesAreNobody
  <2> QED  BY <1>1, <2>1, <2>2 DEF WorkedInv
<1>9. CASE ReadQso
  <2> DEFINE q      == file[pos + 1]
             px     == Px(q.call)
             dupe   == IsDupe(contest, st, q.call, q.band, q.mode, now, rig)
             points == Score(contest, q, dupe)
             mark   == Mark(contest, st, px, q)
             line   == MakeLine(q, points, mark)
  <2>1. /\ pos + 1 \in 1..Len(file) /\ q # Note /\ file' = file
        /\ st' = ScoreQso(AddCall(contest, st, px, q), points)
        /\ qsoArray' = Append(qsoArray, line) /\ phase = "reading"
    BY <1>1, <1>9 DEF ReadQso
  <2>2. q \in QsoLine /\ q.time # 0
    BY <1>1, <2>1 DEF Line, Timed
  <2> HIDE DEF q
  <2>3. IsQso(q) /\ q.comment \in Exchanges
    BY <2>2 DEF QsoLine, IsQso
  <2>4. points \in Nat /\ mark \in SUBSET Marks
    BY <2>3, QsoScored DEF points, mark, px
  <2>5. WorkedAre(st, qsoArray)
    BY <2>1 DEF WorkedInv
  <2>6. WorkedAre(st', qsoArray') /\ Timed(qsoArray')
    <3> HIDE DEF points, mark
    <3> QED  BY <1>1, <2>1, <2>2, <2>3, <2>4, <2>5, OneQsoWorked
  <2> QED  BY <1>1, <2>1, <2>6 DEF WorkedInv
<1>10. CASE ReadEnd \/ Answer
  <2>1. UNCHANGED <<file, qsoArray, st>> /\ phase # "editing"
    BY <1>10 DEF ReadEnd, Answer
  <2> QED  BY <1>2, <2>1
<1>11. CASE Rename
  <2>1. file' = <<>> /\ UNCHANGED <<qsoArray, st>> /\ WorkedAre(st, qsoArray)
    BY <1>11 DEF Rename, WorkedInv
  <2> QED  BY <1>1, <2>1, NobodyWorked DEF WorkedInv
<1>12. CASE Rewrite
  <2>1. /\ pos + 1 \in 1..Len(qsoArray) /\ file' = Append(file, qsoArray[pos + 1])
        /\ UNCHANGED <<qsoArray, st>> /\ WorkedAre(st, qsoArray)
    BY <1>1, <1>12 DEF Rewrite, WorkedInv
  <2>2. qsoArray[pos + 1] # Note => qsoArray[pos + 1].time # 0
    BY <1>1, <2>1 DEF Timed
  <2>3. Timed(file')
    BY <1>1, <2>1, <2>2, AppendTimed
  <2> QED  BY <1>1, <2>1, <2>3 DEF WorkedInv
<1>13. CASE RewriteEnd
  <2>1. UNCHANGED <<file, qsoArray, st>> /\ phase # "editing"
    BY <1>13 DEF RewriteEnd
  <2> QED  BY <1>2, <2>1
<1>14. CASE Rescore \/ EndEdit \/ Restart
  <2>1. file' = file /\ \E ask : StartReading(ask)
    BY <1>14 DEF Rescore, EndEdit, Restart
  <2> QED  BY <1>1, <2>1, StartReadingWorked
<1>15. CASE DeleteQso
  <2>1. file' = Front(file) /\ file # <<>> /\ StartReading(FALSE)
    BY <1>15 DEF DeleteQso
  <2>2. Timed(file')
    BY <1>1, <2>1 DEF Timed, Front
  <2> QED  BY <2>1, <2>2, StartReadingWorked
<1>16. CASE EditQso
  <2>1. PICK i \in DOMAIN qsoArray :
            /\ qsoArray[i] # Note
            /\ \E line \in Edited(qsoArray[i]) \ {qsoArray[i]} :
                /\ file' = [file EXCEPT ![i] = line]
                /\ qsoArray' = [qsoArray EXCEPT ![i] = line]
    BY <1>16 DEF EditQso
  <2>2. PICK line \in Edited(qsoArray[i]) :
            /\ file' = [file EXCEPT ![i] = line]
            /\ qsoArray' = [qsoArray EXCEPT ![i] = line]
    BY <2>1
  <2>3. qsoArray[i] \in QsoLine /\ qsoArray[i].time # 0
    BY <1>1, <2>1 DEF Line, Timed
  <2>4. line.time # 0
    BY <1>1, <2>2, <2>3, EditedType DEF IInv, TypeOK
  <2>5. Timed(file') /\ Timed(qsoArray')
    BY <1>1, <2>2, <2>4, EditedTimed
  <2>6. phase' = "editing"
    BY <1>16 DEF EditQso
  <2> QED  BY <2>5, <2>6 DEF WorkedInv
<1>17. CASE Crash
  <2>1. file' = file /\ qsoArray' = <<>> /\ st' = InitScoring
    BY <1>17 DEF Crash
  <2> QED  BY <1>1, <2>1, NobodyWorked DEF WorkedInv
<1> QED
  BY <1>3, <1>4, <1>5, <1>6, <1>7, <1>8, <1>9, <1>10, <1>11, <1>12, <1>13, <1>14, <1>15,
     <1>16, <1>17 DEF Next

(* worked[] knows exactly the stations in the log, in the modes and on the   *)
(* bands in which they are there: no false dupes after deleting, editing or  *)
(* rescoring, and none forgotten after a restart.                            *)
THEOREM WorkedIsLog == Spec => []WorkedMatchesLog
<1>1. IInv /\ WorkedInv => WorkedMatchesLog
  <2> SUFFICES ASSUME IInv, WorkedInv, Ready
               PROVE  \A c \in Calls, m \in Modes, b \in Bands :
                          st.time[c][m][b] # 0 <=>
                              \E i \in DOMAIN qsoArray :
                                  /\ qsoArray[i] # Note
                                  /\ qsoArray[i].call = c /\ qsoArray[i].mode = m
                                  /\ qsoArray[i].band = b
    BY DEF WorkedMatchesLog
  <2>1. WorkedAre(st, qsoArray) /\ DOMAIN qsoArray = 1..Len(qsoArray)
    BY DEF WorkedInv, Ready, IInv, TypeOK
  <2> QED  BY <2>1 DEF WorkedAre, InLog
<1> QED  BY <1>1, InitInv, NextInv, InitWorked, NextWorked, PTL DEF Spec

-----------------------------------------------------------------------------
(* Induction over the lines of the log.                                    *)

(* A set that has 0, and with each number the next one, has them all: the   *)
(* least number that it lacks would have a predecessor.                     *)
LEMMA SetInduction ==
    ASSUME NEW S, 0 \in S, \A n \in Nat : n \in S => n + 1 \in S
    PROVE  Nat \subseteq S
<1> DEFINE T == Nat \ S
           R == OpToRel(<, Nat)
<1> SUFFICES ASSUME T # {} PROVE FALSE
  OBVIOUS
<1>1. IsWellFoundedOn(R, Nat)
  BY NatLessThanWellFounded
<1>2. \A m, n \in Nat : m < n => <<m, n>> \in R
  BY DEF OpToRel
<1> HIDE DEF R
<1>3. PICK n \in T : \A m \in T : <<m, n>> \notin R
  BY <1>1, WFMin
<1>4. n # 0 /\ n \in Nat /\ n - 1 \in Nat /\ n - 1 < n
  BY <1>3
<1>5. <<n - 1, n>> \in R
  BY <1>2, <1>4
<1>6. n - 1 \in S /\ (n - 1) + 1 = n
  BY <1>3, <1>4, <1>5
<1> QED  BY <1>3, <1>4, <1>6

-----------------------------------------------------------------------------
(* The points.                                                             *)

\* f[i] is the sum of the points in the first i of the lines.
SumUpTo(f, lines, n) ==
    f = [i \in 0..n |-> IF i = 0 THEN 0 ELSE f[i - 1] + PointsOf(lines[i])]

(* There are sums of the points of any number of lines. *)
LEMMA SumExists ==
    ASSUME NEW lines, NEW n \in Nat
    PROVE  \E f : SumUpTo(f, lines, n)
<1> DEFINE S == {k \in Nat : \E f : SumUpTo(f, lines, k)}
<1>1. 0 \in S
  <2>1. SumUpTo([i \in 0..0 |-> 0], lines, 0)
    BY DEF SumUpTo
  <2> QED  BY <2>1
<1>2. ASSUME NEW k \in Nat, k \in S
      PROVE  k + 1 \in S
  <2>1. PICK f : SumUpTo(f, lines, k)
    BY <1>2
  <2>2. SumUpTo([i \in 0..k+1 |-> IF i = k + 1 THEN f[k] + PointsOf(lines[k + 1]) ELSE f[i]],
                lines, k + 1)
    BY <2>1 DEF SumUpTo
  <2> QED  BY <2>2
<1> HIDE DEF S
<1>3. Nat \subseteq S
  BY <1>1, <1>2, SetInduction
<1> QED  BY <1>3 DEF S

(* SumOfPoints() is such a sum. *)
LEMMA SumIs ==
    ASSUME NEW lines
    PROVE  Len(lines) \in Nat =>
               \E f : SumUpTo(f, lines, Len(lines)) /\ SumOfPoints(lines) = f[Len(lines)]
<1> SUFFICES ASSUME Len(lines) \in Nat
             PROVE  \E f : SumUpTo(f, lines, Len(lines)) /\ SumOfPoints(lines) = f[Len(lines)]
  OBVIOUS
<1> DEFINE sum[n \in 0..Len(lines)] == IF n = 0 THEN 0 ELSE sum[n - 1] + PointsOf(lines[n])
<1>1. SumOfPoints(lines) = sum[Len(lines)]
  BY DEF SumOfPoints
<1>2. \E f : f = [n \in 0..Len(lines) |->
                     IF n = 0 THEN 0 ELSE f[n - 1] + PointsOf(lines[n])]
  BY SumExists DEF SumUpTo
<1>3. sum = [n \in 0..Len(lines) |-> IF n = 0 THEN 0 ELSE sum[n - 1] + PointsOf(lines[n])]
  BY <1>2
<1> HIDE DEF sum
<1>4. SumUpTo(sum, lines, Len(lines))
  BY <1>3 DEF SumUpTo
<1> QED  BY <1>1, <1>4

(* Lines with the same points have the same sums. *)
LEMMA SumSame ==
    ASSUME NEW lines, NEW others, NEW n \in Nat, NEW k \in Nat, NEW m \in Nat, n <= k, n <= m,
           NEW f, SumUpTo(f, lines, k), NEW g, SumUpTo(g, others, m),
           \A i \in 1..n : PointsOf(lines[i]) = PointsOf(others[i])
    PROVE  f[n] = g[n]
<1> DEFINE S == {i \in Nat : i <= n => f[i] = g[i]}
<1>1. 0 \in S
  BY DEF SumUpTo
<1>2. ASSUME NEW i \in Nat, i \in S
      PROVE  i + 1 \in S
  <2>1. CASE i + 1 <= n
    <3>1. i + 1 \in 1..n /\ i + 1 \in 0..k /\ i + 1 \in 0..m /\ (i + 1) - 1 = i /\ i <= n
      BY <2>1
    <3>2. f[i + 1] = f[i] + PointsOf(lines[i + 1])
      BY <3>1 DEF SumUpTo
    <3>3. g[i + 1] = g[i] + PointsOf(others[i + 1])
      BY <3>1 DEF SumUpTo
    <3> QED  BY <1>2, <3>1, <3>2, <3>3
  <2> QED  BY <2>1
<1> HIDE DEF S
<1>3. n \in S
  BY <1>1, <1>2, SetInduction
<1> QED  BY <1>3 DEF S

LEMMA SumSameLength ==
    ASSUME NEW lines, NEW others, NEW n \in Nat, NEW f, SumUpTo(f, lines, n),
           NEW g, SumUpTo(g, others, n), \A i \in 1..n : PointsOf(lines[i]) = PointsOf(others[i])
    PROVE  f[n] = g[n]
  BY SumSame

LEMMA SumOfSame ==
    ASSUME NEW lines \in Seq(Line), NEW others \in Seq(Line), Len(lines) = Len(others),
           \A i \in 1..Len(lines) : PointsOf(lines[i]) = PointsOf(others[i])
    PROVE  SumOfPoints(lines) = SumOfPoints(others)
<1> DEFINE n == Len(lines)
<1>1. n \in Nat /\ n = Len(others) /\ n <= n
  OBVIOUS
<1>2. \A i \in 1..n : PointsOf(lines[i]) = PointsOf(others[i])
  OBVIOUS
<1> HIDE DEF n
<1>3. PICK f : SumUpTo(f, lines, n) /\ SumOfPoints(lines) = f[n]
  BY <1>1, SumIs DEF n
<1>4. PICK g : SumUpTo(g, others, n) /\ SumOfPoints(others) = g[n]
  BY <1>1, SumIs
<1>5. f[n] = g[n]
  BY <1>1, <1>2, <1>3, <1>4, SumSameLength
<1> QED  BY <1>3, <1>4, <1>5

(* No lines, no points; a line more adds its points. *)
LEMMA SumOfNothing == SumOfPoints(<<>>) = 0
<1>1. PICK f : SumUpTo(f, <<>>, 0) /\ SumOfPoints(<<>>) = f[0]
  BY SumIs
<1> QED  BY <1>1 DEF SumUpTo

LEMMA SumAppend ==
    ASSUME NEW lines \in Seq(Line), NEW line
    PROVE  SumOfPoints(Append(lines, line)) = SumOfPoints(lines) + PointsOf(line)
<1> DEFINE more == Append(lines, line)
           n    == Len(lines)
<1>1. /\ n \in Nat /\ Len(more) = n + 1 /\ more[n + 1] = line
      /\ \A i \in 1..n : more[i] = lines[i]
  OBVIOUS
<1> HIDE DEF more, n
<1>2. PICK f : SumUpTo(f, lines, n) /\ SumOfPoints(lines) = f[n]
  BY <1>1, SumIs DEF n
<1>3. PICK g : SumUpTo(g, more, n + 1) /\ SumOfPoints(more) = g[n + 1]
  BY <1>1, SumIs
<1>4. f[n] = g[n]
  BY <1>1, <1>2, <1>3, SumSame
<1>5. g[n + 1] = g[n] + PointsOf(more[n + 1])
  BY <1>1, <1>3 DEF SumUpTo
<1> QED  BY <1>1, <1>2, <1>3, <1>4, <1>5 DEF more

(* score_qso() adds what is printed in the line. *)
LEMMA TotalGrows ==
    ASSUME NEW lines \in Seq(Line), NEW s, NEW t, NEW line, line # Note,
           "total" \in DOMAIN t, t.total = s.total, s.total = SumOfPoints(lines)
    PROVE  ScoreQso(t, line.points).total = SumOfPoints(Append(lines, line))
<1>1. ScoreQso(t, line.points).total = s.total + line.points
  BY DEF ScoreQso
<1> QED  BY <1>1, SumAppend DEF PointsOf

\* The total is the sum of the points in the array at any moment.
TotalInv == st.total = SumOfPoints(qsoArray)

(* The total starts with the log, and every step keeps it right. *)
LEMMA InitTotal == Init => TotalInv
BY SumOfNothing DEF Init, TotalInv, InitScoring

LEMMA NextTotal == IInv /\ TotalInv /\ [Next]_vars => TotalInv'
<1> SUFFICES ASSUME IInv, TotalInv, [Next]_vars PROVE TotalInv'
  OBVIOUS
<1>1. /\ qsoArray \in Seq(Line) /\ st \in Stats /\ st.total = SumOfPoints(qsoArray) /\ Good(st)
      /\ st.total \in Nat
  BY DEF IInv, TypeOK, TotalInv, CountersAgree, PrefixesAgree, Good, Stats
<1>2. ASSUME UNCHANGED <<qsoArray, st>>
      PROVE  TotalInv'
  BY <1>1, <1>2 DEF TotalInv
<1>3. CASE \/ \E call \in Calls : CallInput(call)
           \/ Abandon \/ ReadEnd \/ Answer \/ Rename \/ Rewrite \/ RewriteEnd
  <2>1. UNCHANGED <<qsoArray, st>>
    BY <1>3 DEF CallInput, Abandon, ReadEnd, Answer, Rename, Rewrite, RewriteEnd
  <2> QED  BY <1>2, <2>1
<1>4. CASE TuneRig \/ Tick \/ UNCHANGED vars
  <2>1. UNCHANGED <<qsoArray, st>>
    BY <1>4 DEF TuneRig, Tick, memory, vars
  <2> QED  BY <1>2, <2>1
<1>5. ASSUME NEW q, IsQso(q), q.comment \in Exchanges, NEW points, points \in Nat,
             NEW px, px = Px(q.call), NEW mark, mark \in SUBSET Marks,
             st' = ScoreQso(AddCall(contest, st, px, q), points),
             qsoArray' = Append(qsoArray, MakeLine(q, points, mark))
      PROVE  TotalInv'
  <2> DEFINE line  == MakeLine(q, points, mark)
             added == AddCall(contest, st, px, q)
  <2>1. line # Note /\ line.points = points
    <3>1. line \in QsoLine
      BY <1>5, MakeLineType
    <3> QED  BY <3>1, QsoIsNoNote DEF MakeLine
  <2>2. added.total = st.total /\ "total" \in DOMAIN added
    <3>1. px \in WpxPrefixes \cup {None}
      BY <1>5, PxType DEF IInv, TypeOK, IsQso
    <3>2. added \in Stats
      BY <1>1, <1>5, <3>1, AddCallGood DEF Good
    <3>3. "total" \in DOMAIN added
      BY <3>2 DEF Stats
    <3>4. added.total = st.total
      BY <1>1, TotalKept
    <3> QED  BY <3>3, <3>4
  <2>3. st' = ScoreQso(added, line.points) /\ qsoArray' = Append(qsoArray, line)
    BY <1>5, <2>1
  <2> HIDE DEF line, added
  <2> QED  BY <1>1, <2>1, <2>2, <2>3, TotalGrows DEF TotalInv
<1>6. ASSUME NEW exchange \in Exchanges, LogQso(exchange)
      PROVE  TotalInv'
  <2> DEFINE q      == [call |-> current.call, band |-> rig.band, mode |-> rig.mode,
                        time |-> now, comment |-> exchange]
             px     == Px(q.call)
             points == Score(contest, q, current.dupe)
             mark   == Mark(contest, st, px, q)
  <2>1. IsQso(q) /\ q.comment \in Exchanges
    BY <1>6 DEF IInv, TypeOK, LogQso, IsQso
  <2>2. /\ st' = ScoreQso(AddCall(contest, st, px, q), points)
        /\ qsoArray' = Append(qsoArray, MakeLine(q, points, mark))
    BY <1>6 DEF LogQso
  <2> HIDE DEF q
  <2>3. points \in Nat /\ mark \in SUBSET Marks
    BY <2>1, QsoScored DEF mark, points, px
  <2> HIDE DEF points, mark
  <2> QED  BY <1>5, <2>1, <2>2, <2>3
<1>7. CASE LogLan
  <2>1. PICK q \in LanQsos, isNew \in BOOLEAN, dupe \in BOOLEAN :
            LET printed == PrintedBy(q, isNew)
                line    == IF dupe THEN [printed EXCEPT !.points = 0] ELSE printed
            IN  /\ st' = AddCall2(contest, ScoreQso(st, line.points), line, rig)
                /\ file' = Append(file, line)
                /\ qsoArray' = Append(qsoArray, line)
    BY <1>7 DEF LogLan
  <2> DEFINE line == IF dupe THEN [PrintedBy(q, isNew) EXCEPT !.points = 0]
                     ELSE PrintedBy(q, isNew)
  <2>2. /\ st' = AddCall2(contest, ScoreQso(st, line.points), line, rig)
        /\ qsoArray' = Append(qsoArray, line)
    BY <2>1
  <2>3. line \in QsoLine
    BY LanLineType
  <2> HIDE DEF line
  <2>4. line # Note /\ line.points \in Nat
    BY <2>3, QsoIsNoNote DEF QsoLine
  <2>5. ScoreQso(st, line.points) \in Stats
    BY <1>1, <2>4, ScoreQsoGood DEF Good
  <2>6. st'.total = ScoreQso(st, line.points).total
    BY <2>2, <2>5, TotalKept
  <2>7. "total" \in DOMAIN st
    BY <1>1 DEF Stats
  <2> QED  BY <1>1, <2>2, <2>4, <2>6, <2>7, TotalGrows DEF TotalInv
<1>8. CASE IncludeNote \/ ReadNote
  <2>1. qsoArray' = Append(qsoArray, Note) /\ st' = st
    BY <1>8 DEF IncludeNote, ReadNote
  <2>2. SumOfPoints(qsoArray') = SumOfPoints(qsoArray) + 0
    BY <1>1, <2>1, SumAppend DEF PointsOf
  <2> QED  BY <1>1, <2>1, <2>2 DEF TotalInv
<1>9. CASE ReadQso
  <2> DEFINE q      == file[pos + 1]
             px     == Px(q.call)
             dupe   == IsDupe(contest, st, q.call, q.band, q.mode, now, rig)
             points == Score(contest, q, dupe)
             mark   == Mark(contest, st, px, q)
  <2>1. /\ pos + 1 \in 1..Len(file) /\ q # Note /\ file \in Seq(Line)
        /\ st' = ScoreQso(AddCall(contest, st, px, q), points)
        /\ qsoArray' = Append(qsoArray, MakeLine(q, points, mark))
    BY <1>9 DEF ReadQso, IInv, TypeOK
  <2>2. q \in QsoLine
    BY <2>1 DEF Line
  <2> HIDE DEF q
  <2>3. IsQso(q) /\ q.comment \in Exchanges
    BY <2>2 DEF QsoLine, IsQso
  <2>4. points \in Nat /\ mark \in SUBSET Marks
    BY <2>3, QsoScored DEF points, mark, px
  <2> HIDE DEF points, mark
  <2> QED  BY <1>5, <2>1, <2>3, <2>4
<1>10. CASE Rescore \/ DeleteQso \/ EndEdit \/ Crash \/ Restart
  <2>1. qsoArray' = <<>> /\ st' = InitScoring
    BY <1>10 DEF Rescore, DeleteQso, EndEdit, Crash, Restart, StartReading
  <2> QED  BY <2>1, SumOfNothing DEF TotalInv, InitScoring
<1>11. CASE EditQso
  <2>1. PICK i \in DOMAIN qsoArray :
            /\ qsoArray[i] # Note
            /\ \E line \in Edited(qsoArray[i]) \ {qsoArray[i]} :
                /\ file' = [file EXCEPT ![i] = line]
                /\ qsoArray' = [qsoArray EXCEPT ![i] = line]
    BY <1>11 DEF EditQso
  <2>2. PICK line \in Edited(qsoArray[i]) : qsoArray' = [qsoArray EXCEPT ![i] = line]
    BY <2>1
  <2>3. qsoArray[i] \in QsoLine
    BY <1>1, <2>1 DEF Line
  <2>4. line \in QsoLine /\ line.points = qsoArray[i].points
    BY <1>1, <2>2, <2>3, EditedType DEF IInv, TypeOK
  <2>5. PointsOf(line) = PointsOf(qsoArray[i])
    BY <2>1, <2>4, QsoIsNoNote DEF PointsOf
  <2>6. qsoArray' \in Seq(Line) /\ Len(qsoArray') = Len(qsoArray)
    BY <1>1, <2>2, <2>4, EditedSeq DEF Line
  <2>7. \A j \in 1..Len(qsoArray) : PointsOf(qsoArray[j]) = PointsOf(qsoArray'[j])
    BY <1>1, <2>2, <2>5
  <2>8. SumOfPoints(qsoArray') = SumOfPoints(qsoArray)
    BY <1>1, <2>6, <2>7, SumOfSame
  <2>9. st' = st
    BY <1>11 DEF EditQso
  <2> QED  BY <1>1, <2>8, <2>9 DEF TotalInv
<1> QED
  BY <1>3, <1>4, <1>6, <1>7, <1>8, <1>9, <1>10, <1>11 DEF Next

(* The points on the display are the sum of the points printed in the log,   *)
(* for logs of any length and whatever wrote them.                           *)
THEOREM TotalIsSum == Spec => []TotalIsSumOfLog
<1>1. TotalInv => TotalIsSumOfLog
  BY DEF TotalInv, TotalIsSumOfLog
<1> QED  BY <1>1, InitInv, NextInv, InitTotal, NextTotal, PTL DEF Spec

-----------------------------------------------------------------------------
(* Rescoring.                                                              *)

\* A dupe in a contest without clock.
Dupe(ct, s, call, band, mode) ==
    /\ ~ct.ignoreDupe
    /\ LookupWorked(s, call)
    /\ ct.qsoOnce \/ band \in s.worked[call]
    /\ ct.mixed => s.time[call][mode][band] # 0

\* ReadLine() where neither clock, nor radio, nor a prefix left over matter.
ReadLineBy(ct, r, q) ==
    IF q = Note THEN [r EXCEPT !.lines = Append(@, Note)]
    ELSE LET px     == IF ct.pfx = "once" THEN WpxPrefix[q.call] ELSE None
             points == Score(ct, q, Dupe(ct, r.st, q.call, q.band, q.mode))
         IN  [st    |-> ScoreQso(AddCall(ct, r.st, px, q), points),
              lines |-> Append(r.lines, MakeLine(q, points, Mark(ct, r.st, px, q)))]

\* f[i] is what reading the first i of the lines gives.
ReadsUpTo(ct, f, lines, n) ==
    f = [i \in 0..n |-> IF i = 0 THEN [st |-> InitScoring, lines |-> <<>>]
                        ELSE ReadLineBy(ct, f[i - 1], lines[i])]

\* Two logs whose first n lines are read alike.
ReadAlike(ct, lines, others, n) ==
    \A i \in 1..n : \A r : ReadLineBy(ct, r, lines[i]) = ReadLineBy(ct, r, others[i])

\* Reading the lines gives these statistics, and the same lines.
Reproduced(ct, lines, stats) ==
    \E f : /\ ReadsUpTo(ct, f, lines, Len(lines))
           /\ f[Len(lines)] = [st |-> stats, lines |-> lines]

\* With rules that depend on the log only, the statistics are those that reading
\* the log gives, and a call is a dupe as long as the contact lasts.
RereadInv ==
    Deterministic =>
        /\ phase # "editing" => Reproduced(contest, qsoArray, st)
        /\ phase = "getexchange" =>
               current.dupe = Dupe(contest, st, current.call, rig.band, rig.mode)

(* Any number of lines can be read. *)
LEMMA ReadExists ==
    ASSUME NEW ct, NEW lines, NEW n \in Nat
    PROVE  \E f : ReadsUpTo(ct, f, lines, n)
<1> DEFINE S == {k \in Nat : \E f : ReadsUpTo(ct, f, lines, k)}
           zero == [st |-> InitScoring, lines |-> <<>>]
<1>1. 0 \in S
  <2>1. ReadsUpTo(ct, [i \in 0..0 |-> zero], lines, 0)
    BY DEF ReadsUpTo
  <2> QED  BY <2>1
<1>2. ASSUME NEW k \in Nat, k \in S
      PROVE  k + 1 \in S
  <2>1. PICK f : ReadsUpTo(ct, f, lines, k)
    BY <1>2
  <2>2. ReadsUpTo(ct, [i \in 0..k+1 |-> IF i = k + 1 THEN ReadLineBy(ct, f[k], lines[k + 1])
                                        ELSE f[i]], lines, k + 1)
    BY <2>1 DEF ReadsUpTo
  <2> QED  BY <2>2
<1> HIDE DEF S
<1>3. Nat \subseteq S
  BY <1>1, <1>2, SetInduction
<1> QED  BY <1>3 DEF S

(* Lines that are read alike give the same. *)
LEMMA ReadSame ==
    ASSUME NEW ct, NEW lines, NEW others, NEW n \in Nat, NEW k \in Nat, NEW m \in Nat,
           n <= k, n <= m, NEW f, ReadsUpTo(ct, f, lines, k), NEW g, ReadsUpTo(ct, g, others, m),
           ReadAlike(ct, lines, others, n)
    PROVE  f[n] = g[n]
<1> DEFINE S == {i \in Nat : i <= n => f[i] = g[i]}
<1>1. 0 \in S
  BY DEF ReadsUpTo
<1>2. ASSUME NEW i \in Nat, i \in S
      PROVE  i + 1 \in S
  <2>1. CASE i + 1 <= n
    <3>1. i + 1 \in 1..n /\ i + 1 \in 0..k /\ i + 1 \in 0..m /\ (i + 1) - 1 = i /\ i <= n
      BY <2>1
    <3>2. f[i + 1] = ReadLineBy(ct, f[i], lines[i + 1])
      BY <3>1 DEF ReadsUpTo
    <3>3. g[i + 1] = ReadLineBy(ct, g[i], others[i + 1])
      BY <3>1 DEF ReadsUpTo
    <3> QED  BY <1>2, <3>1, <3>2, <3>3 DEF ReadAlike
  <2> QED  BY <2>1
<1> HIDE DEF S
<1>3. n \in S
  BY <1>1, <1>2, SetInduction
<1> QED  BY <1>3 DEF S

(* Such a contest reads a line as ReadLine() does. *)
LEMMA ReadLineIs ==
    ASSUME Deterministic
    PROVE  /\ \A r, q : ReadLine(r, q) = ReadLineBy(contest, r, q)
           /\ \A s, call, band, mode :
                  IsDupe(contest, s, call, band, mode, now, rig) = Dupe(contest, s, call, band, mode)
<1>1. ASSUME NEW s, NEW call, NEW band, NEW mode
      PROVE  IsDupe(contest, s, call, band, mode, now, rig) = Dupe(contest, s, call, band, mode)
  <2>1. WorkedInCurrentMinitestPeriod(contest, s, call, now, rig)
    BY DEF Deterministic, WorkedInCurrentMinitestPeriod
  <2> QED  BY <2>1, Zenon DEF IsDupe, Dupe
<1>2. ASSUME NEW r, NEW q
      PROVE  ReadLine(r, q) = ReadLineBy(contest, r, q)
  BY <1>1 DEF ReadLine, ReadLineBy
<1> QED  BY <1>1, <1>2

(* Reread() reads line by line. *)
LEMMA RereadIs ==
    ASSUME Deterministic, NEW lines, Len(lines) \in Nat
    PROVE  \E f : ReadsUpTo(contest, f, lines, Len(lines)) /\ Reread(lines) = f[Len(lines)]
<1> DEFINE zero == [st |-> InitScoring, lines |-> <<>>]
           read[n \in 0..Len(lines)] ==
               IF n = 0 THEN zero ELSE ReadLine(read[n - 1], lines[n])
<1>1. Reread(lines) = read[Len(lines)]
  BY DEF Reread
<1> HIDE DEF zero
<1>2. \E f : f = [n \in 0..Len(lines) |-> IF n = 0 THEN zero ELSE ReadLine(f[n - 1], lines[n])]
  <2>1. PICK f : ReadsUpTo(contest, f, lines, Len(lines))
    BY ReadExists
  <2>2. f = [n \in 0..Len(lines) |-> IF n = 0 THEN zero ELSE ReadLineBy(contest, f[n - 1], lines[n])]
    BY <2>1 DEF ReadsUpTo, zero
  <2>3. f = [n \in 0..Len(lines) |-> IF n = 0 THEN zero ELSE ReadLine(f[n - 1], lines[n])]
    BY <2>2, ReadLineIs
  <2> QED  BY <2>3
<1>3. read = [n \in 0..Len(lines) |-> IF n = 0 THEN zero ELSE ReadLine(read[n - 1], lines[n])]
  BY <1>2
<1> HIDE DEF read
<1>4. read = [n \in 0..Len(lines) |->
                  IF n = 0 THEN zero ELSE ReadLineBy(contest, read[n - 1], lines[n])]
  BY <1>3, ReadLineIs
<1>5. ReadsUpTo(contest, read, lines, Len(lines))
  BY <1>4 DEF ReadsUpTo, zero
<1> QED  BY <1>1, <1>5

(* The empty log is reproduced, and a line that is read as it is. *)
LEMMA ReproducedNothing ==
    ASSUME NEW ct
    PROVE  Reproduced(ct, <<>>, InitScoring)
<1>1. PICK f : ReadsUpTo(ct, f, <<>>, 0)
  BY ReadExists
<1>2. f[0] = [st |-> InitScoring, lines |-> <<>>]
  BY <1>1 DEF ReadsUpTo
<1> QED  BY <1>1, <1>2 DEF Reproduced

LEMMA ReproducedAppend ==
    ASSUME NEW ct, NEW lines \in Seq(Line), NEW s, Reproduced(ct, lines, s), NEW line, NEW t,
           ReadLineBy(ct, [st |-> s, lines |-> lines], line)
               = [st |-> t, lines |-> Append(lines, line)]
    PROVE  Reproduced(ct, Append(lines, line), t)
<1> DEFINE more == Append(lines, line)
           n    == Len(lines)
<1>1. /\ n \in Nat /\ Len(more) = n + 1 /\ more[n + 1] = line
      /\ \A i \in 1..n : more[i] = lines[i]
  OBVIOUS
<1>2. PICK f : ReadsUpTo(ct, f, lines, n) /\ f[n] = [st |-> s, lines |-> lines]
  BY DEF Reproduced
<1>3. PICK g : ReadsUpTo(ct, g, more, n + 1)
  <2>1. n + 1 \in Nat
    BY <1>1
  <2> QED  BY <2>1, ReadExists
<1>4. ReadLineBy(ct, [st |-> s, lines |-> lines], line) = [st |-> t, lines |-> more]
  OBVIOUS
<1> HIDE DEF more, n
<1>5. ReadAlike(ct, lines, more, n)
  BY <1>1 DEF ReadAlike
<1>6. f[n] = g[n]
  <2>1. n \in Nat /\ n + 1 \in Nat /\ n <= n /\ n <= n + 1
    BY <1>1
  <2> QED  BY <1>2, <1>3, <1>5, <2>1, ReadSame
<1>7. g[n + 1] = ReadLineBy(ct, g[n], more[n + 1])
  BY <1>1, <1>3 DEF ReadsUpTo
<1>8. g[n + 1] = [st |-> t, lines |-> more]
  BY <1>1, <1>2, <1>4, <1>6, <1>7
<1> QED  BY <1>1, <1>3, <1>8 DEF Reproduced, more

LEMMA ReproducedNote ==
    ASSUME NEW ct, NEW lines \in Seq(Line), NEW s, Reproduced(ct, lines, s)
    PROVE  Reproduced(ct, Append(lines, Note), s)
<1>1. ReadLineBy(ct, [st |-> s, lines |-> lines], Note) = [st |-> s, lines |-> Append(lines, Note)]
  BY DEF ReadLineBy
<1> QED  BY <1>1, ReproducedAppend

LEMMA ReproducedQso ==
    ASSUME NEW ct, NEW lines \in Seq(Line), NEW s, Reproduced(ct, lines, s),
           NEW q, IsQso(q), q.comment \in Exchanges,
           NEW px, ct.pfx = "none" \/ (ct.pfx = "once" /\ px = WpxPrefix[q.call]),
           NEW points \in Nat, points = Score(ct, q, Dupe(ct, s, q.call, q.band, q.mode)),
           Mark(ct, s, px, q) \in SUBSET Marks
    PROVE  Reproduced(ct, Append(lines, MakeLine(q, points, Mark(ct, s, px, q))),
                      ScoreQso(AddCall(ct, s, px, q), points))
<1> DEFINE mark == Mark(ct, s, px, q)
           line == MakeLine(q, points, mark)
           py   == IF ct.pfx = "once" THEN WpxPrefix[line.call] ELSE None
           now2 == ScoreQso(AddCall(ct, s, px, q), points)
<1>1. line # Note
  BY MakeLineType, QsoIsNoNote
<1>2. Alike(q, line) /\ line.call = q.call /\ line.band = q.band /\ line.mode = q.mode
  BY DEF MakeLine, Alike
<1>3. ct.pfx = "none" \/ px = py
  BY <1>2
<1>4. /\ AddCall(ct, s, px, q) = AddCall(ct, s, py, line)
      /\ Mark(ct, s, px, q) = Mark(ct, s, py, line)
  <2> HIDE DEF line, py
  <2> QED  BY <1>2, <1>3, AlikeScored
<1>5. points = Score(ct, line, Dupe(ct, s, line.call, line.band, line.mode))
  BY <1>2 DEF Score
<1>6. MakeLine(line, points, mark) = line
  BY DEF MakeLine
<1> HIDE DEF line, mark
<1>7. ReadLineBy(ct, [st |-> s, lines |-> lines], line)
          = [st |-> ScoreQso(AddCall(ct, s, py, line), points),
             lines |-> Append(lines, MakeLine(line, points, Mark(ct, s, py, line)))]
  BY <1>1, <1>5 DEF ReadLineBy
<1>8. ReadLineBy(ct, [st |-> s, lines |-> lines], line)
          = [st |-> now2, lines |-> Append(lines, line)]
  BY <1>4, <1>6, <1>7 DEF mark
<1> HIDE DEF now2
<1>9. Reproduced(ct, Append(lines, line), now2)
  BY <1>8, ReproducedAppend
<1> QED  BY <1>9 DEF now2, line, mark

(* The log starts empty, and every step keeps it one that is reproduced. *)
LEMMA InitReread == Init => RereadInv
BY ReproducedNothing DEF Init, RereadInv

(* Scoring a QSO with the dupe state of now. *)
LEMMA OneQsoReproduced ==
    ASSUME IInv, Deterministic, Reproduced(contest, qsoArray, st),
           NEW q, IsQso(q), q.comment \in Exchanges,
           NEW px, px = Px(q.call), NEW points,
           points = Score(contest, q, Dupe(contest, st, q.call, q.band, q.mode))
    PROVE  Reproduced(contest, Append(qsoArray, MakeLine(q, points, Mark(contest, st, px, q))),
                      ScoreQso(AddCall(contest, st, px, q), points))
<1>1. setup \in Setups /\ qsoArray \in Seq(Line)
  BY DEF IInv, TypeOK
<1>2. contest.pfx \in {"none", "once"}
  BY <1>1, ContestType DEF Deterministic, Contest
<1>3. contest.pfx = "none" \/ (contest.pfx = "once" /\ px = WpxPrefix[q.call])
  BY <1>2 DEF Px
<1>4. points \in Nat /\ Mark(contest, st, px, q) \in SUBSET Marks
  BY QsoScored
<1> QED  BY <1>1, <1>3, <1>4, ReproducedQso

LEMMA NextReread == IInv /\ RereadInv /\ [Next]_vars => RereadInv'
<1> SUFFICES ASSUME IInv, RereadInv, [Next]_vars, Deterministic' PROVE
        /\ phase' # "editing" => Reproduced(contest, qsoArray, st)'
        /\ phase' = "getexchange" =>
               (current.dupe = Dupe(contest, st, current.call, rig.band, rig.mode))'
  BY DEF RereadInv
<1>1. setup' = setup
  BY DEF Next, vars, memory, CallInput, Abandon, LogQso, LogLan, IncludeNote, TuneRig, Tick,
     ReadNote, ReadQso, ReadEnd, Answer, Rename, Rewrite, RewriteEnd, Rescore, DeleteQso,
     EditQso, EndEdit, Crash, Restart
<1>2. Deterministic /\ contest' = contest /\ qsoArray \in Seq(Line)
  BY <1>1 DEF Deterministic, contest, IInv, TypeOK
<1>3. /\ phase # "editing" => Reproduced(contest, qsoArray, st)
      /\ phase = "getexchange" =>
             current.dupe = Dupe(contest, st, current.call, rig.band, rig.mode)
  BY <1>2 DEF RereadInv
<1>4. ASSUME UNCHANGED <<qsoArray, st>>, phase # "editing"
      PROVE  Reproduced(contest, qsoArray, st)'
  BY <1>2, <1>3, <1>4
<1>5. ASSUME NEW call \in Calls, CallInput(call)
      PROVE  /\ Reproduced(contest, qsoArray, st)'
             /\ (current.dupe = Dupe(contest, st, current.call, rig.band, rig.mode))'
  <2>1. /\ UNCHANGED <<qsoArray, st, rig>> /\ phase # "editing"
        /\ current' = [call |-> call,
                       dupe |-> IsDupe(contest, st, call, rig.band, rig.mode, now, rig)]
    BY <1>5 DEF CallInput
  <2>2. current'.dupe = Dupe(contest, st, call, rig.band, rig.mode) /\ current'.call = call
    BY <1>2, <2>1, ReadLineIs
  <2> QED  BY <1>2, <1>4, <2>1, <2>2
<1>6. CASE Abandon \/ ReadEnd \/ Answer \/ Rename \/ Rewrite \/ RewriteEnd
  <2>1. UNCHANGED <<qsoArray, st>> /\ phase # "editing" /\ phase' # "getexchange"
    BY <1>6 DEF Abandon, ReadEnd, Answer, Rename, Rewrite, RewriteEnd, ToCallInput
  <2> QED  BY <1>4, <2>1
<1>7. CASE TuneRig
  <2>1. phase = "callinput" /\ phase' = phase /\ UNCHANGED <<qsoArray, st>>
    BY <1>2, <1>7 DEF TuneRig, memory, Deterministic
  <2> QED  BY <1>4, <2>1
<1>8. CASE Tick
  <2>1. contest.minitest = 0 /\ contest.minitest > 0
    BY <1>2, <1>8 DEF Tick, Deterministic
  <2> QED  BY <2>1
<1>9. CASE UNCHANGED vars
  <2>1. UNCHANGED <<qsoArray, st, phase, current, rig>>
    BY <1>9 DEF vars, memory
  <2> QED  BY <1>2, <1>3, <2>1
<1>10. ASSUME NEW exchange \in Exchanges, LogQso(exchange)
       PROVE  Reproduced(contest, qsoArray, st)' /\ phase' # "getexchange"
  <2> DEFINE q      == [call |-> current.call, band |-> rig.band, mode |-> rig.mode,
                        time |-> now, comment |-> exchange]
             px     == Px(q.call)
             points == Score(contest, q, current.dupe)
             line   == MakeLine(q, points, Mark(contest, st, px, q))
  <2>1. IsQso(q) /\ q.comment \in Exchanges
    BY <1>10 DEF IInv, TypeOK, LogQso, IsQso
  <2>2. /\ st' = ScoreQso(AddCall(contest, st, px, q), points)
        /\ qsoArray' = Append(qsoArray, line)
        /\ phase = "getexchange" /\ phase' = "callinput"
    BY <1>10 DEF LogQso
  <2>3. current.dupe = Dupe(contest, st, q.call, q.band, q.mode)
    BY <1>3, <2>2
  <2> HIDE DEF q
  <2>4. points = Score(contest, q, Dupe(contest, st, q.call, q.band, q.mode))
    BY <2>3
  <2> HIDE DEF points
  <2>5. Reproduced(contest, Append(qsoArray, line), ScoreQso(AddCall(contest, st, px, q), points))
    BY <1>2, <1>3, <2>1, <2>2, <2>4, OneQsoReproduced
  <2> HIDE DEF line, px
  <2> QED  BY <1>2, <2>2, <2>5
<1>11. CASE LogLan
  BY <1>2, <1>11 DEF LogLan, Deterministic
<1>12. CASE IncludeNote \/ ReadNote
  <2>1. /\ qsoArray' = Append(qsoArray, Note) /\ st' = st
        /\ phase # "editing" /\ phase' # "getexchange"
    BY <1>12 DEF IncludeNote, ReadNote
  <2>2. Reproduced(contest, Append(qsoArray, Note), st)
    BY <1>2, <1>3, <2>1, ReproducedNote
  <2> QED  BY <1>2, <2>1, <2>2
<1>13. CASE ReadQso
  <2> DEFINE q      == file[pos + 1]
             px     == Px(q.call)
             points == Score(contest, q,
                             IsDupe(contest, st, q.call, q.band, q.mode, now, rig))
             line   == MakeLine(q, points, Mark(contest, st, px, q))
  <2>1. /\ pos + 1 \in 1..Len(file) /\ q # Note /\ file \in Seq(Line)
        /\ st' = ScoreQso(AddCall(contest, st, px, q), points)
        /\ qsoArray' = Append(qsoArray, line)
        /\ phase = "reading" /\ phase' = "reading"
    BY <1>13 DEF ReadQso, IInv, TypeOK
  <2>2. q \in QsoLine
    BY <2>1 DEF Line
  <2> HIDE DEF q
  <2>3. IsQso(q) /\ q.comment \in Exchanges
    BY <2>2 DEF QsoLine, IsQso
  <2>4. points = Score(contest, q, Dupe(contest, st, q.call, q.band, q.mode))
    BY <1>2, ReadLineIs
  <2> HIDE DEF points
  <2>5. Reproduced(contest, Append(qsoArray, line), ScoreQso(AddCall(contest, st, px, q), points))
    BY <1>2, <1>3, <2>1, <2>3, <2>4, OneQsoReproduced
  <2> HIDE DEF line, px
  <2> QED  BY <1>2, <2>1, <2>5
<1>14. CASE Rescore \/ DeleteQso \/ EndEdit \/ Crash \/ Restart
  <2>1. qsoArray' = <<>> /\ st' = InitScoring /\ phase' # "getexchange"
    BY <1>14 DEF Rescore, DeleteQso, EndEdit, Crash, Restart, StartReading
  <2> QED  BY <2>1, ReproducedNothing
<1>15. CASE EditQso
  <2>1. phase' = "editing"
    BY <1>15 DEF EditQso
  <2> QED  BY <2>1
<1> QED
  BY <1>5, <1>6, <1>7, <1>8, <1>9, <1>10, <1>11, <1>12, <1>13, <1>14, <1>15 DEF Next

(* Lines of the array and of the file are read alike. *)
LEMMA EntriesReadAlike ==
    ASSUME NEW ct, NEW a \in Line, NEW b \in Line, Entry(a) = Entry(b), NEW r
    PROVE  ReadLineBy(ct, r, a) = ReadLineBy(ct, r, b)
<1>1. ASSUME NEW q \in QsoLine
      PROVE  q # Note /\ Entry(q) = Bare(q) /\ Bare(q) # Note
  <2>1. q # Note
    BY QsoIsNoNote
  <2>2. Entry(q) = Bare(q)
    BY <2>1, BareLine DEF Entry
  <2>3. "call" \in DOMAIN Bare(q) /\ "call" \notin DOMAIN Note
    BY DEF Bare, Note
  <2> QED  BY <2>1, <2>2, <2>3
<1>2. Entry(Note) = Note
  BY DEF Entry
<1>3. CASE a = Note \/ b = Note
  <2>1. a = b
    BY <1>1, <1>2, <1>3 DEF Line
  <2> QED  BY <2>1
<1>4. CASE a # Note /\ b # Note
  <2>1. a \in QsoLine /\ b \in QsoLine
    BY <1>4 DEF Line
  <2>2. Bare(a) = Bare(b)
    BY <1>1, <2>1
  <2>3. Alike(a, b)
    <3>1. /\ Bare(a).call = Bare(b).call /\ Bare(a).band = Bare(b).band
          /\ Bare(a).mode = Bare(b).mode /\ Bare(a).time = Bare(b).time
          /\ Bare(a).comment = Bare(b).comment
      BY <2>2
    <3> QED  BY <3>1 DEF Bare, Alike
  <2> DEFINE px     == IF ct.pfx = "once" THEN WpxPrefix[a.call] ELSE None
             points == Score(ct, a, Dupe(ct, r.st, a.call, a.band, a.mode))
  <2>4. a.call = b.call /\ a.band = b.band /\ a.mode = b.mode
    BY <2>3 DEF Alike
  <2>5. px = IF ct.pfx = "once" THEN WpxPrefix[b.call] ELSE None
    BY <2>4
  <2>6. points = Score(ct, b, Dupe(ct, r.st, b.call, b.band, b.mode))
    BY <2>4 DEF Score
  <2>7. ReadLineBy(ct, r, a)
            = [st    |-> ScoreQso(AddCall(ct, r.st, px, a), points),
               lines |-> Append(r.lines, MakeLine(a, points, Mark(ct, r.st, px, a)))]
    BY <1>4 DEF ReadLineBy
  <2> HIDE DEF px, points
  <2>8. ReadLineBy(ct, r, b)
            = [st    |-> ScoreQso(AddCall(ct, r.st, px, b), points),
               lines |-> Append(r.lines, MakeLine(b, points, Mark(ct, r.st, px, b)))]
    BY <1>4, <2>5, <2>6 DEF ReadLineBy
  <2>9. /\ AddCall(ct, r.st, px, a) = AddCall(ct, r.st, px, b)
        /\ Mark(ct, r.st, px, a) = Mark(ct, r.st, px, b)
    BY <2>3, AlikeScored
  <2>10. \A mark : MakeLine(a, points, mark) = MakeLine(b, points, mark)
    BY <2>3 DEF MakeLine, Alike
  <2> QED  BY <2>7, <2>8, <2>9, <2>10
<1> QED  BY <1>3, <1>4

(* With rules that depend on the log only, a restart or rescoring gives the   *)
(* score, the dupes and the lines that logging contact by contact gave: the   *)
(* file need not have the points and marks of the array for it.               *)
THEOREM RescoringIsIdle == Spec => []RescoringChangesNothing
<1>1. IInv /\ MatchInv /\ RereadInv => RescoringChangesNothing
  <2> SUFFICES ASSUME IInv, MatchInv, RereadInv, Deterministic, Ready
               PROVE  Result(Reread(file).st) = Result(st) /\ Reread(file).lines = qsoArray
    BY DEF RescoringChangesNothing
  <2> DEFINE n == Len(file)
  <2>1. file \in Seq(Line) /\ qsoArray \in Seq(Line) /\ n \in Nat /\ Len(qsoArray) = n
    BY DEF IInv, TypeOK, MatchInv
  <2>2. PICK f : ReadsUpTo(contest, f, file, n) /\ Reread(file) = f[n]
    BY <2>1, RereadIs
  <2>3. PICK g : ReadsUpTo(contest, g, qsoArray, n) /\ g[n] = [st |-> st, lines |-> qsoArray]
    <3>1. phase # "editing"
      BY DEF Ready
    <3> QED  BY <2>1, <3>1 DEF RereadInv, Reproduced
  <2>4. ReadAlike(contest, file, qsoArray, n)
    <3> SUFFICES ASSUME NEW i \in 1..n, NEW r
                 PROVE  ReadLineBy(contest, r, file[i]) = ReadLineBy(contest, r, qsoArray[i])
      BY DEF ReadAlike
    <3>1. file[i] \in Line /\ qsoArray[i] \in Line
      BY <2>1
    <3>2. Entry(file[i]) = Entry(qsoArray[i])
      BY DEF MatchInv, SameEntries
    <3> QED  BY <3>1, <3>2, EntriesReadAlike
  <2> HIDE DEF n
  <2>5. n <= n
    BY <2>1
  <2>6. f[n] = g[n]
    BY <2>1, <2>2, <2>3, <2>4, <2>5, ReadSame
  <2>7. Reread(file) = [st |-> st, lines |-> qsoArray]
    BY <2>2, <2>3, <2>6
  <2> QED  BY <2>7
<1> QED
  BY <1>1, InitInv, NextInv, InitMatch, NextMatch, InitReread, NextReread, PTL DEF Spec

-----------------------------------------------------------------------------
(* Sums over bands.                                                        *)

\* What FoldFunction() computes for all subsets of a set.
SumsOver(g, f, S) ==
    g = [s \in SUBSET S |-> IF s = {} THEN 0
                            ELSE f[CHOOSE x \in s : TRUE] + g[s \ {CHOOSE x \in s : TRUE}]]

(* Such a function exists for a finite set: first for its small subsets. *)
LEMMA SumsExist ==
    ASSUME NEW S, IsFiniteSet(S), NEW f
    PROVE  \E g : SumsOver(g, f, S)
<1> DEFINE first(s) == CHOOSE x \in s : TRUE
           small(n) == {s \in SUBSET S : Cardinality(s) <= n}
           ok(g, n) == g = [s \in small(n) |->
                                IF s = {} THEN 0 ELSE f[first(s)] + g[s \ {first(s)}]]
           N == {n \in Nat : \E g : ok(g, n)}
<1>0. \A s \in SUBSET S : /\ IsFiniteSet(s) /\ Cardinality(s) \in Nat
                          /\ Cardinality(s) <= Cardinality(S)
  BY FS_Subset, FS_CardinalityType
<1>1. 0 \in N
  <2>1. small(0) = {{}}
    <3>1. \A s \in SUBSET S : Cardinality(s) <= 0 <=> s = {}
      BY <1>0, FS_EmptySet
    <3> QED  BY <3>1
  <2>2. ok([s \in small(0) |-> 0], 0)
    BY <2>1
  <2> HIDE DEF ok
  <2> QED  BY <2>2
<1>2. ASSUME NEW n \in Nat, n \in N
      PROVE  n + 1 \in N
  <2>1. PICK g : ok(g, n)
    BY <1>2
  <2> DEFINE h == [s \in small(n + 1) |-> IF s = {} THEN 0 ELSE f[first(s)] + g[s \ {first(s)}]]
  <2>2. ASSUME NEW s \in small(n + 1), s # {}
        PROVE  s \ {first(s)} \in small(n) /\ s \ {first(s)} \in small(n + 1)
    <3>1. first(s) \in s
      BY <2>2
    <3> HIDE DEF first
    <3>2. Cardinality(s \ {first(s)}) = Cardinality(s) - 1 /\ s \ {first(s)} \in SUBSET S
      BY <1>0, <3>1, FS_RemoveElement
    <3> QED  BY <1>0, <3>2
  <2>3. \A s \in small(n) : s \in small(n + 1) /\ h[s] = g[s]
    <3>1. \A s \in small(n) : s \in small(n + 1)
      BY <1>0
    <3>2. \A s \in small(n) : g[s] = IF s = {} THEN 0 ELSE f[first(s)] + g[s \ {first(s)}]
      <4> HIDE DEF small, first
      <4> QED  BY <2>1
    <3> QED  BY <3>1, <3>2
  <2> HIDE DEF h, small, first
  <2>4. \A s \in small(n + 1) : s # {} => h[s \ {first(s)}] = g[s \ {first(s)}]
    BY <2>2, <2>3
  <2>5. ok(h, n + 1)
    BY <2>4 DEF h
  <2> HIDE DEF ok
  <2> QED  BY <2>5
<1> HIDE DEF N
<1>3. Cardinality(S) \in N
  BY <1>0, <1>1, <1>2, SetInduction
<1>4. PICK g : ok(g, Cardinality(S))
  BY <1>3 DEF N
<1>5. small(Cardinality(S)) = SUBSET S
  BY <1>0
<1> HIDE DEF small
<1> QED  BY <1>4, <1>5 DEF SumsOver

(* FoldFunction() with + is the value of it for the whole domain. *)
LEMMA FoldIsSum ==
    ASSUME NEW f, IsFiniteSet(DOMAIN f)
    PROVE  \E g : SumsOver(g, f, DOMAIN f) /\ FoldFunction(+, 0, f) = g[DOMAIN f]
<1> DEFINE S == DOMAIN f
           iter[s \in SUBSET S] ==
               IF s = {} THEN 0
               ELSE LET x == CHOOSE x \in s : TRUE IN f[x] + iter[s \ {x}]
<1>1. FoldFunction(+, 0, f) = iter[S]
  BY DEF FoldFunction, FoldFunctionOnSet, MapThenFoldSet
<1>2. PICK g : SumsOver(g, f, S)
  BY SumsExist
<1>3. iter = [s \in SUBSET S |->
                  IF s = {} THEN 0
                  ELSE LET x == CHOOSE x \in s : TRUE IN f[x] + iter[s \ {x}]]
  <2>1. g = [s \in SUBSET S |->
                  IF s = {} THEN 0
                  ELSE LET x == CHOOSE x \in s : TRUE IN f[x] + g[s \ {x}]]
    BY <1>2 DEF SumsOver
  <2> QED  BY <2>1
<1> HIDE DEF iter
<1>4. SumsOver(iter, f, S)
  BY <1>3 DEF SumsOver
<1> QED  BY <1>1, <1>4

\* T is split into sets K[x] of f[x] members each.
Counts(T, K, f) ==
    /\ T = UNION {K[x] : x \in DOMAIN f}
    /\ \A x \in DOMAIN f : IsFiniteSet(K[x]) /\ Cardinality(K[x]) = f[x]
    /\ \A x, y \in DOMAIN f : x # y => K[x] \cap K[y] = {}

(* It has as many members as they have together. *)
LEMMA SumIsCardinality ==
    ASSUME NEW f, IsFiniteSet(DOMAIN f), NEW K, NEW T, Counts(T, K, f)
    PROVE  FoldFunction(+, 0, f) = Cardinality(T) /\ IsFiniteSet(T)
<1> DEFINE S == DOMAIN f
           all(s) == UNION {K[x] : x \in s}
<1>1. PICK g : SumsOver(g, f, S) /\ FoldFunction(+, 0, f) = g[S]
  BY FoldIsSum
<1> DEFINE right(s) == g[s] = Cardinality(all(s)) /\ IsFiniteSet(all(s))
           N == {n \in Nat : \A s \in SUBSET S : Cardinality(s) = n => right(s)}
<1>2. \A s \in SUBSET S : IsFiniteSet(s) /\ Cardinality(s) \in Nat
  BY FS_Subset, FS_CardinalityType
<1>3. 0 \in N
  <2> SUFFICES ASSUME NEW s \in SUBSET S, Cardinality(s) = 0
               PROVE  right(s)
    OBVIOUS
  <2>1. s = {}
    BY <1>2, FS_EmptySet
  <2>2. g[s] = 0 /\ all(s) = {}
    BY <1>1, <2>1 DEF SumsOver
  <2> QED  BY <2>2, FS_EmptySet
<1>4. ASSUME NEW n \in Nat, n \in N
      PROVE  n + 1 \in N
  <2> SUFFICES ASSUME NEW s \in SUBSET S, Cardinality(s) = n + 1
               PROVE  right(s)
    OBVIOUS
  <2> DEFINE x == CHOOSE x \in s : TRUE
             r == s \ {x}
  <2>1. s # {} /\ x \in s
    <3>1. s # {}
      BY FS_EmptySet
    <3> QED  BY <3>1
  <2>2. g[s] = f[x] + g[r]
    BY <1>1, <2>1 DEF SumsOver
  <2> HIDE DEF x
  <2>3. r \in SUBSET S /\ Cardinality(r) = n
    <3>1. IsFiniteSet(s)
      BY <1>2
    <3>2. Cardinality(r) = Cardinality(s) - 1
      BY <2>1, <3>1, FS_RemoveElement
    <3> QED  BY <3>2
  <2>4. right(r)
    BY <1>4, <2>3
  <2>5. all(s) = K[x] \cup all(r) /\ K[x] \cap all(r) = {} /\ x \in S
    BY <2>1 DEF Counts
  <2>6. IsFiniteSet(K[x]) /\ Cardinality(K[x]) = f[x]
    BY <2>5 DEF Counts
  <2> HIDE DEF all, r
  <2>7. /\ IsFiniteSet(K[x] \cup all(r))
        /\ Cardinality(K[x] \cup all(r)) = Cardinality(K[x]) + Cardinality(all(r)) - Cardinality({})
    BY <2>4, <2>5, <2>6, FS_Union
  <2>8. Cardinality({}) = 0 /\ Cardinality(K[x]) \in Nat /\ Cardinality(all(r)) \in Nat
    BY <2>4, <2>6, FS_EmptySet, FS_CardinalityType
  <2> QED  BY <2>2, <2>4, <2>5, <2>6, <2>7, <2>8
<1> HIDE DEF N
<1>5. Cardinality(S) \in N
  BY <1>2, <1>3, <1>4, SetInduction
<1>6. right(S)
  BY <1>5 DEF N
<1> QED  BY <1>1, <1>6 DEF Counts

(* As many things as an injective image has. *)
LEMMA SameNumber ==
    ASSUME NEW S, IsFiniteSet(S), NEW T, NEW f \in [S -> T],
           \A x, y \in S : f[x] = f[y] => x = y, \A t \in T : \E x \in S : f[x] = t
    PROVE  IsFiniteSet(T) /\ Cardinality(T) = Cardinality(S)
<1>1. f \in Bijection(S, T)
  BY DEF Bijection, Injection, Surjection, IsInjective
<1> QED  BY <1>1, FS_Bijection DEF ExistsBijection

-----------------------------------------------------------------------------
(* The tables that a QSO fills.                                            *)

\* Steps that leave all other tables alone.
SameWorked(s, t)    == t.worked = s.worked
SameCtyZones(s, t)  == t.countries = s.countries /\ t.zones = s.zones
SamePrefixes(s, t)  == t.prefixes = s.prefixes
SameMultis(s, t)    == t.multis = s.multis
AllSame(s, t) ==
    SameWorked(s, t) /\ SameCtyZones(s, t) /\ SamePrefixes(s, t) /\ SameMultis(s, t)

\* What is written: of the station itself, and of the multipliers.
StationAdded(s, t, call, zone, band) ==
    /\ t.worked = [s.worked EXCEPT ![call] = @ \cup {band}]
    /\ t.countries = IF Country[call] = NoCountry THEN s.countries
                     ELSE [s.countries EXCEPT ![Country[call]] = @ \cup {band}]
    /\ t.zones = IF zone = None THEN s.zones ELSE [s.zones EXCEPT ![zone] = @ \cup {band}]

MultiAdded(s, t, name, band, mode, multMode) ==
    t.multis = IF NewMulti(s, name, band, mode, multMode)
               THEN [s.multis EXCEPT ![name] =
                         @ \cup {<<EffectiveMode(multMode, mode), band>>}]
               ELSE s.multis

PfxAdded(s, t, px, band) ==
    t.prefixes = IF px = None THEN s.prefixes
                 ELSE [s.prefixes EXCEPT ![px] = @ \cup {band}]

(* One helper writes one table. *)
LEMMA CountingTables ==
    ASSUME NEW s, s \in Stats, NEW q, NEW band, NEW points
    PROVE  /\ AllSame(s, UpdateWorked(s, q))
           /\ AllSame(s, CountQso(s, band))
           /\ AllSame(s, ScoreQso(s, points))
BY DEF Stats, UpdateWorked, CountQso, ScoreQso, AllSame, SameWorked, SameCtyZones,
       SamePrefixes, SameMultis

LEMMA AddPfxTables ==
    ASSUME NEW s, s \in Stats, NEW px \in WpxPrefixes \cup {None}, NEW band
    PROVE  LET t == AddPfx(s, px, band)
           IN  /\ SameWorked(s, t) /\ SameCtyZones(s, t) /\ SameMultis(s, t)
               /\ PfxAdded(s, t, px, band)
<1> DEFINE t == CountPfx(s, px, band)
<1>1. AllSame(s, t) /\ DOMAIN t = DOMAIN s
  BY DEF Stats, CountPfx, AllSame, SameWorked, SameCtyZones, SamePrefixes, SameMultis
<1>2. s.prefixes \in [WpxPrefixes -> SUBSET Bands] /\ "prefixes" \in DOMAIN s
  BY DEF Stats
<1>3. CASE px = None
  <2>1. AddPfx(s, px, band) = t
    BY <1>3 DEF AddPfx
  <2> QED  BY <1>1, <1>3, <2>1 DEF AllSame, SamePrefixes, PfxAdded
<1>4. CASE px # None /\ band \in s.prefixes[px]
  <2>1. AddPfx(s, px, band) = s
    BY <1>4 DEF AddPfx
  <2>2. [s.prefixes EXCEPT ![px] = @ \cup {band}] = s.prefixes
    BY <1>2, <1>4
  <2> QED  BY <1>4, <2>1, <2>2 DEF SameWorked, SameCtyZones, SameMultis, PfxAdded
<1>5. CASE px # None /\ band \notin s.prefixes[px]
  <2>1. AddPfx(s, px, band) = [t EXCEPT !.prefixes[px] = @ \cup {band}]
    BY <1>5 DEF AddPfx
  <2> HIDE DEF t
  <2>2. /\ AddPfx(s, px, band).prefixes = [s.prefixes EXCEPT ![px] = @ \cup {band}]
        /\ AddPfx(s, px, band).worked = t.worked /\ AddPfx(s, px, band).multis = t.multis
        /\ AddPfx(s, px, band).countries = t.countries /\ AddPfx(s, px, band).zones = t.zones
    BY <1>1, <1>2, <2>1 DEF AllSame, SamePrefixes
  <2> QED  BY <1>1, <1>5, <2>2 DEF AllSame, SameWorked, SameCtyZones, SameMultis, PfxAdded
<1> QED  BY <1>3, <1>4, <1>5

LEMMA AddCountryTables ==
    ASSUME NEW s, s \in Stats, NEW cty, NEW band
    PROVE  LET t == AddCountry(s, cty, band)
           IN  /\ SameWorked(s, t) /\ SamePrefixes(s, t) /\ SameMultis(s, t)
               /\ t.countries = IF cty = NoCountry THEN s.countries
                                ELSE [s.countries EXCEPT ![cty] = @ \cup {band}]
               /\ t.zones = s.zones
<1>1. CASE cty # NoCountry /\ band \in s.countries[cty]
  <2>1. AddCountry(s, cty, band) = s
    BY <1>1 DEF AddCountry
  <2>2. [s.countries EXCEPT ![cty] = @ \cup {band}] = s.countries
    BY <1>1 DEF Stats
  <2> QED  BY <1>1, <2>1, <2>2 DEF SameWorked, SamePrefixes, SameMultis
<1>2. CASE cty # NoCountry /\ band \notin s.countries[cty]
  BY <1>2 DEF AddCountry, Stats, SameWorked, SamePrefixes, SameMultis
<1>3. CASE cty = NoCountry
  BY <1>3 DEF AddCountry, SameWorked, SamePrefixes, SameMultis
<1> QED  BY <1>1, <1>2, <1>3

LEMMA AddZoneTables ==
    ASSUME NEW s, s \in Stats, NEW zone, NEW band
    PROVE  LET t == AddZone(s, zone, band)
           IN  /\ SameWorked(s, t) /\ SamePrefixes(s, t) /\ SameMultis(s, t)
               /\ t.countries = s.countries
               /\ t.zones = IF zone = None THEN s.zones
                            ELSE [s.zones EXCEPT ![zone] = @ \cup {band}]
<1>1. CASE zone = None
  BY <1>1 DEF AddZone, SameWorked, SamePrefixes, SameMultis
<1>2. CASE zone # None /\ band \in s.zones[zone]
  <2>1. AddZone(s, zone, band) = s
    BY <1>2 DEF AddZone
  <2>2. [s.zones EXCEPT ![zone] = @ \cup {band}] = s.zones
    BY <1>2 DEF Stats
  <2> QED  BY <1>2, <2>1, <2>2 DEF SameWorked, SamePrefixes, SameMultis
<1>3. CASE zone # None /\ band \notin s.zones[zone]
  BY <1>3 DEF AddZone, Stats, SameWorked, SamePrefixes, SameMultis
<1> QED  BY <1>1, <1>2, <1>3

(* addcall()'s part for the station itself: worked[], countries[] and zones[]. *)
LEMMA AddStationTables ==
    ASSUME NEW ct, NEW s, Good(s), NEW call \in Calls,
           NEW comment \in Exchanges \cup {None}, NEW band \in Bands
    PROVE  /\ SamePrefixes(s, AddStation(ct, s, call, comment, band))
           /\ SameMultis(s, AddStation(ct, s, call, comment, band))
           /\ StationAdded(s, AddStation(ct, s, call, comment, band), call,
                           ZoneNr(ct, comment), band)
<1> DEFINE zone == ZoneNr(ct, comment)
           marked == MarkWorked(s, call, band)
           added  == AddCountry(marked, Country[call], band)
<1>1. Country[call] \in Countries
  BY ScoringAssumption
<1>2. Good(marked) /\ marked \in Stats
  BY MarkWorkedGood DEF Good
<1>3. /\ SameCtyZones(s, marked) /\ SamePrefixes(s, marked) /\ SameMultis(s, marked)
      /\ marked.worked = [s.worked EXCEPT ![call] = @ \cup {band}]
  BY DEF MarkWorked, Good, Stats, SameCtyZones, SamePrefixes, SameMultis
<1> HIDE DEF marked
<1>4. Good(added) /\ added \in Stats
  BY <1>1, <1>2, AddCountryGood DEF Good
<1>5. /\ SameWorked(marked, added) /\ SamePrefixes(marked, added) /\ SameMultis(marked, added)
      /\ added.countries = IF Country[call] = NoCountry THEN marked.countries
                           ELSE [marked.countries EXCEPT ![Country[call]] = @ \cup {band}]
      /\ added.zones = marked.zones
  BY <1>2, AddCountryTables
<1> HIDE DEF added
<1> DEFINE u == AddZone(added, zone, band)
<1>6. /\ SameWorked(added, u) /\ SamePrefixes(added, u) /\ SameMultis(added, u)
      /\ u.countries = added.countries
      /\ u.zones = IF zone = None THEN added.zones
                   ELSE [added.zones EXCEPT ![zone] = @ \cup {band}]
  BY <1>4, AddZoneTables
<1>7. AddStation(ct, s, call, comment, band) = u
  BY DEF AddStation, added, marked
<1> HIDE DEF u
<1>8. SamePrefixes(s, u) /\ SameMultis(s, u)
  BY <1>3, <1>5, <1>6 DEF SamePrefixes, SameMultis
<1>9. StationAdded(s, u, call, zone, band)
  BY <1>3, <1>5, <1>6 DEF SameWorked, SameCtyZones, StationAdded
<1> QED  BY <1>7, <1>8, <1>9

LEMMA RememberMultiTables ==
    ASSUME NEW s, s \in Stats, NEW name, NEW band, NEW mode, NEW multMode
    PROVE  /\ SameWorked(s, RememberMulti(s, name, band, mode, multMode))
           /\ SameCtyZones(s, RememberMulti(s, name, band, mode, multMode))
           /\ SamePrefixes(s, RememberMulti(s, name, band, mode, multMode))
           /\ MultiAdded(s, RememberMulti(s, name, band, mode, multMode),
                         name, band, mode, multMode)
<1> DEFINE t    == RememberMulti(s, name, band, mode, multMode)
           mark == <<EffectiveMode(multMode, mode), band>>
<1>1. CASE NewMulti(s, name, band, mode, multMode)
  <2> HIDE DEF mark
  <2>1. t = [s EXCEPT !.multis[name] = @ \cup {mark},
                      !.nrMultis = IF s.multis[name] = {} THEN @ + 1 ELSE @,
                      !.multscore[band] = @ + 1]
    BY <1>1 DEF RememberMulti, mark
  <2> HIDE DEF t
  <2>2. t.multis = [s.multis EXCEPT ![name] = @ \cup {mark}]
    BY <2>1 DEF Stats
  <2>3. SameWorked(s, t) /\ SameCtyZones(s, t) /\ SamePrefixes(s, t)
    BY <2>1 DEF Stats, SameWorked, SameCtyZones, SamePrefixes
  <2>4. MultiAdded(s, t, name, band, mode, multMode)
    BY <1>1, <2>2 DEF MultiAdded, mark
  <2> QED  BY <2>3, <2>4 DEF t
<1>2. CASE ~NewMulti(s, name, band, mode, multMode)
  <2>1. t = s
    BY <1>2 DEF RememberMulti
  <2> HIDE DEF t
  <2>2. MultiAdded(s, t, name, band, mode, multMode)
    BY <1>2, <2>1 DEF MultiAdded
  <2>3. SameWorked(s, t) /\ SameCtyZones(s, t) /\ SamePrefixes(s, t)
    BY <2>1 DEF SameWorked, SameCtyZones, SamePrefixes
  <2> QED  BY <2>2, <2>3 DEF t
<1> QED  BY <1>1, <1>2

(* addcall() and score_qso() *)
LEMMA AddCallTables ==
    ASSUME NEW ct, NEW s, Good(s), NEW q, IsQso(q), q.comment \in Exchanges,
           NEW px \in WpxPrefixes \cup {None}, NEW points \in Nat,
           NEW t, t = ScoreQso(AddCall(ct, s, px, q), points)
    PROVE  /\ AddOk(ct, q.call) => StationAdded(s, t, q.call, ZoneNr(ct, q.comment), q.band)
           /\ ~AddOk(ct, q.call) => SameWorked(s, t) /\ SameCtyZones(s, t)
           /\ AddsPfx(ct, q.call) => PfxAdded(s, t, px, q.band)
           /\ MultiAdded(s, t, MultName(ct, q), q.band, q.mode, MultMode(ct, q))
<1> DEFINE seen    == UpdateWorked(s, q)
           pfxed   == IF AddsPfx(ct, q.call) THEN AddPfx(seen, px, q.band) ELSE seen
           counted == CountQso(pfxed, q.band)
           added   == IF AddOk(ct, q.call)
                      THEN AddStation(ct, counted, q.call, q.comment, q.band)
                      ELSE counted
           name    == MultName(ct, q)
           mode    == MultMode(ct, q)
           multed  == RememberMulti(added, name, q.band, q.mode, mode)
           zone    == ZoneNr(ct, q.comment)
<1>1. q.call \in Calls /\ q.band \in Bands /\ s \in Stats
  BY DEF IsQso, Good
<1>2. Good(seen) /\ seen \in Stats
  BY UpdateWorkedGood DEF Good
<1>3. AllSame(s, seen)
  BY <1>1, CountingTables
<1> HIDE DEF seen
<1>4. Good(pfxed) /\ pfxed \in Stats
  <2>1. Good(pfxed)
    BY <1>1, <1>2, AddPfxGood
  <2> QED  BY <2>1 DEF Good
<1>5. /\ SameWorked(seen, pfxed) /\ SameCtyZones(seen, pfxed) /\ SameMultis(seen, pfxed)
      /\ AddsPfx(ct, q.call) => PfxAdded(seen, pfxed, px, q.band)
  <2>1. /\ SameWorked(seen, AddPfx(seen, px, q.band))
        /\ SameCtyZones(seen, AddPfx(seen, px, q.band))
        /\ SameMultis(seen, AddPfx(seen, px, q.band))
        /\ PfxAdded(seen, AddPfx(seen, px, q.band), px, q.band)
    BY <1>2, AddPfxTables
  <2>2. SameWorked(seen, seen) /\ SameCtyZones(seen, seen) /\ SameMultis(seen, seen)
    BY DEF SameWorked, SameCtyZones, SameMultis
  <2> QED  BY <2>1, <2>2
<1> HIDE DEF pfxed
<1>6. Good(counted) /\ counted \in Stats /\ AllSame(pfxed, counted)
  <2>1. Good(counted)
    BY <1>1, <1>4, CountQsoGood
  <2>2. AllSame(pfxed, counted)
    BY <1>4, CountingTables
  <2> QED  BY <2>1, <2>2 DEF Good
<1> HIDE DEF counted
<1>7. /\ SamePrefixes(counted, added) /\ SameMultis(counted, added)
      /\ AddOk(ct, q.call) => StationAdded(counted, added, q.call, zone, q.band)
      /\ ~AddOk(ct, q.call) => SameWorked(counted, added) /\ SameCtyZones(counted, added)
  <2> DEFINE u == AddStation(ct, counted, q.call, q.comment, q.band)
  <2>1. /\ SamePrefixes(counted, u) /\ SameMultis(counted, u)
        /\ StationAdded(counted, u, q.call, zone, q.band)
    BY <1>1, <1>6, AddStationTables
  <2>2. /\ SamePrefixes(counted, counted) /\ SameMultis(counted, counted)
        /\ SameWorked(counted, counted) /\ SameCtyZones(counted, counted)
    BY DEF SamePrefixes, SameMultis, SameWorked, SameCtyZones
  <2> HIDE DEF u
  <2>3. added = IF AddOk(ct, q.call) THEN u ELSE counted
    BY DEF u
  <2> QED  BY <2>1, <2>2, <2>3
<1>8. Good(added) /\ added \in Stats
  <2>1. Good(added)
    BY <1>1, <1>6, AddStationGood
  <2> QED  BY <2>1 DEF Good
<1>9. AddCall(ct, s, px, q) = multed
  BY DEF AddCall, AddMult, added, counted, pfxed, seen
<1> HIDE DEF added, name, mode, zone
<1>10. /\ SameWorked(added, multed) /\ SameCtyZones(added, multed)
       /\ SamePrefixes(added, multed)
       /\ MultiAdded(added, multed, name, q.band, q.mode, mode)
  BY <1>8, RememberMultiTables
<1>11. AllSame(multed, t)
  <2>1. AddCall(ct, s, px, q) \in Stats
    BY AddCallGood DEF Good
  <2> HIDE DEF multed
  <2>2. AllSame(multed, ScoreQso(multed, points))
    BY <1>9, <2>1, CountingTables
  <2> QED  BY <1>9, <2>2
<1> HIDE DEF multed
<1>12. SameWorked(added, t) /\ SameWorked(s, counted)
  BY <1>3, <1>5, <1>6, <1>10, <1>11 DEF AllSame, SameWorked
<1>13. SameCtyZones(added, t) /\ SameCtyZones(s, counted)
  BY <1>3, <1>5, <1>6, <1>10, <1>11 DEF AllSame, SameCtyZones
<1>14. AddOk(ct, q.call) => StationAdded(s, t, q.call, zone, q.band)
  BY <1>7, <1>12, <1>13 DEF StationAdded, SameWorked, SameCtyZones
<1>15. ~AddOk(ct, q.call) => SameWorked(s, t) /\ SameCtyZones(s, t)
  BY <1>7, <1>12, <1>13 DEF SameWorked, SameCtyZones
<1>16. AddsPfx(ct, q.call) => PfxAdded(s, t, px, q.band)
  <2>1. t.prefixes = pfxed.prefixes /\ seen.prefixes = s.prefixes
    BY <1>3, <1>6, <1>7, <1>10, <1>11 DEF AllSame, SamePrefixes
  <2> QED  BY <1>5, <2>1 DEF PfxAdded
<1>17. MultiAdded(s, t, name, q.band, q.mode, mode)
  <2>1. t.multis = multed.multis /\ added.multis = s.multis
    BY <1>3, <1>5, <1>6, <1>7, <1>11 DEF AllSame, SameMultis
  <2>2. NewMulti(added, name, q.band, q.mode, mode) <=> NewMulti(s, name, q.band, q.mode, mode)
    BY <2>1 DEF NewMulti
  <2> QED  BY <1>10, <2>1, <2>2 DEF MultiAdded
<1> QED  BY <1>14, <1>15, <1>16, <1>17 DEF name, mode, zone

-----------------------------------------------------------------------------
(* The rules.                                                              *)

\* A contest whose named multipliers all count in the same way.
OneKind(ct)  == ct.dxSections => ct.mult = "none"
KindMode(ct) == IF ct.mult = "none" THEN "band" ELSE ct.multMode

LEMMA ModeOfKind ==
    ASSUME NEW ct, OneKind(ct), NEW q
    PROVE  MultMode(ct, q) = KindMode(ct)
BY DEF OneKind, KindMode, MultMode, HomeSections

\* The tables are those that these QSOs bring.
TablesAre(ct, s, qsos) ==
    /\ \A c \in Calls, b \in Bands :
           b \in s.worked[c] <=> AddOk(ct, c) /\ \E q \in qsos : q.call = c /\ q.band = b
    /\ \A c \in Countries, b \in Bands :
           b \in s.countries[c] <=>
               c # NoCountry /\ \E q \in qsos : AddOk(ct, q.call) /\ Country[q.call] = c /\ q.band = b
    /\ \A z \in Zones, b \in Bands :
           b \in s.zones[z] <=>
               \E q \in qsos : AddOk(ct, q.call) /\ ZoneNr(ct, q.comment) = z /\ q.band = b
    /\ ct.pfx = "once" => \A p \in WpxPrefixes :
           s.prefixes[p] # {} <=> \E q \in qsos : WpxPrefix[q.call] = p
    /\ \A n \in MultNames : s.multis[n] # {} <=> \E q \in qsos : MultName(ct, q) = n
    /\ OneKind(ct) /\ KindMode(ct) # "once" => \A n \in MultNames, m \in Modes, b \in Bands :
           <<m, b>> \in s.multis[n] <=>
               \E q \in qsos : /\ MultName(ct, q) = n /\ q.band = b
                               /\ EffectiveMode(KindMode(ct), q.mode) = m

\* A QSO before line i that makes it a dupe; the points that the rules give.
Earlier(ct, lines, i) ==
    /\ ~ct.ignoreDupe
    /\ \E j \in 1..(i - 1) :
        /\ lines[j] # Note /\ lines[j].call = lines[i].call
        /\ ct.qsoOnce \/ lines[j].band = lines[i].band
        /\ ct.mixed => lines[j].mode = lines[i].mode

PointsAre(ct, lines) ==
    \A i \in 1..Len(lines) :
        lines[i] # Note =>
            lines[i].points = IF Earlier(ct, lines, i) THEN 0 ELSE ct.points[lines[i].mode]

\* Between the edit of a line and the reading of the log that follows, the
\* tables may be wrong.
RulesInv ==
    Deterministic /\ phase # "editing" =>
        /\ TablesAre(contest, st, QsosOf(qsoArray))
        /\ DupesAsInRules => PointsAre(contest, qsoArray)

(* A contact more among those the tables are made of. *)
LEMMA TablesGrow ==
    ASSUME NEW ct, NEW s, Good(s), NEW qsos, TablesAre(ct, s, qsos),
           NEW q, IsQso(q), q.comment \in Exchanges,
           NEW px \in WpxPrefixes \cup {None}, ct.pfx = "once" => px = WpxPrefix[q.call],
           NEW points \in Nat, NEW t, t = ScoreQso(AddCall(ct, s, px, q), points),
           NEW line, line.call = q.call, line.band = q.band, line.mode = q.mode,
           line.comment = q.comment
    PROVE  TablesAre(ct, t, qsos \cup {line})
<1> DEFINE more == qsos \cup {line}
           ok   == AddOk(ct, q.call)
           zone == ZoneNr(ct, q.comment)
           name == MultName(ct, q)
           mode == MultMode(ct, q)
           mark == <<EffectiveMode(mode, q.mode), q.band>>
<1>1. /\ q.call \in Calls /\ q.band \in Bands /\ q.mode \in Modes
      /\ Country[q.call] \in Countries /\ WpxPrefix[q.call] \in WpxPrefixes
      /\ zone \in Zones \cup {None} /\ None \notin Zones /\ None \notin WpxPrefixes
      /\ name \in MultNames \cup {None} /\ None \notin MultNames
  BY ScoringAssumption DEF IsQso, ZoneNr, MultName, MultNames
<1>2. /\ s.worked \in [Calls -> SUBSET Bands] /\ s.countries \in [Countries -> SUBSET Bands]
      /\ s.zones \in [Zones -> SUBSET Bands] /\ s.prefixes \in [WpxPrefixes -> SUBSET Bands]
      /\ s.multis \in [MultNames -> SUBSET (Modes \X Bands)]
  BY DEF Good, Stats
<1>3. AddOk(ct, line.call) = ok /\ ZoneNr(ct, line.comment) = zone /\ MultName(ct, line) = name
  BY DEF MultName, CountsSection, HomeSections
<1> HIDE DEF more, ok, zone, name, mode, mark
<1>4. /\ ok => StationAdded(s, t, q.call, zone, q.band)
      /\ ~ok => SameWorked(s, t) /\ SameCtyZones(s, t)
      /\ AddsPfx(ct, q.call) => PfxAdded(s, t, px, q.band)
      /\ MultiAdded(s, t, name, q.band, q.mode, mode)
  BY AddCallTables DEF ok, zone, name, mode
<1>5. \A q1 : q1 \in more <=> q1 \in qsos \/ q1 = line
  BY DEF more
<1>6. ASSUME NEW c \in Calls, NEW b \in Bands
      PROVE  b \in t.worked[c] <=> AddOk(ct, c) /\ \E q1 \in more : q1.call = c /\ q1.band = b
  <2>1. b \in s.worked[c] <=> AddOk(ct, c) /\ \E q1 \in qsos : q1.call = c /\ q1.band = b
    BY DEF TablesAre
  <2>2. b \in t.worked[c] <=> b \in s.worked[c] \/ (ok /\ c = q.call /\ b = q.band)
    BY <1>2, <1>4 DEF StationAdded, SameWorked
  <2> QED  BY <1>3, <1>5, <2>1, <2>2
<1>7. ASSUME NEW c \in Countries, NEW b \in Bands
      PROVE  b \in t.countries[c] <=>
                 c # NoCountry
                 /\ \E q1 \in more : AddOk(ct, q1.call) /\ Country[q1.call] = c /\ q1.band = b
  <2>1. b \in s.countries[c] <=>
            c # NoCountry
            /\ \E q1 \in qsos : AddOk(ct, q1.call) /\ Country[q1.call] = c /\ q1.band = b
    BY DEF TablesAre
  <2>2. b \in t.countries[c] <=>
            \/ b \in s.countries[c]
            \/ ok /\ c # NoCountry /\ c = Country[q.call] /\ b = q.band
    BY <1>1, <1>2, <1>4 DEF StationAdded, SameCtyZones
  <2> QED  BY <1>3, <1>5, <2>1, <2>2
<1>8. ASSUME NEW z \in Zones, NEW b \in Bands
      PROVE  b \in t.zones[z] <=>
                 \E q1 \in more : AddOk(ct, q1.call) /\ ZoneNr(ct, q1.comment) = z /\ q1.band = b
  <2>1. b \in s.zones[z] <=>
            \E q1 \in qsos : AddOk(ct, q1.call) /\ ZoneNr(ct, q1.comment) = z /\ q1.band = b
    BY DEF TablesAre
  <2>2. b \in t.zones[z] <=> b \in s.zones[z] \/ (ok /\ z = zone /\ b = q.band)
    BY <1>1, <1>2, <1>4 DEF StationAdded, SameCtyZones
  <2> QED  BY <1>3, <1>5, <2>1, <2>2
<1>9. ASSUME ct.pfx = "once", NEW p \in WpxPrefixes
      PROVE  t.prefixes[p] # {} <=> \E q1 \in more : WpxPrefix[q1.call] = p
  <2>1. s.prefixes[p] # {} <=> \E q1 \in qsos : WpxPrefix[q1.call] = p
    BY <1>9 DEF TablesAre
  <2>2. AddsPfx(ct, q.call) /\ px = WpxPrefix[q.call] /\ px # None
    BY <1>1, <1>9 DEF AddsPfx
  <2>3. t.prefixes = [s.prefixes EXCEPT ![px] = @ \cup {q.band}]
    BY <1>4, <2>2 DEF PfxAdded
  <2>4. t.prefixes[p] # {} <=> s.prefixes[p] # {} \/ p = px
    BY <1>1, <1>2, <2>2, <2>3
  <2> QED  BY <1>5, <2>1, <2>2, <2>4
<1>10. ASSUME NEW n \in MultNames
       PROVE  t.multis[n] # {} <=> \E q1 \in more : MultName(ct, q1) = n
  <2>1. s.multis[n] # {} <=> \E q1 \in qsos : MultName(ct, q1) = n
    BY DEF TablesAre
  <2>2. t.multis[n] # {} <=> s.multis[n] # {} \/ n = name
    <3>1. CASE NewMulti(s, name, q.band, q.mode, mode)
      <4>1. t.multis = [s.multis EXCEPT ![name] = @ \cup {mark}]
        BY <1>4, <3>1 DEF MultiAdded, mark
      <4>2. name # None
        BY <3>1 DEF NewMulti
      <4> QED  BY <1>1, <1>2, <4>1, <4>2
    <3>2. CASE ~NewMulti(s, name, q.band, q.mode, mode)
      <4>1. t.multis = s.multis
        BY <1>4, <3>2 DEF MultiAdded
      <4>2. name = None \/ s.multis[name] # {}
        BY <3>2 DEF NewMulti
      <4> QED  BY <1>1, <4>1, <4>2
    <3> QED  BY <3>1, <3>2
  <2> QED  BY <1>3, <1>5, <2>1, <2>2
<1>11. ASSUME OneKind(ct), KindMode(ct) # "once",
              NEW n \in MultNames, NEW m \in Modes, NEW b \in Bands
       PROVE  <<m, b>> \in t.multis[n] <=>
                  \E q1 \in more : /\ MultName(ct, q1) = n /\ q1.band = b
                                   /\ EffectiveMode(KindMode(ct), q1.mode) = m
  <2>1. mode = KindMode(ct)
    BY <1>11, ModeOfKind DEF mode
  <2>2. <<m, b>> \in s.multis[n] <=>
            \E q1 \in qsos : /\ MultName(ct, q1) = n /\ q1.band = b
                             /\ EffectiveMode(mode, q1.mode) = m
    BY <1>11, <2>1 DEF TablesAre
  <2>3. <<m, b>> \in t.multis[n] <=>
            \/ <<m, b>> \in s.multis[n]
            \/ n = name /\ b = q.band /\ m = EffectiveMode(mode, q.mode)
    <3>1. CASE NewMulti(s, name, q.band, q.mode, mode)
      <4>1. t.multis = [s.multis EXCEPT ![name] = @ \cup {mark}]
        BY <1>4, <3>1 DEF MultiAdded, mark
      <4>2. name # None
        BY <3>1 DEF NewMulti
      <4>3. <<m, b>> = mark <=> b = q.band /\ m = EffectiveMode(mode, q.mode)
        BY DEF mark
      <4> QED  BY <1>1, <1>2, <4>1, <4>2, <4>3
    <3>2. CASE ~NewMulti(s, name, q.band, q.mode, mode)
      <4>1. t.multis = s.multis
        BY <1>4, <3>2 DEF MultiAdded
      <4>2. name = None \/ <<EffectiveMode(mode, q.mode), q.band>> \in s.multis[name]
        BY <1>11, <2>1, <3>2 DEF NewMulti
      <4> QED  BY <1>1, <4>1, <4>2
    <3> QED  BY <3>1, <3>2
  <2>4. line.band = q.band /\ line.mode = q.mode
    OBVIOUS
  <2> QED  BY <1>3, <1>5, <2>1, <2>2, <2>3, <2>4
<1> QED  BY <1>6, <1>7, <1>8, <1>9, <1>10, <1>11 DEF TablesAre, more

(* The contacts of a log with a line more. *)
LEMMA QsosGrow ==
    ASSUME NEW lines \in Seq(Line), NEW line
    PROVE  /\ QsosOf(<<>>) = {}
           /\ line # Note => QsosOf(Append(lines, line)) = QsosOf(lines) \cup {line}
           /\ QsosOf(Append(lines, Note)) = QsosOf(lines)
<1>1. ASSUME NEW x
      PROVE  LET more == Append(lines, x)
             IN  {more[i] : i \in DOMAIN more} = {lines[i] : i \in DOMAIN lines} \cup {x}
  <2> DEFINE more == Append(lines, x)
  <2>1. /\ DOMAIN more = 1..(Len(lines) + 1) /\ DOMAIN lines = 1..Len(lines)
        /\ Len(lines) \in Nat /\ more[Len(lines) + 1] = x
        /\ \A i \in 1..Len(lines) : more[i] = lines[i]
    OBVIOUS
  <2> HIDE DEF more
  <2>2. ASSUME NEW y PROVE y \in {more[i] : i \in DOMAIN more} <=>
                               y \in {lines[i] : i \in DOMAIN lines} \cup {x}
    <3>1. (\E i \in 1..(Len(lines) + 1) : y = more[i]) <=>
              (\E i \in 1..Len(lines) : y = more[i]) \/ y = more[Len(lines) + 1]
      BY <2>1
    <3> QED  BY <2>1, <3>1
  <2> QED  BY <2>2 DEF more
<1> QED  BY <1>1 DEF QsosOf, Range

(* worked[] makes a dupe of what the rules make one. *)
LEMMA DupeIsEarlier ==
    ASSUME NEW ct, ~ct.dxSections, ct.excluded = {}, ~(ct.qsoOnce /\ ct.mixed),
           NEW s, NEW lines \in Seq(Line), TablesAre(ct, s, QsosOf(lines)), WorkedAre(s, lines),
           NEW call \in Calls, NEW band \in Bands, NEW mode \in Modes
    PROVE  Dupe(ct, s, call, band, mode) <=>
               /\ ~ct.ignoreDupe
               /\ \E j \in 1..Len(lines) :
                   /\ lines[j] # Note /\ lines[j].call = call
                   /\ ct.qsoOnce \/ lines[j].band = band
                   /\ ct.mixed => lines[j].mode = mode
<1>1. AddOk(ct, call)
  BY DEF AddOk, CheckVeto
<1>2. \A q : q \in QsosOf(lines) <=> \E j \in 1..Len(lines) : q = lines[j] /\ lines[j] # Note
  BY DEF QsosOf, Range
<1>3. band \in s.worked[call] <=>
          \E j \in 1..Len(lines) : lines[j] # Note /\ lines[j].call = call /\ lines[j].band = band
  <2>1. band \in s.worked[call] <=>
            AddOk(ct, call) /\ \E q \in QsosOf(lines) : q.call = call /\ q.band = band
    BY DEF TablesAre
  <2> QED  BY <1>1, <1>2, <2>1
<1>4. LookupWorked(s, call) <=>
          \E j \in 1..Len(lines) : lines[j] # Note /\ lines[j].call = call
  <2>1. LookupWorked(s, call) <=> \E m \in Modes, b \in Bands : InLog(lines, call, m, b)
    BY DEF LookupWorked, WorkedAre
  <2>2. \A j \in 1..Len(lines) : lines[j] # Note => lines[j].mode \in Modes /\ lines[j].band \in Bands
    BY DEF Line, QsoLine
  <2> QED  BY <2>1, <2>2 DEF InLog
<1>5. s.time[call][mode][band] # 0 <=> InLog(lines, call, mode, band)
  BY DEF WorkedAre
<1> QED  BY <1>3, <1>4, <1>5 DEF Dupe, InLog

(* The points of a contact more. *)
LEMMA PointsGrow ==
    ASSUME NEW ct, ~ct.dxSections, ct.excluded = {}, ~(ct.qsoOnce /\ ct.mixed),
           NEW s, NEW lines \in Seq(Line), TablesAre(ct, s, QsosOf(lines)), WorkedAre(s, lines),
           PointsAre(ct, lines), NEW line \in QsoLine,
           line.points = Score(ct, line, Dupe(ct, s, line.call, line.band, line.mode))
    PROVE  PointsAre(ct, Append(lines, line))
<1> DEFINE more == Append(lines, line)
           n    == Len(lines)
<1>1. /\ n \in Nat /\ Len(more) = n + 1 /\ more[n + 1] = line
      /\ \A i \in 1..n : more[i] = lines[i]
  OBVIOUS
<1>2. Dupe(ct, s, line.call, line.band, line.mode) <=>
          /\ ~ct.ignoreDupe
          /\ \E j \in 1..n : /\ lines[j] # Note /\ lines[j].call = line.call
                             /\ ct.qsoOnce \/ lines[j].band = line.band
                             /\ ct.mixed => lines[j].mode = line.mode
  <2>1. line.call \in Calls /\ line.band \in Bands /\ line.mode \in Modes
    BY DEF QsoLine
  <2> QED  BY <2>1, DupeIsEarlier
<1> HIDE DEF more, n
<1>3. ASSUME NEW i \in 1..n
      PROVE  Earlier(ct, more, i) <=> Earlier(ct, lines, i)
  <2>1. more[i] = lines[i] /\ \A j \in 1..(i - 1) : more[j] = lines[j]
    BY <1>1
  <2> QED  BY <2>1 DEF Earlier
<1>4. Earlier(ct, more, n + 1) <=> Dupe(ct, s, line.call, line.band, line.mode)
  <2>1. (n + 1) - 1 = n
    BY <1>1
  <2> QED  BY <1>1, <1>2, <2>1 DEF Earlier
<1>5. ASSUME NEW i \in 1..(n + 1), more[i] # Note
      PROVE  more[i].points = IF Earlier(ct, more, i) THEN 0 ELSE ct.points[more[i].mode]
  <2>1. CASE i = n + 1
    BY <1>1, <1>4, <2>1 DEF Score
  <2>2. CASE i # n + 1
    <3>1. i \in 1..n
      BY <1>1, <2>2
    <3> QED  BY <1>1, <1>3, <1>5, <3>1 DEF PointsAre, n
  <2> QED  BY <2>1, <2>2
<1> QED  BY <1>1, <1>5 DEF PointsAre, more

(* A note has no points. *)
LEMMA PointsOfNote ==
    ASSUME NEW ct, NEW lines \in Seq(Line), PointsAre(ct, lines)
    PROVE  PointsAre(ct, Append(lines, Note))
<1> DEFINE more == Append(lines, Note)
           n    == Len(lines)
<1>1. /\ n \in Nat /\ Len(more) = n + 1 /\ more[n + 1] = Note
      /\ \A i \in 1..n : more[i] = lines[i]
  OBVIOUS
<1> HIDE DEF more, n
<1>2. ASSUME NEW i \in 1..(n + 1), more[i] # Note
      PROVE  more[i].points = IF Earlier(ct, more, i) THEN 0 ELSE ct.points[more[i].mode]
  <2>1. i \in 1..n /\ more[i] = lines[i] /\ \A j \in 1..(i - 1) : more[j] = lines[j]
    BY <1>1, <1>2
  <2>2. Earlier(ct, more, i) <=> Earlier(ct, lines, i)
    BY <2>1 DEF Earlier
  <2> QED  BY <1>2, <2>1, <2>2 DEF PointsAre, n
<1> QED  BY <1>1, <1>2 DEF PointsAre, more

(* No lines, nothing in the tables. *)
LEMMA NothingByRules ==
    ASSUME NEW ct
    PROVE  TablesAre(ct, InitScoring, {}) /\ PointsAre(ct, <<>>)
<1>1. /\ InitScoring.worked = [c \in Calls |-> {}]
      /\ InitScoring.countries = [c \in Countries |-> {}]
      /\ InitScoring.zones = [z \in Zones |-> {}]
      /\ InitScoring.prefixes = [p \in WpxPrefixes |-> {}]
      /\ InitScoring.multis = [n \in MultNames |-> {}]
  BY DEF InitScoring
<1>2. TablesAre(ct, InitScoring, {})
  BY <1>1 DEF TablesAre
<1> QED  BY <1>2 DEF PointsAre

(* Scoring a QSO with the dupe state of now. *)
LEMMA OneQsoByRules ==
    ASSUME IInv, WorkedInv, Deterministic, TablesAre(contest, st, QsosOf(qsoArray)),
           DupesAsInRules => PointsAre(contest, qsoArray), phase # "editing",
           NEW q, IsQso(q), q.comment \in Exchanges,
           NEW px, px = Px(q.call), NEW points,
           points = Score(contest, q, Dupe(contest, st, q.call, q.band, q.mode)),
           NEW line, line = MakeLine(q, points, Mark(contest, st, px, q))
    PROVE  /\ TablesAre(contest, ScoreQso(AddCall(contest, st, px, q), points),
                        QsosOf(Append(qsoArray, line)))
           /\ DupesAsInRules => PointsAre(contest, Append(qsoArray, line))
<1>1. setup \in Setups /\ qsoArray \in Seq(Line) /\ Good(st) /\ WorkedAre(st, qsoArray)
  BY DEF IInv, TypeOK, CountersAgree, PrefixesAgree, Good, WorkedInv
<1>2. points \in Nat /\ line \in QsoLine
  <2>1. points \in Nat /\ Mark(contest, st, px, q) \in SUBSET Marks
    BY QsoScored
  <2> QED  BY <2>1, MakeLineType
<1>3. px \in WpxPrefixes \cup {None} /\ (contest.pfx = "once" => px = WpxPrefix[q.call])
  <2>1. wpxPrefix \in WpxPrefixes \cup {None} /\ q.call \in Calls
    BY DEF IInv, TypeOK, IsQso
  <2> QED  BY <2>1, PxType DEF Px
<1>4. /\ line.call = q.call /\ line.band = q.band /\ line.mode = q.mode
      /\ line.comment = q.comment /\ line.points = points
  BY DEF MakeLine
<1>5. QsosOf(Append(qsoArray, line)) = QsosOf(qsoArray) \cup {line}
  <2>1. line # Note
    BY <1>2, QsoIsNoNote
  <2> QED  BY <1>1, <2>1, QsosGrow
<1>6. TablesAre(contest, ScoreQso(AddCall(contest, st, px, q), points),
                QsosOf(qsoArray) \cup {line})
  BY <1>1, <1>2, <1>3, <1>4, TablesGrow
<1>7. ASSUME DupesAsInRules
      PROVE  PointsAre(contest, Append(qsoArray, line))
  <2>1. line.points = Score(contest, line, Dupe(contest, st, line.call, line.band, line.mode))
    BY <1>4 DEF Score
  <2>2. PointsAre(contest, qsoArray)
    BY <1>7
  <2> QED  BY <1>1, <1>2, <1>7, <2>1, <2>2, PointsGrow DEF DupesAsInRules
<1> QED  BY <1>5, <1>6, <1>7

(* The tables and points of the rules, from the empty log on. *)
LEMMA InitRules == Init => RulesInv
<1>1. QsosOf(<<>>) = {}
  BY DEF QsosOf, Range
<1> QED  BY <1>1, NothingByRules DEF Init, RulesInv

LEMMA NextRules ==
    IInv /\ WorkedInv /\ RereadInv /\ RulesInv /\ [Next]_vars => RulesInv'
<1> SUFFICES ASSUME IInv, WorkedInv, RereadInv, RulesInv, [Next]_vars,
                    Deterministic', phase' # "editing"
             PROVE  /\ TablesAre(contest', st', QsosOf(qsoArray'))
                    /\ DupesAsInRules' => PointsAre(contest', qsoArray')
  BY DEF RulesInv, QsosOf
<1>1. setup' = setup
  BY DEF Next, vars, memory, CallInput, Abandon, LogQso, LogLan, IncludeNote, TuneRig, Tick,
     ReadNote, ReadQso, ReadEnd, Answer, Rename, Rewrite, RewriteEnd, Rescore, DeleteQso,
     EditQso, EndEdit, Crash, Restart
<1>2. /\ Deterministic /\ contest' = contest /\ qsoArray \in Seq(Line)
      /\ DupesAsInRules' <=> DupesAsInRules
  BY <1>1 DEF Deterministic, contest, DupesAsInRules, IInv, TypeOK
<1>3. phase # "editing" =>
          /\ TablesAre(contest, st, QsosOf(qsoArray))
          /\ DupesAsInRules => PointsAre(contest, qsoArray)
          /\ phase = "getexchange" =>
                 current.dupe = Dupe(contest, st, current.call, rig.band, rig.mode)
  BY <1>2 DEF RulesInv, RereadInv
<1>4. CASE UNCHANGED <<qsoArray, st>> /\ phase # "editing"
  BY <1>2, <1>3, <1>4
<1>5. ASSUME NEW call \in Calls, CallInput(call)
      PROVE  UNCHANGED <<qsoArray, st>> /\ phase # "editing"
  BY <1>5 DEF CallInput
<1>6. CASE Abandon \/ ReadEnd \/ Answer \/ Rename \/ Rewrite \/ RewriteEnd \/ TuneRig
  <2>1. UNCHANGED <<qsoArray, st>> /\ phase # "editing"
    BY <1>6 DEF Abandon, ReadEnd, Answer, Rename, Rewrite, RewriteEnd, TuneRig, memory
  <2> QED  BY <1>4, <2>1
<1>7. CASE Tick
  <2>1. contest.minitest = 0 /\ contest.minitest > 0
    BY <1>2, <1>7 DEF Tick, Deterministic
  <2> QED  BY <2>1
<1>8. CASE UNCHANGED vars
  <2>1. UNCHANGED <<qsoArray, st>> /\ phase # "editing"
    BY <1>8 DEF vars, memory
  <2> QED  BY <1>4, <2>1
<1>9. ASSUME NEW exchange \in Exchanges, LogQso(exchange)
      PROVE  /\ TablesAre(contest', st', QsosOf(qsoArray'))
             /\ DupesAsInRules' => PointsAre(contest', qsoArray')
  <2> DEFINE q      == [call |-> current.call, band |-> rig.band, mode |-> rig.mode,
                        time |-> now, comment |-> exchange]
             px     == Px(q.call)
             points == Score(contest, q, current.dupe)
             line   == MakeLine(q, points, Mark(contest, st, px, q))
  <2>1. IsQso(q) /\ q.comment \in Exchanges
    BY <1>9 DEF IInv, TypeOK, LogQso, IsQso
  <2>2. /\ st' = ScoreQso(AddCall(contest, st, px, q), points)
        /\ qsoArray' = Append(qsoArray, line)
        /\ phase = "getexchange"
    BY <1>9 DEF LogQso
  <2>3. current.dupe = Dupe(contest, st, q.call, q.band, q.mode)
    BY <1>3, <2>2
  <2> HIDE DEF q
  <2>4. points = Score(contest, q, Dupe(contest, st, q.call, q.band, q.mode))
    BY <2>3
  <2> HIDE DEF points, px
  <2>5. px = Px(q.call)
    BY DEF px
  <2>6. /\ TablesAre(contest, ScoreQso(AddCall(contest, st, px, q), points),
                     QsosOf(Append(qsoArray, line)))
        /\ DupesAsInRules => PointsAre(contest, Append(qsoArray, line))
    <3>1. line = MakeLine(q, points, Mark(contest, st, px, q)) /\ phase # "editing"
      BY <2>2
    <3> HIDE DEF line
    <3> QED  BY <1>2, <1>3, <2>1, <2>4, <2>5, <3>1, OneQsoByRules
  <2> HIDE DEF line
  <2> QED  BY <1>2, <2>2, <2>6
<1>10. CASE LogLan
  BY <1>2, <1>10 DEF LogLan, Deterministic
<1>11. CASE IncludeNote \/ ReadNote
  <2>1. qsoArray' = Append(qsoArray, Note) /\ st' = st /\ phase # "editing"
    BY <1>11 DEF IncludeNote, ReadNote
  <2>2. QsosOf(Append(qsoArray, Note)) = QsosOf(qsoArray)
    BY <1>2, QsosGrow
  <2>3. DupesAsInRules => PointsAre(contest, Append(qsoArray, Note))
    BY <1>2, <1>3, <2>1, PointsOfNote
  <2> QED  BY <1>2, <1>3, <2>1, <2>2, <2>3
<1>12. CASE ReadQso
  <2> DEFINE q      == file[pos + 1]
             px     == Px(q.call)
             points == Score(contest, q,
                             IsDupe(contest, st, q.call, q.band, q.mode, now, rig))
             line   == MakeLine(q, points, Mark(contest, st, px, q))
  <2>1. /\ pos + 1 \in 1..Len(file) /\ q # Note /\ file \in Seq(Line)
        /\ st' = ScoreQso(AddCall(contest, st, px, q), points)
        /\ qsoArray' = Append(qsoArray, line)
        /\ phase = "reading"
    BY <1>12 DEF ReadQso, IInv, TypeOK
  <2>2. q \in QsoLine
    BY <2>1 DEF Line
  <2> HIDE DEF q
  <2>3. IsQso(q) /\ q.comment \in Exchanges
    BY <2>2 DEF QsoLine, IsQso
  <2>4. points = Score(contest, q, Dupe(contest, st, q.call, q.band, q.mode))
    BY <1>2, ReadLineIs
  <2> HIDE DEF points, px
  <2>5. px = Px(q.call)
    BY DEF px
  <2>6. /\ TablesAre(contest, ScoreQso(AddCall(contest, st, px, q), points),
                     QsosOf(Append(qsoArray, line)))
        /\ DupesAsInRules => PointsAre(contest, Append(qsoArray, line))
    <3>1. line = MakeLine(q, points, Mark(contest, st, px, q)) /\ phase # "editing"
      BY <2>1
    <3> HIDE DEF line
    <3> QED  BY <1>2, <1>3, <2>3, <2>4, <2>5, <3>1, OneQsoByRules
  <2> HIDE DEF line
  <2> QED  BY <1>2, <2>1, <2>6
<1>13. CASE Rescore \/ DeleteQso \/ EndEdit \/ Crash \/ Restart
  <2>1. qsoArray' = <<>> /\ st' = InitScoring
    BY <1>13 DEF Rescore, DeleteQso, EndEdit, Crash, Restart, StartReading
  <2>2. QsosOf(<<>>) = {}
    BY <1>2, QsosGrow
  <2> QED  BY <2>1, <2>2, NothingByRules
<1>14. CASE EditQso
  <2>1. phase' = "editing"
    BY <1>14 DEF EditQso
  <2> QED  BY <2>1
<1> QED
  BY <1>4, <1>5, <1>6, <1>7, <1>8, <1>9, <1>10, <1>11, <1>12, <1>13, <1>14 DEF Next

-----------------------------------------------------------------------------
(* Counting the multipliers.                                               *)

\* What was worked, and on which band.
Pairs(X, table) == {p \in X \X Bands : p[2] \in table[p[1]]}

(* The sum over the bands is the number of pairs in the table. *)
LEMMA TableSum ==
    ASSUME NEW X, IsFiniteSet(X), NEW table \in [X -> SUBSET Bands],
           NEW score \in [Bands -> Nat], \A b \in Bands : score[b] = WorkedOn(table, b)
    PROVE  /\ SumPerBand(score) = Cardinality(Pairs(X, table))
           /\ IsFiniteSet(Pairs(X, table))
<1> DEFINE On(b) == {x \in X : b \in table[x]}
           K == [b \in Bands |-> {p \in Pairs(X, table) : p[2] = b}]
<1>1. ASSUME NEW b \in Bands
      PROVE  IsFiniteSet(K[b]) /\ Cardinality(K[b]) = score[b]
  <2> DEFINE f == [x \in On(b) |-> <<x, b>>]
  <2>1. IsFiniteSet(On(b)) /\ Cardinality(On(b)) = score[b]
    BY FS_Subset DEF WorkedOn
  <2>2. f \in [On(b) -> K[b]]
    BY DEF Pairs
  <2>3. \A x, y \in On(b) : f[x] = f[y] => x = y
    OBVIOUS
  <2>4. \A p \in K[b] : \E x \in On(b) : f[x] = p
    <3> SUFFICES ASSUME NEW p \in K[b] PROVE \E x \in On(b) : f[x] = p
      OBVIOUS
    <3>1. p[1] \in On(b) /\ p = <<p[1], b>>
      BY DEF Pairs
    <3> QED  BY <3>1
  <2> HIDE DEF f, On, K
  <2> QED  BY <2>1, <2>2, <2>3, <2>4, SameNumber
<1>2. \A b, c \in Bands : b # c => K[b] \cap K[c] = {}
  OBVIOUS
<1>3. UNION {K[b] : b \in Bands} = Pairs(X, table)
  BY DEF Pairs
<1>4. DOMAIN score = Bands /\ IsFiniteSet(Bands)
  BY FiniteAssumption
<1> HIDE DEF K
<1>5. Counts(Pairs(X, table), K, score)
  BY <1>1, <1>2, <1>3, <1>4 DEF Counts
<1>6. IsFiniteSet(DOMAIN score)
  BY <1>4
<1> QED  BY <1>5, <1>6, SumIsCardinality DEF SumPerBand

\* The named multiplier of a contact, as it counts.
Named(ct, q) ==
    LET name == MultName(ct, q)
    IN  IF name = None THEN {}
        ELSE CASE MultMode(ct, q) = "once" -> {<<name>>}
               [] MultMode(ct, q) = "band" -> {<<name, q.band>>}
               [] OTHER                    -> {<<name, q.band, q.mode>>}

AllNamed(ct, qsos) == UNION {Named(ct, q) : q \in qsos}

\* Contacts as they are in a log.
Logged(qsos) == \A q \in qsos : IsQso(q) /\ q.comment \in Exchanges

LEMMA NamesType ==
    ASSUME NEW ct, NEW q, IsQso(q), q.comment \in Exchanges
    PROVE  MultName(ct, q) \in MultNames \cup {None} /\ None \notin MultNames
BY ScoringAssumption DEF MultName, MultNames, IsQso

(* Multipliers that count once. *)
LEMMA OnceCounted ==
    ASSUME NEW ct, NEW s, Good(s), NEW qsos, Logged(qsos), TablesAre(ct, s, qsos),
           OneKind(ct), KindMode(ct) = "once"
    PROVE  s.nrMultis = Cardinality(AllNamed(ct, qsos))
<1> DEFINE S == {n \in MultNames : s.multis[n] # {}}
           T == AllNamed(ct, qsos)
           f == [n \in S |-> <<n>>]
<1>1. IsFiniteSet(S) /\ Cardinality(S) = s.nrMultis
  <2>1. DOMAIN s.multis = MultNames
    BY DEF Good, Stats
  <2>2. s.nrMultis = Cardinality(S)
    BY <2>1 DEF Good, CountersMatch, EverWorked
  <2> QED  BY <2>2, FiniteMults, FS_Subset
<1>2. \A n \in MultNames : n \in S <=> \E q \in qsos : MultName(ct, q) = n
  BY DEF TablesAre
<1>3. \A t : t \in T <=> \E q \in qsos : MultName(ct, q) # None /\ t = <<MultName(ct, q)>>
  <2>1. \A q : Named(ct, q) = IF MultName(ct, q) = None THEN {} ELSE {<<MultName(ct, q)>>}
    BY ModeOfKind DEF Named
  <2>2. \A t : t \in T <=> \E q \in qsos : t \in Named(ct, q)
    BY DEF AllNamed
  <2> HIDE DEF T
  <2> QED  BY <2>1, <2>2
<1>4. \A q \in qsos : MultName(ct, q) \in MultNames \cup {None} /\ None \notin MultNames
  BY NamesType DEF Logged
<1> HIDE DEF S, T
<1>5. S \subseteq MultNames
  BY DEF S
<1>6. f \in [S -> T]
  BY <1>2, <1>3, <1>4, <1>5
<1>7. \A x, y \in S : f[x] = f[y] => x = y
  OBVIOUS
<1>8. \A t \in T : \E x \in S : f[x] = t
  BY <1>2, <1>3, <1>4
<1> HIDE DEF f
<1> QED  BY <1>1, <1>6, <1>7, <1>8, SameNumber DEF T

(* Multipliers that count on every band, or on every band and in every mode. *)
LEMMA PerBandCounted ==
    ASSUME NEW ct, NEW s, Good(s), NEW qsos, Logged(qsos), TablesAre(ct, s, qsos),
           OneKind(ct), KindMode(ct) \in {"band", "band_mode"}
    PROVE  /\ SumPerBand(s.multscore) = Cardinality(AllNamed(ct, qsos))
           /\ IsFiniteSet(AllNamed(ct, qsos))
<1> DEFINE X     == MultNames \X Modes
           table == [x \in X |-> {b \in Bands : <<x[2], b>> \in s.multis[x[1]]}]
           S     == Pairs(X, table)
           T     == AllNamed(ct, qsos)
           mode  == KindMode(ct)
           f     == [p \in S |-> IF mode = "band" THEN <<p[1][1], p[2]>>
                                 ELSE <<p[1][1], p[2], p[1][2]>>]
<1>1. SumPerBand(s.multscore) = Cardinality(S) /\ IsFiniteSet(S)
  <2>1. ASSUME NEW b \in Bands PROVE s.multscore[b] = WorkedOn(table, b)
    <3>1. DOMAIN s.multis = MultNames
      BY DEF Good, Stats
    <3>2. {x \in (DOMAIN s.multis) \X Modes : <<x[2], b>> \in s.multis[x[1]]}
              = {x \in DOMAIN table : b \in table[x]}
      BY <3>1
    <3> QED  BY <3>2 DEF Good, CountersMatch, MultisOn, WorkedOn
  <2>2. table \in [X -> SUBSET Bands]
    OBVIOUS
  <2>3. s.multscore \in [Bands -> Nat] /\ IsFiniteSet(X)
    BY FiniteMults DEF Good, Stats
  <2> HIDE DEF table, X
  <2> QED  BY <2>1, <2>2, <2>3, TableSum
<1>2. ASSUME NEW n \in MultNames, NEW m \in Modes, NEW b \in Bands
      PROVE  <<<<n, m>>, b>> \in S <=>
                 \E q \in qsos : /\ MultName(ct, q) = n /\ q.band = b
                                 /\ EffectiveMode(mode, q.mode) = m
  <2>1. <<<<n, m>>, b>> \in S <=> <<m, b>> \in s.multis[n]
    BY DEF Pairs
  <2> QED  BY <2>1 DEF TablesAre
<1>3. \A p \in S : /\ p[1][1] \in MultNames /\ p[1][2] \in Modes /\ p[2] \in Bands
                   /\ p = <<<<p[1][1], p[1][2]>>, p[2]>>
  BY DEF Pairs
<1>4. ASSUME NEW q \in qsos
      PROVE  /\ MultName(ct, q) \in MultNames \cup {None} /\ None \notin MultNames
             /\ q.band \in Bands /\ q.mode \in Modes
             /\ EffectiveMode(mode, q.mode) \in Modes
             /\ mode = "band" => EffectiveMode(mode, q.mode) = CWMODE
             /\ mode # "band" => EffectiveMode(mode, q.mode) = q.mode
  BY NamesType, ScoringAssumption DEF Logged, IsQso, EffectiveMode
<1>5. \A t : t \in T <=>
          \E q \in qsos : /\ MultName(ct, q) # None
                          /\ t = IF mode = "band" THEN <<MultName(ct, q), q.band>>
                                 ELSE <<MultName(ct, q), q.band, q.mode>>
  <2>1. \A q : Named(ct, q) =
                   IF MultName(ct, q) = None THEN {}
                   ELSE {IF mode = "band" THEN <<MultName(ct, q), q.band>>
                         ELSE <<MultName(ct, q), q.band, q.mode>>}
    BY ModeOfKind DEF Named
  <2>2. \A t : t \in T <=> \E q \in qsos : t \in Named(ct, q)
    BY DEF AllNamed
  <2> HIDE DEF T, mode
  <2> QED  BY <2>1, <2>2
<1> HIDE DEF S, T, mode
<1>6. ASSUME NEW p \in S
      PROVE  /\ f[p] \in T
             /\ mode = "band" => p[1][2] = CWMODE
  <2>1. PICK q \in qsos : /\ MultName(ct, q) = p[1][1] /\ q.band = p[2]
                          /\ EffectiveMode(mode, q.mode) = p[1][2]
    BY <1>2, <1>3
  <2>2. MultName(ct, q) # None
    BY <1>3, <1>4, <2>1
  <2> QED  BY <1>4, <1>5, <2>1, <2>2
<1>7. f \in [S -> T]
  BY <1>6
<1>8. ASSUME NEW x \in S, NEW y \in S, f[x] = f[y]
      PROVE  x = y
  <2>1. x[1][1] = y[1][1] /\ x[2] = y[2] /\ (mode = "band" \/ x[1][2] = y[1][2])
    BY <1>8
  <2>2. mode = "band" => x[1][2] = CWMODE /\ y[1][2] = CWMODE
    BY <1>6
  <2>3. x[1][2] = y[1][2]
    BY <2>1, <2>2
  <2> QED  BY <1>3, <2>1, <2>3
<1>9. ASSUME NEW t \in T
      PROVE  \E x \in S : f[x] = t
  <2>1. PICK q \in qsos : /\ MultName(ct, q) # None
                          /\ t = IF mode = "band" THEN <<MultName(ct, q), q.band>>
                                 ELSE <<MultName(ct, q), q.band, q.mode>>
    BY <1>5
  <2> DEFINE x == <<<<MultName(ct, q), EffectiveMode(mode, q.mode)>>, q.band>>
  <2>2. x \in S
    BY <1>2, <1>4, <2>1
  <2>3. f[x] = t
    BY <1>4, <2>1, <2>2
  <2> QED  BY <2>2, <2>3
<1> HIDE DEF f
<1>10. IsFiniteSet(T) /\ Cardinality(T) = Cardinality(S)
  BY <1>1, <1>7, <1>8, <1>9, SameNumber
<1> QED  BY <1>1, <1>10 DEF T

(* The multipliers of a contact by the rules are the one that addmult() names. *)
LEMMA NamedByRules ==
    ASSUME setup \in Setups, NEW q, IsQso(q), q.comment \in Exchanges,
           ~contest.dxSections, contest.mult # "none"
    PROVE  RulesMults(q) = Named(contest, q)
<1> DEFINE name == MultName(contest, q)
<1>1. contest.mult \in {"section", "wysiwyg", "unique_call"}
  BY ContestType DEF Contest
<1>2. q.call # None /\ q.comment # None
  BY ScoringAssumption DEF IsQso
<1>3. Named(contest, q) = IF name = None THEN {} ELSE {PerBandMode(name, q)}
  BY DEF Named, PerBandMode
<1>4. CountsSection(contest, q) <=> contest.mult = "section"
  BY DEF CountsSection, HomeSections
<1>5. CASE contest.mult = "section"
  <2>1. name = IF q.comment \in Sections THEN q.comment ELSE None
    BY <1>4, <1>5 DEF MultName
  <2>2. RulesMults(q) = {PerBandMode(x, q) : x \in {q.comment} \cap Sections}
    BY <1>5 DEF RulesMults
  <2> HIDE DEF name
  <2> QED  BY <1>2, <1>3, <2>1, <2>2
<1>6. CASE contest.mult = "wysiwyg"
  <2>1. name = q.comment /\ RulesMults(q) = {PerBandMode(q.comment, q)}
    BY <1>4, <1>6 DEF MultName, RulesMults
  <2> HIDE DEF name
  <2> QED  BY <1>2, <1>3, <2>1
<1>7. CASE contest.mult = "unique_call"
  <2>1. name = q.call /\ RulesMults(q) = {PerBandMode(q.call, q)}
    BY <1>4, <1>7 DEF MultName, RulesMults
  <2> HIDE DEF name
  <2> QED  BY <1>2, <1>3, <2>1
<1> QED  BY <1>1, <1>5, <1>6, <1>7

(* Named multipliers, as many as get_nr_of_mults() counts. *)
LEMMA NamedMults ==
    ASSUME setup \in Setups, NEW s, Good(s), NEW qsos, Logged(qsos),
           TablesAre(contest, s, qsos), ~contest.dxSections, contest.mult # "none"
    PROVE  NrOfMults(contest, s) = Cardinality(UNION {RulesMults(q) : q \in qsos})
<1>1. \A q \in qsos : RulesMults(q) = Named(contest, q)
  BY NamedByRules DEF Logged
<1>2. UNION {RulesMults(q) : q \in qsos} = AllNamed(contest, qsos)
  BY <1>1 DEF AllNamed
<1>3. /\ OneKind(contest) /\ KindMode(contest) = contest.multMode
      /\ contest.multMode \in {"once", "band", "band_mode"}
  BY ContestType DEF OneKind, KindMode, Contest
<1>4. CASE contest.multMode = "once"
  <2>1. s.nrMultis = Cardinality(AllNamed(contest, qsos))
    BY <1>3, <1>4, OnceCounted
  <2> QED  BY <1>2, <1>4, <2>1 DEF NrOfMults
<1>5. CASE contest.multMode # "once"
  <2>1. SumPerBand(s.multscore) = Cardinality(AllNamed(contest, qsos))
    BY <1>3, <1>5, PerBandCounted
  <2> QED  BY <1>2, <1>5, <2>1 DEF NrOfMults
<1> QED  BY <1>4, <1>5

(* Prefixes that count once. *)
LEMMA PrefixMults ==
    ASSUME NEW s, Good(s), NEW qsos, Logged(qsos),
           TablesAre(contest, s, qsos), ~contest.dxSections, contest.mult = "none",
           contest.pfx = "once"
    PROVE  NrOfMults(contest, s) = Cardinality(UNION {RulesMults(q) : q \in qsos})
<1> DEFINE S == {p \in WpxPrefixes : s.prefixes[p] # {}}
           T == UNION {RulesMults(q) : q \in qsos}
           f == [p \in S |-> <<p>>]
<1>1. NrOfMults(contest, s) = Cardinality(S) /\ IsFiniteSet(S)
  <2>1. DOMAIN s.prefixes = WpxPrefixes
    BY DEF Good, Stats
  <2>2. s.nrOfPx = Cardinality(S)
    BY <2>1 DEF Good, PrefixesMatch, EverWorked
  <2>3. NrOfMults(contest, s) = s.nrOfPx
    BY DEF NrOfMults
  <2> QED  BY <2>2, <2>3, FiniteAssumption, FS_Subset
<1>2. \A p \in WpxPrefixes : p \in S <=> \E q \in qsos : WpxPrefix[q.call] = p
  BY DEF TablesAre
<1>3. \A t : t \in T <=> \E q \in qsos : t = <<WpxPrefix[q.call]>>
  <2>1. \A q : RulesMults(q) = {<<WpxPrefix[q.call]>>}
    BY DEF RulesMults
  <2>2. \A t : t \in T <=> \E q \in qsos : t \in RulesMults(q)
    OBVIOUS
  <2> HIDE DEF T
  <2> QED  BY <2>1, <2>2
<1>4. \A q \in qsos : WpxPrefix[q.call] \in WpxPrefixes
  BY ScoringAssumption DEF Logged, IsQso
<1>5. S \subseteq WpxPrefixes
  OBVIOUS
<1> HIDE DEF S, T
<1>6. f \in [S -> T]
  BY <1>2, <1>3, <1>5
<1>7. \A x, y \in S : f[x] = f[y] => x = y
  OBVIOUS
<1>8. \A t \in T : \E x \in S : f[x] = t
  BY <1>2, <1>3, <1>4
<1> HIDE DEF f
<1>9. Cardinality(T) = Cardinality(S)
  BY <1>1, <1>6, <1>7, <1>8, SameNumber
<1> QED  BY <1>1, <1>9 DEF T

(* Zones. *)
LEMMA ZoneMults ==
    ASSUME setup \in Setups, NEW s, Good(s), NEW qsos, Logged(qsos),
           TablesAre(contest, s, qsos), ~contest.dxSections, contest.mult = "none",
           contest.pfx = "none", contest.zones
    PROVE  NrOfMults(contest, s) = Cardinality(UNION {RulesMults(q) : q \in qsos})
<1> DEFINE T == UNION {RulesMults(q) : q \in qsos}
<1>1. SumPerBand(s.zonescore) = Cardinality(Pairs(Zones, s.zones))
  <2>1. IsFiniteSet(Zones)
    BY ScoringAssumption, FiniteAssumption, FS_Subset
  <2>2. s.zones \in [Zones -> SUBSET Bands] /\ s.zonescore \in [Bands -> Nat]
    BY DEF Good, Stats
  <2>3. \A b \in Bands : s.zonescore[b] = WorkedOn(s.zones, b)
    BY DEF Good, CountersMatch
  <2> QED  BY <2>1, <2>2, <2>3, TableSum
<1>2. ASSUME NEW t
      PROVE  t \in T <=> \E q \in qsos : /\ AddOk(contest, q.call) /\ q.comment \in Zones
                                         /\ t = <<q.comment, q.band>>
  <2>1. \A q : RulesMults(q) = IF Country[q.call] \notin contest.excluded
                               THEN {<<x, q.band>> : x \in {q.comment} \cap Zones} ELSE {}
    BY DEF RulesMults
  <2>2. \A q : Country[q.call] \notin contest.excluded <=> AddOk(contest, q.call)
    BY DEF AddOk, CheckVeto
  <2>3. \A q : t \in RulesMults(q) <=> /\ AddOk(contest, q.call) /\ q.comment \in Zones
                                       /\ t = <<q.comment, q.band>>
    BY <2>1, <2>2
  <2> QED  BY <2>3
<1>3. ASSUME NEW z \in Zones, NEW b \in Bands
      PROVE  b \in s.zones[z] <=>
                 \E q \in qsos : AddOk(contest, q.call) /\ q.comment = z /\ q.band = b
  <2>1. b \in s.zones[z] <=>
            \E q \in qsos : /\ AddOk(contest, q.call) /\ ZoneNr(contest, q.comment) = z
                            /\ q.band = b
    BY DEF TablesAre
  <2>2. z # None
    BY ScoringAssumption
  <2>3. \A q : ZoneNr(contest, q.comment) = z <=> q.comment = z
    BY <2>2 DEF ZoneNr
  <2> QED  BY <2>1, <2>3
<1>4. \A q \in qsos : q.band \in Bands
  BY DEF Logged, IsQso
<1> HIDE DEF T
<1>5. ASSUME NEW t
      PROVE  t \in T <=> t \in Pairs(Zones, s.zones)
  <2>1. t \in Pairs(Zones, s.zones) <=>
            \E z \in Zones, b \in Bands : t = <<z, b>> /\ b \in s.zones[z]
    BY DEF Pairs
  <2> QED  BY <1>2, <1>3, <1>4, <2>1
<1>6. T = Pairs(Zones, s.zones)
  BY <1>5
<1>7. NrOfMults(contest, s) = SumPerBand(s.zonescore)
  BY DEF NrOfMults
<1> QED  BY <1>1, <1>6, <1>7 DEF T

\* A country on a band.
CountryMult(p) == <<"country", p[1], p[2]>>

(* DX_&_SECTIONS: sections of the home stations and countries of the others. *)
LEMMA DxMults ==
    ASSUME setup \in Setups, NEW s, Good(s), NEW qsos, Logged(qsos),
           TablesAre(contest, s, qsos), contest.dxSections, contest.mult = "none"
    PROVE  NrOfMults(contest, s) = Cardinality(UNION {RulesMults(q) : q \in qsos})
<1> DEFINE T == UNION {RulesMults(q) : q \in qsos}
           A == AllNamed(contest, qsos)
           P == Pairs(Countries, s.countries)
           C == {CountryMult(p) : p \in P}
           home(q) == Country[q.call] \in HomeCountries
<1>1. SumPerBand(s.multscore) = Cardinality(A) /\ IsFiniteSet(A)
  <2>1. OneKind(contest) /\ KindMode(contest) \in {"band", "band_mode"}
    BY DEF OneKind, KindMode
  <2> QED  BY <2>1, PerBandCounted
<1>2. SumPerBand(s.countryscore) = Cardinality(P) /\ IsFiniteSet(P)
  <2>1. s.countries \in [Countries -> SUBSET Bands] /\ s.countryscore \in [Bands -> Nat]
    BY DEF Good, Stats
  <2>2. \A b \in Bands : s.countryscore[b] = WorkedOn(s.countries, b)
    BY DEF Good, CountersMatch
  <2> QED  BY <2>1, <2>2, FiniteAssumption, TableSum
<1>3. \A p \in P : p[1] \in Countries /\ p[2] \in Bands /\ p = <<p[1], p[2]>>
  BY DEF Pairs
<1>4. ASSUME NEW c \in Countries, NEW b \in Bands
      PROVE  <<c, b>> \in P <=>
                 c # NoCountry
                 /\ \E q \in qsos : AddOk(contest, q.call) /\ Country[q.call] = c /\ q.band = b
  <2>1. <<c, b>> \in P <=> b \in s.countries[c]
    BY DEF Pairs
  <2> QED  BY <2>1 DEF TablesAre
<1>5. ASSUME NEW q \in qsos
      PROVE  /\ AddOk(contest, q.call) <=> ~home(q) /\ Country[q.call] \notin contest.excluded
             /\ home(q) => RulesMults(q) = Named(contest, q)
             /\ ~home(q) => Named(contest, q) = {}
             /\ ~home(q) => RulesMults(q) =
                    IF AddOk(contest, q.call) /\ Country[q.call] # NoCountry
                    THEN {<<"country", Country[q.call], q.band>>} ELSE {}
             /\ Country[q.call] \in Countries /\ q.band \in Bands
  <2>1. q.comment # None /\ Country[q.call] \in Countries /\ q.band \in Bands
    BY ScoringAssumption DEF Logged, IsQso
  <2>2. MultName(contest, q) = IF home(q) /\ q.comment \in Sections THEN q.comment ELSE None
    BY DEF MultName, CountsSection, HomeSections
  <2>3. Named(contest, q) = IF home(q) /\ q.comment \in Sections
                            THEN {<<q.comment, q.band>>} ELSE {}
    <3>1. MultMode(contest, q) = "band"
      BY DEF MultMode
    <3> QED  BY <2>1, <2>2, <3>1 DEF Named
  <2>4. AddOk(contest, q.call) <=> ~home(q) /\ Country[q.call] \notin contest.excluded
    BY DEF AddOk, CheckVeto
  <2>5. home(q) => RulesMults(q) = {<<x, q.band>> : x \in {q.comment} \cap Sections}
    BY DEF RulesMults
  <2>6. ~home(q) => RulesMults(q) = IF \/ Country[q.call] \in contest.excluded
                                       \/ Country[q.call] = NoCountry
                                    THEN {}
                                    ELSE {<<"country", Country[q.call], q.band>>}
    BY DEF RulesMults
  <2> HIDE DEF home
  <2>7. home(q) => RulesMults(q) = Named(contest, q)
    BY <2>3, <2>5
  <2> QED  BY <2>1, <2>3, <2>4, <2>6, <2>7
<1> HIDE DEF home, P
<1>6. IsFiniteSet(C) /\ Cardinality(C) = Cardinality(P)
  <2> DEFINE f == [p \in P |-> CountryMult(p)]
  <2>1. f \in [P -> C] /\ \A t \in C : \E x \in P : f[x] = t
    OBVIOUS
  <2>2. ASSUME NEW x \in P, NEW y \in P, f[x] = f[y]
        PROVE  x = y
    <3>1. CountryMult(x) = CountryMult(y)
      BY <2>2
    <3>2. x[1] = y[1] /\ x[2] = y[2]
      BY <3>1 DEF CountryMult
    <3> QED  BY <1>3, <3>2
  <2> HIDE DEF f, C
  <2> QED  BY <1>2, <2>1, <2>2, SameNumber
<1>7. \A t : t \in C <=> \E q \in qsos : /\ AddOk(contest, q.call)
                                         /\ Country[q.call] # NoCountry
                                         /\ t = <<"country", Country[q.call], q.band>>
  <2>1. ASSUME NEW t, t \in C
        PROVE  \E q \in qsos : /\ AddOk(contest, q.call) /\ Country[q.call] # NoCountry
                               /\ t = <<"country", Country[q.call], q.band>>
    <3>1. PICK p \in P : t = <<"country", p[1], p[2]>>
      BY <2>1 DEF CountryMult
    <3> QED  BY <1>3, <1>4, <3>1
  <2>2. ASSUME NEW t, NEW q \in qsos, AddOk(contest, q.call),
               Country[q.call] # NoCountry, t = <<"country", Country[q.call], q.band>>
        PROVE  t \in C
    <3>1. <<Country[q.call], q.band>> \in P
      BY <1>4, <1>5, <2>2
    <3>2. t = CountryMult(<<Country[q.call], q.band>>)
      BY <2>2 DEF CountryMult
    <3> QED  BY <3>1, <3>2
  <2> HIDE DEF C
  <2> QED  BY <2>1, <2>2
<1>8. \A t : t \in A <=> \E q \in qsos : t \in Named(contest, q)
  BY DEF AllNamed
<1>9. \A t \in A : \E x, b : t = <<x, b>>
  <2>1. \A q : MultMode(contest, q) = "band" /\ (\A t \in Named(contest, q) : t = <<MultName(contest, q), q.band>>)
    BY DEF Named, MultMode
  <2> HIDE DEF A
  <2> QED  BY <1>8, <2>1
<1> HIDE DEF A, C
<1>10. A \cap C = {}
  <2> SUFFICES ASSUME NEW t, t \in A, t \in C PROVE FALSE
    OBVIOUS
  <2>1. PICK x, b : t = <<x, b>>
    BY <1>9
  <2>2. PICK c, d : t = <<"country", c, d>>
    BY <1>7
  <2>3. Len(<<x, b>>) = 2 /\ Len(<<"country", c, d>>) = 3
    OBVIOUS
  <2> QED  BY <2>1, <2>2, <2>3
<1>11. T = A \cup C
  <2>1. ASSUME NEW t
        PROVE  t \in T <=> \E q \in qsos : t \in RulesMults(q)
    OBVIOUS
  <2> HIDE DEF T
  <2>2. ASSUME NEW t
        PROVE  t \in T <=> t \in A \cup C
    BY <1>5, <1>7, <1>8, <2>1
  <2> QED  BY <2>2
<1> HIDE DEF T
<1>12. Cardinality(A \cup C) = Cardinality(A) + Cardinality(C)
  <2>1. Cardinality(A \cup C) = Cardinality(A) + Cardinality(C) - Cardinality(A \cap C)
    BY <1>1, <1>6, FS_Union
  <2>2. Cardinality(A \cap C) = 0 /\ Cardinality(A) \in Nat /\ Cardinality(C) \in Nat
    BY <1>1, <1>6, <1>10, FS_EmptySet, FS_CardinalityType
  <2> QED  BY <2>1, <2>2
<1>13. NrOfMults(contest, s) = SumPerBand(s.multscore) + SumPerBand(s.countryscore)
  BY DEF NrOfMults
<1> QED  BY <1>1, <1>2, <1>6, <1>11, <1>12, <1>13 DEF T

(* Every kind of contest. *)
LEMMA MultsByRules ==
    ASSUME setup \in Setups, NEW s, Good(s), NEW qsos, Logged(qsos),
           TablesAre(contest, s, qsos), OneKindOfMult, contest.pfx # "band"
    PROVE  NrOfMults(contest, s) =
               IF HasMults THEN Cardinality(UNION {RulesMults(q) : q \in qsos}) ELSE 1
<1>1. contest.pfx \in {"none", "once"}
  BY ContestType DEF Contest
<1>2. CASE contest.dxSections
  BY <1>2, DxMults DEF OneKindOfMult, HasMults
<1>3. CASE ~contest.dxSections /\ contest.mult # "none"
  BY <1>3, NamedMults DEF HasMults
<1>4. CASE ~contest.dxSections /\ contest.mult = "none" /\ contest.pfx = "once"
  BY <1>4, PrefixMults DEF HasMults
<1>5. CASE /\ ~contest.dxSections /\ contest.mult = "none" /\ contest.pfx = "none"
           /\ contest.zones
  BY <1>5, ZoneMults DEF HasMults
<1>6. CASE /\ ~contest.dxSections /\ contest.mult = "none" /\ contest.pfx = "none"
           /\ ~contest.zones
  BY <1>6 DEF HasMults, NrOfMults
<1> QED  BY <1>1, <1>2, <1>3, <1>4, <1>5, <1>6

(* The points that the rules give are those printed. *)
LEMMA PointsByRules ==
    ASSUME NEW lines \in Seq(Line), PointsAre(contest, lines)
    PROVE  RulesPoints(lines) = SumOfPoints(lines)
<1> DEFINE ruled == [i \in DOMAIN lines |-> ScoredByRules(lines, i)]
<1>1. /\ DOMAIN lines = 1..Len(lines) /\ Len(lines) \in Nat
      /\ \A i \in 1..Len(lines) : lines[i] \in Line
  OBVIOUS
<1>2. ASSUME NEW i \in 1..Len(lines)
      PROVE  ScoredByRules(lines, i) = lines[i]
  <2>1. CASE lines[i] = Note
    BY <2>1 DEF ScoredByRules
  <2>2. CASE lines[i] # Note
    <3>1. Earlier(contest, lines, i) <=> NoPoints(lines, i)
      BY DEF Earlier, NoPoints, EarlierQso
    <3>2. lines[i].points = IF NoPoints(lines, i) THEN 0 ELSE contest.points[lines[i].mode]
      BY <2>2, <3>1 DEF PointsAre
    <3>3. lines[i] \in QsoLine
      BY <1>1, <2>2 DEF Line
    <3>4. ScoredByRules(lines, i) = [lines[i] EXCEPT !.points = lines[i].points]
      BY <2>2, <3>2 DEF ScoredByRules
    <3> QED  BY <3>3, <3>4 DEF QsoLine
  <2> QED  BY <2>1, <2>2
<1>3. ruled = lines
  <2>1. lines = [i \in 1..Len(lines) |-> lines[i]]
    OBVIOUS
  <2>2. ruled = [i \in 1..Len(lines) |-> lines[i]]
    BY <1>1, <1>2
  <2> QED  BY <2>1, <2>2
<1> QED  BY <1>3 DEF RulesPoints

(* What the rules say of a state that has the invariants. *)
LEMMA ScoredRight ==
    ASSUME IInv, TotalInv, RulesInv
    PROVE  ScoreByTheRules
<1> SUFFICES ASSUME Deterministic, Ready
             PROVE  /\ DupesAsInRules => st.total = RulesPoints(qsoArray)
                    /\ OneKindOfMult =>
                           NrOfMults(contest, st) =
                               IF HasMults
                               THEN Cardinality(UNION {RulesMults(q) : q \in QsosOf(qsoArray)})
                               ELSE 1
  BY DEF ScoreByTheRules
<1>1. phase # "editing" /\ phase # "down"
  BY DEF Ready
<1>2. setup \in Setups /\ qsoArray \in Seq(Line) /\ Good(st)
  BY DEF IInv, TypeOK, CountersAgree, PrefixesAgree, Good
<1>3. /\ TablesAre(contest, st, QsosOf(qsoArray))
      /\ DupesAsInRules => PointsAre(contest, qsoArray)
  BY <1>1 DEF RulesInv
<1>4. Logged(QsosOf(qsoArray))
  <2>1. \A q \in QsosOf(qsoArray) : q \in QsoLine
    BY <1>2 DEF QsosOf, Range, Line
  <2> QED  BY <2>1 DEF Logged, QsoLine, IsQso
<1>5. st.total = SumOfPoints(qsoArray)
  BY <1>1 DEF TotalInv
<1>6. contest.pfx # "band"
  BY DEF Deterministic
<1> QED  BY <1>2, <1>3, <1>4, <1>5, <1>6, MultsByRules, PointsByRules

(* With rules that depend on the log only, the score is that of the rules for any *)
(* log of such a contest: every station and every multiplier counts where and as  *)
(* often as the rules say, whatever was edited, deleted, rescored or restarted in *)
(* between.                                                                       *)
THEOREM ScoreIsByRules == Spec => []ScoreByTheRules
<1>1. Init => IInv /\ WorkedInv /\ RereadInv /\ TotalInv /\ RulesInv
  BY InitInv, InitWorked, InitReread, InitTotal, InitRules
<1>2. /\ IInv /\ WorkedInv /\ RereadInv /\ TotalInv /\ RulesInv
      /\ [Next]_vars
      => IInv' /\ WorkedInv' /\ RereadInv' /\ TotalInv' /\ RulesInv'
  BY NextInv, NextWorked, NextReread, NextTotal, NextRules
<1>3. IInv /\ TotalInv /\ RulesInv => ScoreByTheRules
  BY ScoredRight
<1> QED  BY <1>1, <1>2, <1>3, PTL DEF Spec

-----------------------------------------------------------------------------
(* What is on the disk.                                                    *)

(* A line more, and all the others are still there. *)
LEMMA AppendKeeps ==
    ASSUME NEW lines \in Seq(Line), NEW line
    PROVE  EntrySet(lines) \subseteq EntrySet(Append(lines, line))
BY DEF EntrySet

(* Only deleting and editing take an entry off the disk: a crash while the   *)
(* log is rewritten leaves all of it in the backup.                          *)
THEOREM Durable == Spec => NothingLost
<1>1. ASSUME IInv, [Next]_vars
      PROVE  [OnDisk \subseteq OnDisk' \/ DeleteQso \/ EditQso]_vars
  <2>1. file \in Seq(Line)
    BY <1>1 DEF IInv, TypeOK
  <2>2. ASSUME EntrySet(file) \subseteq EntrySet(file'), backups' = backups
        PROVE  OnDisk \subseteq OnDisk'
    BY <2>2 DEF OnDisk
  <2>3. CASE UNCHANGED file /\ UNCHANGED backups
    BY <2>2, <2>3
  <2>4. ASSUME backups' = backups, NEW line, file' = Append(file, line)
        PROVE  OnDisk \subseteq OnDisk'
    BY <2>1, <2>2, <2>4, AppendKeeps
  <2>5. CASE \/ \E call \in Calls : CallInput(call)
             \/ Abandon \/ TuneRig \/ Tick \/ ReadNote \/ ReadQso \/ ReadEnd \/ Answer
             \/ Rescore \/ EndEdit \/ Crash \/ Restart \/ UNCHANGED vars
    BY <2>3, <2>5 DEF CallInput, Abandon, TuneRig, Tick, ReadNote, ReadQso, ReadEnd,
       Answer, Rescore, EndEdit, Crash, Restart, vars
  <2>6. ASSUME NEW exchange \in Exchanges, LogQso(exchange)
        PROVE  OnDisk \subseteq OnDisk'
    <3>1. backups' = backups /\ \E line : file' = Append(file, line)
      BY <2>6 DEF LogQso
    <3> QED  BY <2>4, <3>1
  <2>7. CASE LogLan \/ IncludeNote \/ Rewrite
    <3>1. backups' = backups /\ \E line : file' = Append(file, line)
      BY <2>7 DEF LogLan, IncludeNote, Rewrite
    <3> QED  BY <2>4, <3>1
  <2>8. CASE Rename
    BY <2>8 DEF Rename, OnDisk
  <2>9. CASE RewriteEnd
    BY <2>9 DEF RewriteEnd, OnDisk
  <2> QED  BY <1>1, <2>5, <2>6, <2>7, <2>8, <2>9 DEF Next
<1> QED  BY <1>1, InitInv, NextInv, PTL DEF Spec, NothingLost

(* What is kept twice agrees after every history of QSOs, notes, LAN         *)
(* messages, edits, rescoring, crashes and restarts.                         *)
THEOREM Books == Spec => []BooksAgree
<1>1. CountersAgree /\ PrefixesAgree /\ ArrayMatchesFile => BooksAgree
  BY DEF BooksAgree
<1> QED  BY <1>1, CounterValues, PrefixCount, ArrayIsFile, PTL
=============================================================================
