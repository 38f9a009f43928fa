---------------------------- MODULE Bandmap_proofs ----------------------------
(***************************************************************************)
(* Proofs about the bandmap, for all calls, frequencies, bands, tolerances *)
(* and lifetimes: types, the distance of spots, one spot per call, band    *)
(* and mode, and what a report does.                                       *)
(*                                                                         *)
(* The invariants are not inductive alone: what is read at a restart is    *)
(* what was written, so that the spots in the file must have them, too,    *)
(* and the file must not be from the future, or spots would get younger.   *)
(***************************************************************************)
EXTENDS Bandmap, TLAPS

SpacedIn(S) == \A s, t \in S : s = t \/ Distance(s.freq, t.freq) >= Tolerance

OnceIn(S) ==
    /\ \A s, t \in S : s.call = t.call /\ s.band = t.band /\ s.mode = t.mode => s = t
    /\ \A s \in S : s.band = Band[s.freq] /\ s.mode = Mode[s.freq]

Good(S) == S \in SUBSET Spot /\ SpacedIn(S) /\ OnceIn(S)

IInv == TypeOK /\ Good(allspots) /\ Good(file.spots) /\ file.time <= now /\ saveTime <= now

-----------------------------------------------------------------------------
(* Distances.                                                              *)

\* Distance is that of the numbers.
LEMMA DistanceType ==
    ASSUME NEW x \in Nat, NEW y \in Nat
    PROVE  Distance(x, y) \in Nat /\ Distance(x, y) = Distance(y, x) /\ Distance(x, x) = 0
BY DEF Distance

\* Among spots that keep their distance, one that is too close to x is a
\* direct neighbour of x.
LEMMA CloseIsNeighbour ==
    ASSUME NEW S, S \subseteq Spot, SpacedIn(S), NEW x \in Freqs,
           NEW s \in S, Distance(s.freq, x) < Tolerance
    PROVE  s \in Neighbours(S, x)
<1>1. x \in Nat /\ s.freq \in Nat /\ Tolerance \in Nat
  BY BandmapAssumption DEF Spot
<1>2. ASSUME s.freq < x, NEW t \in S, t.freq < x
      PROVE  t.freq <= s.freq
  <2>1. t.freq \in Nat
    BY BandmapAssumption DEF Spot
  <2>2. s = t \/ Distance(s.freq, t.freq) >= Tolerance
    BY DEF SpacedIn
  <2>3. QED
    BY <1>1, <1>2, <2>1, <2>2 DEF Distance
<1>3. ASSUME s.freq >= x, NEW t \in S, t.freq >= x
      PROVE  s.freq <= t.freq
  <2>1. t.freq \in Nat
    BY BandmapAssumption DEF Spot
  <2>2. s = t \/ Distance(s.freq, t.freq) >= Tolerance
    BY DEF SpacedIn
  <2>3. QED
    BY <1>1, <1>3, <2>1, <2>2 DEF Distance
<1>4. s.freq < x \/ s.freq >= x
  BY <1>1
<1>5. QED
  BY <1>2, <1>3, <1>4 DEF Neighbours

\* A subset of good spots is good.
LEMMA GoodSubset ==
    ASSUME NEW S, Good(S), NEW T \in SUBSET S
    PROVE  Good(T)
BY DEF Good, SpacedIn, OnceIn

-----------------------------------------------------------------------------
(* bandmap_addspot().                                                      *)

\* What Enter makes of the list.
Entered(old, e, f) ==
    {e} \cup {s \in allspots \ old :
        ~(s \in Neighbours(allspots \ old, e.freq) /\ Distance(s.freq, f) < Tolerance)}

\* The list stays good if the spot entered stands for all of its call in its
\* band and mode, and is on the reported frequency or where it was.
LEMMA EnterGood ==
    ASSUME Good(allspots), NEW old \in SUBSET allspots, NEW e \in Spot, NEW f \in Freqs,
           e.band = Band[e.freq], e.mode = Mode[e.freq],
           \A s \in allspots :
               s.call = e.call /\ s.band = e.band /\ s.mode = e.mode => s \in old,
           e.freq = f \/ \E s \in old : e.freq = s.freq
    PROVE  Good(Entered(old, e, f))
<1> DEFINE others == allspots \ old
           kept   == {s \in others :
                        ~(s \in Neighbours(others, e.freq) /\ Distance(s.freq, f) < Tolerance)}
<1>1. others \subseteq Spot /\ SpacedIn(others)
  BY DEF Good, SpacedIn
<1>2. ASSUME NEW s \in kept
      PROVE  Distance(s.freq, e.freq) >= Tolerance
  <2>1. s.freq \in Nat /\ e.freq \in Nat /\ Tolerance \in Nat /\ f \in Nat /\ s \in others
    BY <1>1, BandmapAssumption DEF Spot
  <2>2. CASE e.freq = f
    <3>1. Distance(s.freq, f) < Tolerance => s \in Neighbours(others, f)
      BY <1>1, <2>1, CloseIsNeighbour
    <3>2. ~(s \in Neighbours(others, f) /\ Distance(s.freq, f) < Tolerance)
      BY <2>2
    <3>3. Distance(s.freq, f) \in Nat
      BY <2>1, DistanceType
    <3>4. QED
      BY <2>1, <2>2, <3>1, <3>2, <3>3
  <2>3. CASE \E t \in old : e.freq = t.freq
    <3>1. PICK t \in old : e.freq = t.freq
      BY <2>3
    <3>2. s # t /\ t \in allspots /\ s \in allspots
      BY <2>1
    <3>3. QED
      BY <3>1, <3>2 DEF Good, SpacedIn
  <2>4. QED
    BY <2>2, <2>3
<1>3. Good(kept)
  BY GoodSubset
<1>4. SpacedIn({e} \cup kept)
  <2>1. SUFFICES ASSUME NEW s \in {e} \cup kept, NEW t \in {e} \cup kept, s # t
                 PROVE  Distance(s.freq, t.freq) >= Tolerance
    BY DEF SpacedIn
  <2>2. CASE s \in kept /\ t \in kept
    BY <1>3, <2>1, <2>2 DEF Good, SpacedIn
  <2>3. CASE s \in kept /\ t = e
    BY <1>2, <2>3
  <2>4. CASE s = e /\ t \in kept
    <3>1. t.freq \in Nat /\ e.freq \in Nat
      BY <1>1, <2>4, BandmapAssumption DEF Spot
    <3>2. QED
      BY <1>2, <2>4, <3>1, DistanceType
  <2>5. QED
    BY <2>1, <2>2, <2>3, <2>4
<1>5. OnceIn({e} \cup kept)
  <2>1. \A s \in kept : ~(s.call = e.call /\ s.band = e.band /\ s.mode = e.mode)
    OBVIOUS
  <2>2. QED
    BY <1>3, <2>1 DEF Good, OnceIn
<1>6. {e} \cup kept \in SUBSET Spot
  BY <1>1
<1>7. Entered(old, e, f) = {e} \cup kept
  BY DEF Entered
<1>8. QED
  BY <1>4, <1>5, <1>6, <1>7 DEF Good

\* A new spot has the band and mode of its frequency.
LEMMA NewSpotGood ==
    ASSUME TypeOK, NEW c \in Calls, NEW f \in Freqs
    PROVE  /\ NewSpot(c, f) \in Spot
           /\ NewSpot(c, f).call = c /\ NewSpot(c, f).freq = f
           /\ NewSpot(c, f).band = Band[f] /\ NewSpot(c, f).mode = Mode[f]
           /\ NewSpot(c, f).timeout = Lifetime /\ NewSpot(c, f).heard = now
<1>1. Band[f] \in Bands /\ Lifetime \in 0..Lifetime
  BY BandmapAssumption
<1>2. QED
  BY <1>1 DEF NewSpot, Spot, TypeOK

\* A spot that is reported again keeps its call, band and mode, and stays
\* within TOLERANCE of the report.
LEMMA MovedGood ==
    ASSUME TypeOK, NEW s \in Spot, NEW f \in Freqs
    PROVE  /\ Moved(s, f) \in Spot
           /\ Moved(s, f).call = s.call
           /\ Moved(s, f).band = s.band /\ Moved(s, f).mode = s.mode
           /\ Moved(s, f).timeout = Lifetime /\ Moved(s, f).heard = now
           /\ Moved(s, f).freq = IF Distance(s.freq, f) > Tolerance THEN f ELSE s.freq
<1> DEFINE g  == IF Distance(s.freq, f) > Tolerance THEN f ELSE s.freq
           s1 == [s EXCEPT !.timeout = Lifetime]
           s2 == [s1 EXCEPT !.heard = now]
           s3 == [s2 EXCEPT !.freq = g]
<1>1. Moved(s, f) = s3
  BY DEF Moved, Spot
<1>2. Lifetime \in 0..Lifetime /\ now \in Nat /\ s.freq \in Freqs
  BY BandmapAssumption DEF TypeOK, Spot
<1>3. g \in Freqs
  BY <1>2
<1> HIDE DEF g
<1>4. /\ s1 \in Spot /\ s1.timeout = Lifetime
      /\ s1.call = s.call /\ s1.band = s.band /\ s1.mode = s.mode
  BY <1>2 DEF Spot
<1> HIDE DEF s1
<1>5. /\ s2 \in Spot /\ s2.timeout = s1.timeout /\ s2.heard = now
      /\ s2.call = s1.call /\ s2.band = s1.band /\ s2.mode = s1.mode
  BY <1>2, <1>4 DEF Spot
<1> HIDE DEF s2
<1>6. /\ s3 \in Spot /\ s3.timeout = s2.timeout /\ s3.heard = s2.heard /\ s3.freq = g
      /\ s3.call = s2.call /\ s3.band = s2.band /\ s3.mode = s2.mode
  BY <1>3, <1>5 DEF Spot
<1> HIDE DEF s3
<1>7. QED
  BY <1>1, <1>4, <1>5, <1>6 DEF g

\* A report enters the new spot, or the moved one for the one listed.
LEMMA AddSpotGood ==
    ASSUME IInv, NEW c \in Calls, NEW f \in Freqs, AddSpot(c, f)
    PROVE  \E old \in SUBSET Listed(c, f), e \in Spot :
              /\ e.call = c /\ e.timeout = Lifetime /\ e.heard = now
              /\ Distance(e.freq, f) <= Tolerance
              /\ allspots' = Entered(old, e, f)
              /\ Good(allspots')
<1>1. f \in Nat /\ Tolerance \in Nat /\ Distance(f, f) = 0
  BY BandmapAssumption, DistanceType
<1>2. CASE Listed(c, f) = {} /\ Enter({}, NewSpot(c, f), f)
  <2> DEFINE e == NewSpot(c, f)
  <2>1. /\ e \in Spot /\ e.call = c /\ e.freq = f /\ e.timeout = Lifetime /\ e.heard = now
        /\ e.band = Band[f] /\ e.mode = Mode[f]
    BY NewSpotGood DEF IInv
  <2>2. allspots' = Entered({}, e, f)
    BY <1>2 DEF Enter, Entered
  <2> HIDE DEF e
  <2>3. \A s \in allspots :
            s.call = e.call /\ s.band = e.band /\ s.mode = e.mode => s \in {}
    BY <1>2, <2>1 DEF Listed
  <2>4. Good(Entered({}, e, f))
    BY <2>1, <2>3, EnterGood DEF IInv
  <2>5. Distance(e.freq, f) <= Tolerance
    BY <1>1, <2>1
  <2>6. QED
    BY <2>1, <2>2, <2>4, <2>5
<1>3. CASE \E s \in Listed(c, f) : Enter({s}, Moved(s, f), f)
  <2>1. PICK s \in Listed(c, f) : Enter({s}, Moved(s, f), f)
    BY <1>3
  <2> DEFINE e == Moved(s, f)
  <2>2. s \in allspots /\ s \in Spot /\ s.freq \in Nat
        /\ s.call = c /\ s.band = Band[f] /\ s.mode = Mode[f]
    BY BandmapAssumption DEF Listed, IInv, Good, Spot
  <2>3. /\ e \in Spot /\ e.call = s.call /\ e.band = s.band /\ e.mode = s.mode
        /\ e.timeout = Lifetime /\ e.heard = now
        /\ e.freq = IF Distance(s.freq, f) > Tolerance THEN f ELSE s.freq
    BY <2>2, MovedGood DEF IInv
  <2>4. allspots' = Entered({s}, e, f)
    BY <2>1 DEF Enter, Entered
  <2> HIDE DEF e
  <2>5. s.band = Band[s.freq] /\ s.mode = Mode[s.freq]
    BY <2>2 DEF IInv, Good, OnceIn
  <2>6. e.band = Band[e.freq] /\ e.mode = Mode[e.freq]
    BY <2>2, <2>3, <2>5
  <2>7. \A t \in allspots :
            t.call = e.call /\ t.band = e.band /\ t.mode = e.mode => t \in {s}
    BY <2>2, <2>3 DEF IInv, Good, OnceIn
  <2>8. e.freq = f \/ \E t \in {s} : e.freq = t.freq
    BY <2>3
  <2>9. Good(Entered({s}, e, f))
    BY <2>2, <2>3, <2>6, <2>7, <2>8, EnterGood DEF IInv
  <2>10. Distance(s.freq, f) \in Nat
    BY <1>1, <2>2, DistanceType
  <2>11. Distance(e.freq, f) <= Tolerance
    BY <1>1, <2>3, <2>10
  <2>12. QED
    BY <2>2, <2>3, <2>4, <2>9, <2>11
<1>4. QED
  BY <1>2, <1>3 DEF AddSpot

-----------------------------------------------------------------------------
(* Ageing, and reading the file.                                           *)

\* A spot that loses n seconds, and had more, is as it was otherwise.
LEMMA AgedSpot ==
    ASSUME NEW s \in Spot, NEW n \in Nat, s.timeout > n,
           NEW r, r = [s EXCEPT !.timeout = @ - n]
    PROVE  /\ r \in Spot
           /\ r.call = s.call /\ r.freq = s.freq /\ r.band = s.band /\ r.mode = s.mode
           /\ r.heard = s.heard /\ r.timeout = s.timeout - n
<1>1. s.timeout \in 0..Lifetime /\ Lifetime \in Nat
  BY BandmapAssumption DEF Spot
<1>2. s.timeout - n \in 0..Lifetime
  BY <1>1
<1> DEFINE k == s.timeout - n
<1>3. r = [s EXCEPT !.timeout = k]
  OBVIOUS
<1> HIDE DEF k
<1>4. k \in 0..Lifetime
  BY <1>2 DEF k
<1>5. /\ r \in Spot /\ r.timeout = k
      /\ r.call = s.call /\ r.freq = s.freq /\ r.band = s.band /\ r.mode = s.mode
      /\ r.heard = s.heard
  BY <1>3, <1>4 DEF Spot
<1>6. QED
  BY <1>5 DEF k

\* Good spots that are given another age are good.
LEMMA AgedGood ==
    ASSUME NEW S, Good(S), NEW n \in Nat
    PROVE  Good({[s EXCEPT !.timeout = @ - n] : s \in {t \in S : t.timeout > n}})
<1> DEFINE Old(s) == [s EXCEPT !.timeout = @ - n]
           T == {t \in S : t.timeout > n}
           R == {Old(s) : s \in T}
<1>1. \A s \in T : /\ Old(s) \in Spot /\ Old(s).call = s.call /\ Old(s).freq = s.freq
                   /\ Old(s).band = s.band /\ Old(s).mode = s.mode
  BY AgedSpot DEF Good
<1> HIDE DEF Old
<1>2. T \subseteq S
  OBVIOUS
<1> HIDE DEF T
<1>3. R \in SUBSET Spot
  BY <1>1
<1>4. ASSUME NEW p \in R, NEW q \in R
      PROVE  /\ p = q \/ Distance(p.freq, q.freq) >= Tolerance
             /\ p.call = q.call /\ p.band = q.band /\ p.mode = q.mode => p = q
             /\ p.band = Band[p.freq] /\ p.mode = Mode[p.freq]
  <2>1. PICK s \in T, t \in T : p = Old(s) /\ q = Old(t)
    OBVIOUS
  <2>2. /\ p.call = s.call /\ p.freq = s.freq /\ p.band = s.band /\ p.mode = s.mode
        /\ q.call = t.call /\ q.freq = t.freq /\ q.band = t.band /\ q.mode = t.mode
    BY <1>1, <2>1
  <2>3. s = t \/ Distance(s.freq, t.freq) >= Tolerance
    BY <1>2 DEF Good, SpacedIn
  <2>4. /\ s.call = t.call /\ s.band = t.band /\ s.mode = t.mode => s = t
        /\ s.band = Band[s.freq] /\ s.mode = Mode[s.freq]
    BY <1>2 DEF Good, OnceIn
  <2>5. QED
    BY <2>1, <2>2, <2>3, <2>4
<1>5. Good(R)
  BY <1>3, <1>4 DEF Good, SpacedIn, OnceIn
<1>6. QED
  BY <1>5 DEF R, Old, T

-----------------------------------------------------------------------------
(* The invariant.                                                          *)

\* There is nothing to go wrong in an empty list.
LEMMA EmptyGood == Good({})
BY DEF Good, SpacedIn, OnceIn

LEMMA InitInvariant == Init => IInv
<1> SUFFICES ASSUME Init PROVE IInv
  OBVIOUS
<1>1. TypeOK
  <2>1. setup.radio \subseteq Freqs
    BY BandmapAssumption DEF Init, Setup
  <2>2. 0 \in 0..(SavePeriod - 1)
    BY BandmapAssumption
  <2>3. QED
    BY <2>1, <2>2 DEF Init, TypeOK
<1>2. Good(allspots) /\ Good(file.spots)
  BY EmptyGood DEF Init, Absent
<1>3. file.time <= now /\ saveTime <= now
  BY DEF Init, Absent
<1>4. QED
  BY <1>1, <1>2, <1>3 DEF IInv

\* Every step keeps it.
LEMMA StepInvariant == IInv /\ [Next]_vars => IInv'
<1> SUFFICES ASSUME IInv, [Next]_vars PROVE IInv'
  OBVIOUS
<1>t. /\ TypeOK /\ Good(allspots) /\ Good(file.spots) /\ file.time <= now /\ saveTime <= now
      /\ file.time \in Nat /\ saveTime \in Nat /\ now \in Nat /\ file.spots \in SUBSET Spot
  BY DEF IInv, TypeOK, Saved, Absent, Empty
<1>1. ASSUME NEW c \in Calls, NEW f \in Freqs, AddSpot(c, f)
      PROVE  IInv'
  <2>1. Good(allspots')
    BY <1>1, AddSpotGood
  <2>2. Good(file.spots)' /\ (file.time <= now /\ saveTime <= now)'
    BY <1>t, <1>1 DEF AddSpot, Good, SpacedIn, OnceIn
  <2>3. TypeOK'
    BY <1>t, <1>1, <2>1 DEF AddSpot, TypeOK, Good
  <2>4. QED
    BY <2>1, <2>2, <2>3 DEF IInv, Good, SpacedIn, OnceIn
<1>2. ASSUME NEW c \in Calls, NEW b \in Bands, LogQso(c, b)
      PROVE  IInv'
  <2>1. TypeOK'
    BY <1>t, <1>2 DEF LogQso, TypeOK
  <2>2. QED
    BY <1>t, <1>2, <2>1 DEF LogQso, IInv
<1>3. ASSUME Tick
      PROVE  IInv'
  <2>1. TypeOK'
    BY <1>t, <1>3 DEF Tick, TypeOK, Running
  <2>2. (file.time <= now /\ saveTime <= now)'
    BY <1>t, <1>3 DEF Tick
  <2>3. QED
    BY <1>t, <1>3, <2>1, <2>2 DEF Tick, IInv
<1>4. ASSUME Age
      PROVE  IInv'
  <2>1. allspots' = {[s EXCEPT !.timeout = @ - 1] : s \in {t \in allspots : t.timeout > 1}}
    BY <1>4 DEF Age, Older
  <2>2. Good(allspots')
    <3> DEFINE n == 1
    <3>1. n \in Nat
      OBVIOUS
    <3>2. allspots' = {[s EXCEPT !.timeout = @ - n] : s \in {t \in allspots : t.timeout > n}}
      BY <2>1
    <3> HIDE DEF n
    <3>3. QED
      BY <1>t, <3>1, <3>2, AgedGood
  <2>3. TypeOK'
    BY <1>t, <1>4, <2>2 DEF Age, TypeOK, Good
  <2>4. QED
    BY <1>t, <1>4, <2>2, <2>3 DEF Age, IInv, Good, SpacedIn, OnceIn
<1>5. ASSUME Show
      PROVE  IInv'
  <2>1. bmTimeout' \in 0..(SavePeriod - 1)
    BY <1>t, <1>5, BandmapAssumption DEF Show, TypeOK
  <2>2. spots' \subseteq [call : Calls, freq : Freqs, heard : Nat, dupe : BOOLEAN]
    <3>1. \A s \in allspots : Copy(s) \in [call : Calls, freq : Freqs, heard : Nat, dupe : BOOLEAN]
      BY <1>t DEF TypeOK, Copy, Spot, IsDupe
    <3>2. QED
      BY <1>t, <1>5, <3>1 DEF Show, TypeOK
  <2>3. TypeOK'
    BY <1>t, <1>5, <2>1, <2>2 DEF Show, TypeOK
  <2>4. QED
    BY <1>t, <1>5, <2>3 DEF Show, IInv
<1>6. ASSUME OpenFile
      PROVE  IInv'
  <2>1. Good(file.spots)' /\ (file.time <= now /\ saveTime <= now)'
    BY <1>t, <1>6, EmptyGood DEF OpenFile, Empty, Good, SpacedIn, OnceIn
  <2>2. TypeOK'
    BY <1>t, <1>6 DEF OpenFile, TypeOK
  <2>3. QED
    BY <1>t, <1>6, <2>1, <2>2 DEF OpenFile, IInv
<1>7. ASSUME WriteFile
      PROVE  IInv'
  <2>1. file' \in Saved /\ file'.spots = allspots /\ file'.time = saveTime
    BY <1>t, <1>7 DEF WriteFile, Saved, TypeOK
  <2>2. Good(file.spots)' /\ (file.time <= now /\ saveTime <= now)'
    BY <1>t, <1>7, <2>1 DEF WriteFile, Good, SpacedIn, OnceIn
  <2>3. TypeOK'
    BY <1>t, <1>7, <2>1 DEF WriteFile, TypeOK
  <2>4. QED
    BY <1>t, <1>7, <2>2, <2>3 DEF WriteFile, IInv
<1>8. ASSUME Crash
      PROVE  IInv'
  <2>1. main' = "down" /\ due' = FALSE /\ crashes' = crashes + 1
        /\ UNCHANGED <<setup, allspots, spots, worked, freq, outfreq, grabUp, bmTimeout,
                       saveTime, file, now, reports>>
    BY <1>8 DEF Crash
  <2>2. /\ crashes' \in Nat
        /\ due' \in BOOLEAN
        /\ main' \in {"idle", "show", "save", "write", "down", "refused"}
    <3>1. crashes \in Nat
      BY <1>t DEF TypeOK
    <3>2. crashes' \in Nat
      BY <2>1, <3>1
    <3>3. due' \in BOOLEAN
      BY <2>1
    <3>4. main' \in {"idle", "show", "save", "write", "down", "refused"}
      BY <2>1
    <3>5. QED
      BY <3>2, <3>3, <3>4
  <2>3. TypeOK'
    BY <1>t, <2>1, <2>2 DEF TypeOK
  <2>4. QED
    BY <1>t, <2>1, <2>3 DEF IInv
<1>9. ASSUME Restart
      PROVE  IInv'
  <2>1. Good(allspots')
    <3> DEFINE n == now - file.time
    <3>1. n \in Nat
      BY <1>t
    <3> HIDE DEF n
    <3>2. Good({[s EXCEPT !.timeout = @ - n] : s \in {t \in file.spots : t.timeout > n}})
      BY <1>t, <3>1, AgedGood
    <3>3. Good(Remaining)
      BY <3>2 DEF Remaining, n
    <3>4. QED
      BY <1>9, <3>3, EmptyGood DEF Restart
  <2>2. 0 \in 0..(SavePeriod - 1)
    BY BandmapAssumption
  <2>3. TypeOK'
    BY <1>t, <1>9, <2>1, <2>2 DEF Restart, TypeOK, Good
  <2>4. QED
    BY <1>t, <1>9, <2>1, <2>3 DEF Restart, IInv, Good, SpacedIn, OnceIn
<1>10. ASSUME GrabNext
       PROVE  IInv'
  <2>1. outfreq' \in Freqs
    BY <1>t, <1>10 DEF GrabNext, Nearest, Ahead, TypeOK
  <2>2. TypeOK'
    BY <1>t, <1>10, <2>1 DEF GrabNext, TypeOK
  <2>3. QED
    BY <1>t, <1>10, <2>2 DEF GrabNext, IInv
<1>11. ASSUME Tune
       PROVE  IInv'
  <2>1. TypeOK'
    BY <1>t, <1>11 DEF Tune, TypeOK
  <2>2. QED
    BY <1>t, <1>11, <2>1 DEF Tune, IInv
<1>12. ASSUME UNCHANGED vars
       PROVE  IInv'
  <2>1. TypeOK'
    BY <1>t, <1>12 DEF vars, TypeOK
  <2>2. QED
    BY <1>t, <1>12, <2>1 DEF vars, IInv
<1>13. QED
  BY <1>1, <1>2, <1>3, <1>4, <1>5, <1>6, <1>7, <1>8, <1>9, <1>10, <1>11, <1>12
  DEF Next, TimeUpdate

-----------------------------------------------------------------------------
(* The theorems.                                                           *)

\* The strengthened invariant, of the list and of the file.
THEOREM Inductive == Spec => []IInv
BY InitInvariant, StepInvariant, PTL DEF Spec

\* Every variable has its type: no spot has more time left than a new one, nor
\* none, however long Tlf was down.
THEOREM TypeCorrect == Spec => []TypeOK
<1>1. IInv => TypeOK
  BY DEF IInv
<1>2. QED
  BY <1>1, Inductive, PTL

\* Spots keep their distance, for any list and any order of reports: looking at
\* the direct neighbours is enough.
THEOREM KeepsDistance == Spec => []Spaced
<1>1. IInv => Spaced
  BY DEF IInv, Good, SpacedIn, Spaced
<1>2. QED
  BY <1>1, Inductive, PTL

\* A call is listed once per band and mode, and under those of its frequency.
THEOREM ListedOnce == Spec => []OncePerMode
<1>1. IInv => OncePerMode
  BY DEF IInv, Good, OnceIn, OncePerMode
<1>2. QED
  BY <1>1, Inductive, PTL

\* What a report does to the list.
THEOREM ReportsAreShown == Spec => ReportShown
<1> DEFINE Effect(c, f) ==
             /\ \E s \in allspots' :
                   s.call = c /\ s.timeout = Lifetime /\ Distance(s.freq, f) <= Tolerance
             /\ \A s \in allspots \ allspots' :
                   s \in Listed(c, f) \/ Distance(s.freq, f) < Tolerance
<1>1. ASSUME IInv, NEW c \in Calls, NEW f \in Freqs, AddSpot(c, f)
      PROVE  Effect(c, f)
  <2>1. PICK old \in SUBSET Listed(c, f), e \in Spot :
              /\ e.call = c /\ e.timeout = Lifetime /\ Distance(e.freq, f) <= Tolerance
              /\ allspots' = Entered(old, e, f)
    BY <1>1, AddSpotGood
  <2>2. e \in allspots'
    BY <2>1 DEF Entered
  <2>3. ASSUME NEW s \in allspots, s \notin allspots'
        PROVE  s \in Listed(c, f) \/ Distance(s.freq, f) < Tolerance
    BY <2>1, <2>3 DEF Entered
  <2>4. QED
    BY <2>1, <2>2, <2>3
<1>2. IInv => \A c \in Calls, f \in Freqs : AddSpot(c, f) => Effect(c, f)
  BY <1>1
<1>3. QED
  BY <1>2, Inductive, PTL DEF ReportShown

-----------------------------------------------------------------------------
(* How long a spot lives.  While the main thread keeps up with the clock,  *)
(* the time since a report and the time left to the spot add up to the     *)
(* lifetime at most; in the file, as of the time it was written.           *)

Fresh(S, time, slack) ==
    \A s \in S : s.timeout >= 1 /\ s.heard + Lifetime + slack >= time + s.timeout

Slack == IF due THEN 1 ELSE 0

KeepsUp == ~setup.busy /\ setup.displayed

\* A copy is not aged; it is renewed when main is at "show".
FreshCopies == \A s \in spots : now < s.heard + Lifetime + Slack

AgeInv ==
    /\ main # "idle" => due = FALSE
    /\ Running => Fresh(allspots, now, Slack)
    /\ Fresh(file.spots, file.time, 0)
    /\ Running /\ main # "show" => FreshCopies

\* Spots that have been there for n seconds more, and are given n less.
LEMMA AgedFresh ==
    ASSUME NEW S \in SUBSET Spot, NEW n \in Nat, NEW time \in Nat, NEW slack \in Nat,
           Fresh(S, time, slack)
    PROVE  Fresh({[s EXCEPT !.timeout = @ - n] : s \in {t \in S : t.timeout > n}},
                 time + n, slack)
<1> DEFINE Old(s) == [s EXCEPT !.timeout = @ - n]
<1>1. \A s \in S : s.timeout > n => Old(s).heard = s.heard /\ Old(s).timeout = s.timeout - n
  BY AgedSpot
<1>2. \A s \in S : s.timeout \in Nat /\ s.heard \in Nat
  BY DEF Spot
<1> HIDE DEF Old
<1>3. Lifetime \in Nat
  BY BandmapAssumption
<1>4. \A s \in S : s.timeout > n => Old(s).timeout >= 1
            /\ Old(s).heard + Lifetime + slack >= time + n + Old(s).timeout
  BY <1>1, <1>2, <1>3 DEF Fresh
<1>5. Fresh({Old(s) : s \in {t \in S : t.timeout > n}}, time + n, slack)
  BY <1>4 DEF Fresh
<1>6. QED
  BY <1>5 DEF Old

LEMMA AgeInit == Init => AgeInv
BY DEF Init, AgeInv, Fresh, FreshCopies, Absent

LEMMA AgeStep == IInv /\ KeepsUp /\ AgeInv /\ [Next]_vars => AgeInv'
<1> SUFFICES ASSUME IInv, KeepsUp, AgeInv, [Next]_vars PROVE AgeInv'
  OBVIOUS
<1>t. /\ TypeOK /\ allspots \in SUBSET Spot /\ file.spots \in SUBSET Spot
      /\ file.time \in Nat /\ saveTime \in Nat /\ now \in Nat
      /\ file.time <= now /\ saveTime <= now
  BY DEF IInv, TypeOK, Saved, Absent, Empty
<1>l. Lifetime \in Nat /\ Lifetime >= 1
  BY BandmapAssumption
<1>s. \A s \in allspots : s.timeout \in Nat /\ s.heard \in Nat
  BY <1>t DEF Spot
<1>c. \A s \in spots : s.heard \in Nat
  BY DEF IInv, TypeOK
<1>1. ASSUME NEW c \in Calls, NEW f \in Freqs, AddSpot(c, f)
      PROVE  AgeInv'
  <2>1. PICK old \in SUBSET Listed(c, f), e \in Spot :
              e.timeout = Lifetime /\ e.heard = now /\ allspots' = Entered(old, e, f)
    BY <1>1, AddSpotGood
  <2>2. \A s \in allspots' : s = e \/ s \in allspots
    BY <2>1 DEF Entered
  <2>3. Running /\ UNCHANGED <<now, due, spots, main, file>>
    BY <1>1 DEF AddSpot
  <2>4. Fresh(allspots', now, Slack)
    BY <1>t, <1>l, <2>1, <2>2, <2>3 DEF AgeInv, Fresh, Slack
  <2>5. QED
    BY <2>3, <2>4 DEF AgeInv, Fresh, FreshCopies, Running, Slack
<1>2. ASSUME NEW c \in Calls, NEW b \in Bands, LogQso(c, b)
      PROVE  AgeInv'
  BY <1>2 DEF LogQso, AgeInv, Fresh, FreshCopies, Running, Slack
<1>3. ASSUME Tick
      PROVE  AgeInv'
  <2>1. now' = now + 1 /\ due' = Running /\ UNCHANGED <<allspots, spots, main, file>>
    BY <1>3 DEF Tick
  <2>2. Running => main = "idle" /\ due = FALSE
    BY <1>3 DEF Tick, KeepsUp, Running
  <2>3. Running => Slack = 0 /\ Slack' = 1
    BY <2>1, <2>2 DEF Slack
  <2>4. Running => Fresh(allspots', now', Slack') /\ FreshCopies'
    BY <1>t, <1>s, <1>c, <1>l, <2>1, <2>2, <2>3 DEF AgeInv, Fresh, FreshCopies
  <2>5. QED
    BY <2>1, <2>2, <2>4 DEF AgeInv, Running, Fresh
<1>4. ASSUME Age
      PROVE  AgeInv'
  <2> DEFINE n == 1
  <2>1. n \in Nat /\ n = 1
    OBVIOUS
  <2>2. allspots' = {[s EXCEPT !.timeout = @ - n] : s \in {t \in allspots : t.timeout > n}}
    BY <1>4 DEF Age, Older
  <2> HIDE DEF n
  <2>3. /\ main = "idle" /\ due /\ main' = "show" /\ due' = FALSE /\ Slack = 1 /\ Slack' = 0
        /\ UNCHANGED <<now, spots, file>>
    BY <1>4 DEF Age, Slack
  <2>4. Fresh(allspots, now, 1)
    BY <2>3 DEF AgeInv, Running
  <2>5. Fresh(allspots', now + n, 1)
    BY <1>t, <2>1, <2>2, <2>4, AgedFresh
  <2>6. allspots' \in SUBSET Spot
    BY <1>4, StepInvariant DEF Next, TimeUpdate, IInv, TypeOK
  <2>7. Fresh(allspots', now, 0)
    <3>1. \A s \in allspots' : s.timeout \in Nat /\ s.heard \in Nat
      BY <2>6 DEF Spot
    <3>2. QED
      BY <1>t, <1>l, <2>1, <2>5, <3>1 DEF Fresh
  <2>8. QED
    BY <2>3, <2>7 DEF AgeInv, Fresh
<1>5. ASSUME Show
      PROVE  AgeInv'
  <2>1. /\ main = "show" /\ main' \in {"save", "idle"} /\ spots' \subseteq {Copy(s) : s \in allspots}
        /\ UNCHANGED <<allspots, now, due, file>>
    BY <1>5 DEF Show, KeepsUp
  <2>2. due = FALSE /\ Slack = 0 /\ Slack' = 0 /\ Fresh(allspots, now, 0)
    BY <2>1 DEF AgeInv, Slack, Running
  <2>3. \A s \in allspots : now < s.heard + Lifetime
    BY <1>t, <1>s, <1>l, <2>2 DEF Fresh
  <2>4. \A s \in spots' : now < s.heard + Lifetime
    BY <2>1, <2>3 DEF Copy
  <2>5. \A s \in spots' : s.heard \in Nat
    BY <2>1, <1>s DEF Copy
  <2>6. FreshCopies'
    BY <1>l, <2>1, <2>2, <2>4, <2>5 DEF FreshCopies
  <2>7. QED
    BY <2>1, <2>2, <2>6 DEF AgeInv, Fresh
<1>6. ASSUME OpenFile
      PROVE  AgeInv'
  BY <1>6 DEF OpenFile, AgeInv, Fresh, FreshCopies, Running, Slack, Empty
<1>7. ASSUME WriteFile
      PROVE  AgeInv'
  <2>1. /\ main = "write" /\ main' = "idle" /\ file'.spots = allspots /\ file'.time = saveTime
        /\ UNCHANGED <<allspots, spots, now, due>>
    BY <1>7 DEF WriteFile
  <2>2. due = FALSE /\ Slack = 0 /\ Slack' = 0 /\ Fresh(allspots, now, 0) /\ FreshCopies
    BY <2>1 DEF AgeInv, Slack, Running
  <2>3. Fresh(allspots, saveTime, 0)
    BY <1>t, <1>s, <1>l, <2>2 DEF Fresh
  <2>4. QED
    BY <2>1, <2>2, <2>3 DEF AgeInv, Fresh, FreshCopies
<1>8. ASSUME Crash
      PROVE  AgeInv'
  BY <1>8 DEF Crash, AgeInv, Fresh, Running
<1>9. ASSUME Restart
      PROVE  AgeInv'
  <2> DEFINE n == now - file.time
  <2>1. n \in Nat /\ file.time + n = now
    BY <1>t
  <2>2. allspots' = {} \/
        allspots' = {[s EXCEPT !.timeout = @ - n] : s \in {t \in file.spots : t.timeout > n}}
    BY <1>9 DEF Restart, Remaining
  <2> HIDE DEF n
  <2>3. Fresh(file.spots, file.time, 0)
    BY DEF AgeInv
  <2>4. Fresh(allspots', now, 0)
    <3>1. CASE allspots' = {}
      BY <3>1 DEF Fresh
    <3>2. CASE allspots' = {[s EXCEPT !.timeout = @ - n] :
                               s \in {t \in file.spots : t.timeout > n}}
      <4>1. Fresh(allspots', file.time + n, 0)
        BY <1>t, <2>1, <2>3, <3>2, AgedFresh
      <4>2. QED
        BY <2>1, <4>1
    <3>3. QED
      BY <2>2, <3>1, <3>2
  <2>5. main = "down" /\ due = FALSE /\ spots' = {} /\ UNCHANGED <<now, due, file>>
    BY <1>9 DEF Restart, AgeInv
  <2>6. Slack' = 0
    BY <2>5 DEF Slack
  <2>7. QED
    BY <2>3, <2>4, <2>5, <2>6 DEF AgeInv, Fresh, FreshCopies
<1>10. ASSUME GrabNext
       PROVE  AgeInv'
  BY <1>10 DEF GrabNext, AgeInv, Fresh, FreshCopies, Running, Slack
<1>11. ASSUME Tune
       PROVE  AgeInv'
  BY <1>11 DEF Tune, AgeInv, Fresh, FreshCopies, Running, Slack
<1>12. ASSUME UNCHANGED vars
       PROVE  AgeInv'
  BY <1>12 DEF vars, AgeInv, Fresh, FreshCopies, Running, Slack
<1>13. QED
  BY <1>1, <1>2, <1>3, <1>4, <1>5, <1>6, <1>7, <1>8, <1>9, <1>10, <1>11, <1>12
  DEF Next, TimeUpdate

\* Nothing is listed, displayed or grabbed that was not reported within the
\* lifetime of a spot.
THEOREM NothingStale == Spec => []HeardLately
<1>1. IInv /\ KeepsUp /\ AgeInv => HeardLately
  <2> SUFFICES ASSUME IInv, KeepsUp, AgeInv, Running, main # "show", NEW s \in allspots \cup spots
               PROVE  now - s.heard < Lifetime + (IF due THEN 1 ELSE 0)
    BY DEF HeardLately
  <2>1. now \in Nat /\ Lifetime \in Nat /\ Slack \in Nat
    BY BandmapAssumption DEF IInv, TypeOK, Slack
  <2>2. CASE s \in allspots
    <3>1. s.heard \in Nat /\ s.timeout \in Nat
      BY <2>2 DEF IInv, TypeOK, Spot
    <3>2. QED
      BY <2>1, <2>2, <3>1 DEF AgeInv, Fresh, Slack
  <2>3. CASE s \in spots
    <3>1. s.heard \in Nat
      BY <2>3 DEF IInv, TypeOK
    <3>2. QED
      BY <2>1, <2>3, <3>1 DEF AgeInv, FreshCopies, Slack
  <2>4. QED
    BY <2>2, <2>3
<1>2. ~KeepsUp => HeardLately
  BY DEF KeepsUp, HeardLately
<1>3. Init /\ KeepsUp => AgeInv
  BY AgeInit
<1>4. [Next]_vars => (KeepsUp' <=> KeepsUp)
  BY DEF Next, TimeUpdate, vars, KeepsUp, AddSpot, LogQso, Tick, Age, Show, OpenFile, WriteFile,
     Crash, Restart, GrabNext, Tune
<1>5. IInv /\ (KeepsUp => AgeInv) /\ [Next]_vars => (KeepsUp => AgeInv)'
  BY <1>4, AgeStep
<1>6. Init => (KeepsUp => AgeInv)
  BY <1>3
<1>7. IInv /\ (KeepsUp => AgeInv) => HeardLately
  BY <1>1, <1>2
<1>8. QED
  BY <1>5, <1>6, <1>7, Inductive, PTL DEF Spec

\* The bandmap is right: spots keep their distance, a call is listed once in a
\* mode and nothing stale is listed.
THEOREM SpotsAreRight == Spec => []SpotsRight
<1>1. Spaced /\ OncePerMode /\ HeardLately => SpotsRight
  BY DEF SpotsRight
<1>2. QED
  BY <1>1, KeepsDistance, ListedOnce, NothingStale, PTL
=============================================================================
