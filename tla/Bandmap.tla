-------------------------------- MODULE Bandmap --------------------------------
(***************************************************************************)
(* The bandmap: spots reported by the cluster, by other nodes and by the   *)
(* operator, their ageing, the copy on disk and grabbing.                  *)
(*                                                                         *)
(* The list allspots is locked by bm_mutex, so that each operation on it   *)
(* is one step; it is sorted by frequency, and a set with an order on the  *)
(* frequencies will do.  The main thread ages, displays and saves it once  *)
(* a second, the background thread adds spots in between.                  *)
(***************************************************************************)
EXTENDS Integers, FiniteSets

CONSTANTS Setups,      \* configurations to consider
          Calls,       \* call signs
          Freqs,       \* frequencies in Hz, up to 30 MHz
          Bands,       \* bands
          OutOfBand,   \* BANDINDEX_OOB
          Warc,        \* WARC bands
          Band, Mode,  \* freq2bandindex() and freq2mode()
          Tolerance,   \* TOLERANCE in Hz
          Lifetime,    \* SPOT_NEW in seconds
          SavePeriod   \* seconds between two writes of the file

\* The filters of the display, whether it is shown at all, what the operator
\* does, and how often: busy says that the main thread may be held up for more
\* than a second, torn that a crash may hit the writing of the file, radio where
\* the radio is tuned to at the start.
Setup ==
    [showdupes : BOOLEAN, allband : BOOLEAN, outOfBand : BOOLEAN, skipdupes : BOOLEAN,
     displayed : BOOLEAN, busy : BOOLEAN, torn : BOOLEAN, grabs : BOOLEAN,
     radio : SUBSET Freqs, maxReports : Nat, maxLogs : Nat, maxCrashes : Nat, maxTime : Nat]

ASSUME BandmapAssumption ==
    /\ Setups \subseteq Setup
    /\ Freqs \subseteq Nat /\ Freqs # {}
    /\ Band \in [Freqs -> Bands] /\ OutOfBand \in Bands /\ Warc \subseteq Bands
    /\ Tolerance \in Nat \ {0} /\ Lifetime \in Nat \ {0} /\ SavePeriod \in Nat \ {0}

VARIABLES
    setup,
    allspots,   \* the set of spots
    spots,      \* the filtered copies that are displayed and grabbed
    worked,     \* stations worked, per band
    freq,       \* frequency of the radio
    outfreq,    \* frequency asked for
    grabUp,     \* grab_up
    main,       \* where time_update() is
    due,        \* the second has changed since time_update()
    bmTimeout,  \* seconds since the last write
    saveTime,   \* time stamp of the write in progress
    file,       \* .bmdata.dat
    now,        \* the clock
    reports, crashes  \* bounds: what has happened so far

vars == <<setup, allspots, spots, worked, freq, outfreq, grabUp, main, due, bmTimeout,
          saveTime, file, now, reports, crashes>>

\* heard is no field of the program: it is when the spot was reported last.
Spot == [call : Calls, freq : Freqs, band : Bands, mode : {Mode[f] : f \in Freqs},
         timeout : 0..Lifetime, heard : Nat]

Absent == [state |-> "absent", time |-> 0, spots |-> {}]
Empty  == [state |-> "empty", time |-> 0, spots |-> {}]
Saved  == [state : {"saved"}, time : Nat, spots : SUBSET Spot]

Distance(x, y) == IF x < y THEN y - x ELSE x - y

Init ==
    /\ setup \in Setups
    /\ allspots = {} /\ spots = {} /\ worked = {}
    /\ freq \in setup.radio /\ outfreq = freq /\ grabUp = TRUE
    /\ main = "idle" /\ due = FALSE /\ bmTimeout = 0 /\ saveTime = 0
    /\ file = Absent
    /\ now = 0 /\ reports = 0 /\ crashes = 0

Running == main \notin {"down", "refused"}

-----------------------------------------------------------------------------
(* bandmap_addspot().                                                      *)

\* The spots of a call in the band and mode of f: at most one.
Listed(c, f) ==
    {s \in allspots : s.call = c /\ s.band = Band[f] /\ s.mode = Mode[f]}

\* A spot keeps its frequency when the new one is not farther than TOLERANCE.
Moved(s, f) ==
    [s EXCEPT !.timeout = Lifetime, !.heard = now,
              !.freq = IF Distance(@, f) > Tolerance THEN f ELSE @]

NewSpot(c, f) ==
    [call |-> c, freq |-> f, band |-> Band[f], mode |-> Mode[f], timeout |-> Lifetime,
     heard |-> now]

\* Mutant: only the lower neighbour is compared.
Neighbours_Lower(others, x) ==
    {s \in others : s.freq < x /\ \A t \in others : t.freq < x => t.freq <= s.freq}

\* The direct neighbours of frequency x in the list: a spot on x itself is
\* found behind a spot that was sorted in.
Neighbours(others, x) ==
    {s \in others :
        \/ s.freq < x  /\ \A t \in others : t.freq < x => t.freq <= s.freq
        \/ s.freq >= x /\ \A t \in others : t.freq >= x => s.freq <= t.freq}

\* Mutant: neighbours go at any distance.
Enter_Any(old, e, f) ==
    LET others == allspots \ old
    IN  allspots' = {e} \cup (others \ Neighbours(others, e.freq))

\* Enter replaces the spots in old by e and drops the neighbours of e that are
\* too close to the reported frequency.
Enter(old, e, f) ==
    LET others == allspots \ old
    IN  allspots' = {e} \cup {s \in others :
                        ~(s \in Neighbours(others, e.freq) /\ Distance(s.freq, f) < Tolerance)}

AddSpot(c, f) ==
    /\ Running
    /\ reports < setup.maxReports /\ reports' = reports + 1
    /\ \/ Listed(c, f) = {} /\ Enter({}, NewSpot(c, f), f)
       \/ \E s \in Listed(c, f) : Enter({s}, Moved(s, f), f)
    /\ UNCHANGED <<setup, spots, worked, freq, outfreq, grabUp, main, due, bmTimeout,
                   saveTime, file, now, crashes>>

-----------------------------------------------------------------------------
(* time_update(), once a second.                                           *)

\* The clock.  A second is missed only if the main thread is held up.
Tick ==
    /\ now < setup.maxTime /\ now' = now + 1
    /\ setup.busy \/ main = "down" \/ (main = "idle" /\ ~due)
    /\ due' = Running
    /\ UNCHANGED <<setup, allspots, spots, worked, freq, outfreq, grabUp, main, bmTimeout,
                   saveTime, file, reports, crashes>>

\* bandmap_age()
Older(s) == [s EXCEPT !.timeout = @ - 1]

Age ==
    /\ main = "idle" /\ due
    /\ allspots' = {Older(s) : s \in {t \in allspots : t.timeout > 1}}
    /\ main' = "show" /\ due' = FALSE
    /\ UNCHANGED <<setup, spots, worked, freq, outfreq, grabUp, bmTimeout, saveTime, file,
                   now, reports, crashes>>

IsDupe(s) == s.band \notin Warc /\ <<s.call, s.band>> \in worked

\* filter_spots(): iscontest is on.
Shown(s) ==
    /\ s.band \notin Warc
    /\ setup.showdupes \/ ~IsDupe(s)
    /\ setup.outOfBand \/ s.band # OutOfBand
    /\ setup.allband \/ s.band = Band[freq]

Copy(s) == [call |-> s.call, freq |-> s.freq, heard |-> s.heard, dupe |-> IsDupe(s)]

Show ==
    /\ main = "show"
    /\ spots' = IF setup.displayed THEN {Copy(s) : s \in {t \in allspots : Shown(t)}}
                ELSE spots
    /\ bmTimeout' = (bmTimeout + 1) % SavePeriod
    /\ main' = IF bmTimeout' = 0 THEN "save" ELSE "idle"
    /\ UNCHANGED <<setup, allspots, worked, freq, outfreq, grabUp, due, saveTime, file,
                   now, reports, crashes>>

\* bmdata_write_file() opens the file, which empties it, and looks at the clock
\* before it locks the list.
OpenFile ==
    /\ main = "save"
    /\ file' = Empty /\ saveTime' = now
    /\ main' = "write"
    /\ UNCHANGED <<setup, allspots, spots, worked, freq, outfreq, grabUp, due, bmTimeout,
                   now, reports, crashes>>

WriteFile ==
    /\ main = "write"
    /\ file' = [state |-> "saved", time |-> saveTime, spots |-> allspots]
    /\ main' = "idle"
    /\ UNCHANGED <<setup, allspots, spots, worked, freq, outfreq, grabUp, due, bmTimeout,
                   saveTime, now, reports, crashes>>

TimeUpdate == Age \/ Show \/ OpenFile \/ WriteFile

-----------------------------------------------------------------------------
(* Crash and restart.                                                      *)

Crash ==
    /\ Running /\ crashes < setup.maxCrashes /\ crashes' = crashes + 1
    /\ setup.torn \/ main # "write"
    /\ main' = "down" /\ due' = FALSE
    /\ UNCHANGED <<setup, allspots, spots, worked, freq, outfreq, grabUp, bmTimeout,
                   saveTime, file, now, reports>>

\* bmdata_read_file()
Remaining ==
    {[s EXCEPT !.timeout = @ - (now - file.time)] :
        s \in {t \in file.spots : t.timeout > now - file.time}}

\* An empty file makes Tlf exit with an error, and so it does at the next
\* start.
Restart ==
    /\ main = "down"
    /\ main' = IF file = Empty THEN "refused" ELSE "idle"
    /\ allspots' = IF file = Empty THEN {} ELSE Remaining
    /\ spots' = {} /\ bmTimeout' = 0 /\ grabUp' = TRUE /\ outfreq' = freq
    /\ UNCHANGED <<setup, worked, freq, due, saveTime, file, now, reports, crashes>>

-----------------------------------------------------------------------------
(* The operator and the radio.                                             *)

\* addcall(): a station is worked.  The log survives a crash.
LogQso(c, b) ==
    /\ Running /\ main = "idle" /\ <<c, b>> \notin worked
    /\ Cardinality(worked) < setup.maxLogs
    /\ worked' = worked \cup {<<c, b>>}
    /\ UNCHANGED <<setup, allspots, spots, freq, outfreq, grabUp, main, due, bmTimeout,
                   saveTime, file, now, reports, crashes>>

\* Mutant: the search never goes down.
Ahead_Up(up) ==
    {s \in spots : s.freq > freq + Tolerance \div 2 /\ (~setup.skipdupes \/ ~s.dupe)}

\* bandmap_next(): what lies in the direction of the search.
Ahead(up) ==
    {s \in spots :
        /\ IF up THEN s.freq > freq + Tolerance \div 2 ELSE s.freq < freq - Tolerance \div 2
        /\ ~setup.skipdupes \/ ~s.dupe}

Nearest(S, up) ==
    {s \in S : \A t \in S : IF up THEN s.freq <= t.freq ELSE s.freq >= t.freq}

\* grab_next(): turns round when there is nothing ahead.
GrabNext ==
    /\ Running /\ main = "idle" /\ setup.grabs
    /\ grabUp' = (IF Ahead(grabUp) # {} THEN grabUp ELSE ~grabUp)
    /\ \/ Ahead(grabUp') = {} /\ outfreq' = outfreq
       \/ \E s \in Nearest(Ahead(grabUp'), grabUp') : outfreq' = s.freq
    /\ UNCHANGED <<setup, allspots, spots, worked, freq, main, due, bmTimeout, saveTime,
                   file, now, reports, crashes>>

\* The background thread tunes the radio and reads its frequency.
Tune ==
    /\ Running /\ freq # outfreq /\ freq' = outfreq
    /\ UNCHANGED <<setup, allspots, spots, worked, outfreq, grabUp, main, due, bmTimeout,
                   saveTime, file, now, reports, crashes>>

Next ==
    \/ \E c \in Calls, f \in Freqs : AddSpot(c, f)
    \/ \E c \in Calls, b \in Bands : LogQso(c, b)
    \/ Tick \/ TimeUpdate \/ Crash \/ Restart \/ GrabNext \/ Tune

\* time_update() is called while Tlf waits for keys, and the background thread
\* goes round its loop.  Nobody has to grab, to report or to restart Tlf.
Spec == Init /\ [][Next]_vars /\ WF_vars(TimeUpdate) /\ WF_vars(Tune)

-----------------------------------------------------------------------------
(* Properties.                                                             *)

(* Every variable has its type. *)
TypeOK ==
    /\ setup \in Setups
    /\ allspots \in SUBSET Spot
    /\ spots \subseteq [call : Calls, freq : Freqs, heard : Nat, dupe : BOOLEAN]
    /\ worked \subseteq Calls \X Bands
    /\ freq \in Freqs /\ outfreq \in Freqs /\ grabUp \in BOOLEAN
    /\ main \in {"idle", "show", "save", "write", "down", "refused"}
    /\ due \in BOOLEAN
    /\ bmTimeout \in 0..(SavePeriod - 1)
    /\ saveTime \in Nat /\ now \in Nat
    /\ file \in Saved \cup {Absent, Empty}
    /\ reports \in Nat /\ crashes \in Nat

\* No two spots are closer than TOLERANCE: although bandmap_addspot() looks at
\* the direct neighbours only, and measures from the reported frequency, which
\* is not always the one in the list.
Spaced ==
    \A s, t \in allspots : s = t \/ Distance(s.freq, t.freq) >= Tolerance

\* A call is in the list once per band and mode, after ageing, moving and
\* reading the file as well, and the band and mode are those of the frequency.
OncePerMode ==
    /\ \A s, t \in allspots :
          s.call = t.call /\ s.band = t.band /\ s.mode = t.mode => s = t
    /\ \A s \in allspots : s.band = Band[s.freq] /\ s.mode = Mode[s.freq]

\* What is in the list and what is displayed and grabbed was reported within
\* the lifetime of a spot, also when Tlf was down in between: provided that
\* time_update() is called every second and that the bandmap is displayed.
HeardLately ==
    ~setup.busy /\ setup.displayed =>
        \A s \in allspots \cup spots : Running /\ main # "show" =>
            now - s.heard < Lifetime + (IF due THEN 1 ELSE 0)

\* The list is one an operator can rely on, whatever was reported, aged, saved
\* and read back: spots keep their distance, nobody is listed twice in a mode
\* and nothing is stale.
SpotsRight == Spaced /\ OncePerMode /\ HeardLately

\* A report is in the list, within TOLERANCE of its frequency, and only what
\* is close to it, or the same station on this band, makes room.
ReportShown ==
    [][\A c \in Calls, f \in Freqs : AddSpot(c, f) =>
          /\ \E s \in allspots' :
                s.call = c /\ s.timeout = Lifetime /\ Distance(s.freq, f) <= Tolerance
          /\ \A s \in allspots \ allspots' :
                s \in Listed(c, f) \/ Distance(s.freq, f) < Tolerance]_vars

Grabbable(f) == \E s \in spots : s.freq = f /\ ~(setup.skipdupes /\ s.dupe)

\* Who keeps grabbing comes past every station of the display, both ends
\* included, whatever the frequency of the radio was at first.
GrabVisitsAll ==
    []<><<GrabNext>>_vars =>
        \A f \in Freqs :
            Grabbable(f) ~> ~Grabbable(f) \/ Distance(freq, f) <= Tolerance \div 2

=============================================================================
