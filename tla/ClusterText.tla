------------------------------ MODULE ClusterText ------------------------------
(***************************************************************************)
(* Text of the cluster window: lines and the fragments they arrive in, the *)
(* list of the last lines with the line being viewed, the table of spots   *)
(* and what the cluster window of the main screen shows of it              *)
(* (splitscreen.c, clusterinfo.c).                                         *)
(*                                                                         *)
(* A line has a number and a kind; a character is <<line, place>> or NL.   *)
(***************************************************************************)
EXTENDS Naturals, Sequences, SequencesExt

CONSTANTS Columns,   \* COLS
          MaxLines,    \* maxtln_loglines
          ViewRows,  \* LINES - ENTRYROWS
          ScrollRows,\* SCROLLSIZE
          MaxSpots,  \* MAX_SPOTS
          EntryLength, \* 80
          DropSpots, \* 10
          SpotRows   \* lines of the cluster window

ASSUME TextAssumption ==
    /\ {Columns, MaxLines, ViewRows, ScrollRows, MaxSpots, EntryLength, DropSpots, SpotRows}
          \subseteq Nat \ {0}
    /\ Columns > 1
    /\ DropSpots + 1 < MaxSpots

NL == <<>>
CR == <<0>>

\* kind: dx (a spot), mine (has this station's call), talk (starts with it),
\* private (a spot in a talk line), all, blank (starts with a blank), other,
\* tlf (of TLF itself).
ClusterLine == [nr : Nat,
                kind : {"dx", "mine", "talk", "private", "all", "blank", "other", "tlf"},
                length : Nat]

LineOf(nr, kind, length) == [nr |-> nr, kind |-> kind, length |-> length]
Cells(line) == [i \in 1..line.length |-> <<line, i>>]
Ended(line) == Append(Cells(line), NL)

IsText(c) == Len(c) = 2
First(s) == s[1][1]
Begins(s, kinds) == s # <<>> /\ IsText(s[1]) /\ s[1][2] = 1 /\ First(s).kind \in kinds
Holds(s, kinds) == \E i \in DOMAIN s : IsText(s[i]) /\ s[i][2] = 1 /\ s[i][1].kind \in kinds

\* The elements of a list at some places, in order.
Picked(list, places) ==
    LET of[n \in 0..Len(list)] ==
          IF n = 0 THEN <<>>
          ELSE IF n \in places THEN Append(of[n-1], list[n]) ELSE of[n-1]
    IN  of[Len(list)]

\* sanitize()
Sanitize(s) == Picked(s, {i \in DOMAIN s : s[i] # CR})

\* Part of addtext(): a talk line for this station loses its fragment's end
\* and gets it back, or gets one; a private spot becomes a DX line.
Private(s) ==
    IF ~Begins(s, {"talk", "private"}) THEN s
    ELSE IF First(s).kind = "private" /\ Len(s) > 1
         THEN Ended(LineOf(First(s).nr, "dx", First(s).length))
         ELSE IF Last(s) = NL THEN s ELSE Append(s, NL)

\* The loop of addtext(): the lines that become complete and what is left.
\* The text goes where the buffer ended when addtext() was called; what is put
\* behind its present end is not seen again.  The character that finds no
\* place in its line is dropped.
Split(buffer, end, s) ==
    LET f[i \in 0..Len(s)] ==
          IF i = 0 THEN [buffer |-> buffer, end |-> end, lines |-> <<>>]
          ELSE LET r == f[i-1]
               IN  IF s[i] = NL \/ r.end + 1 >= Columns
                   THEN [buffer |-> <<>>, end |-> 0, lines |-> Append(r.lines, r.buffer)]
                   ELSE [buffer |-> IF r.end > Len(r.buffer) THEN r.buffer
                                    ELSE Append(SubSeq(r.buffer, 1, r.end), s[i]),
                         end |-> r.end + 1, lines |-> r.lines]
    IN  f[Len(s)]

\* What addtext() passes on: lines that start with a printable character.
Printable(line) == line # <<>> /\ ~Begins(line, {"blank"})

-----------------------------------------------------------------------------
(* The table of spots: spot_ptr[] and nr_of_spots.                         *)

NoSpots == [line |-> [i \in 1..MaxSpots |-> <<>>], count |-> 0]

\* The entries of a line: one of every EntryLength characters, and the two that
\* follow.  An entry that fills its place runs on into the next, which is of its
\* own line.
Entries(line) ==
    Picked([i \in DOMAIN line |->
               SubSeq(line, i, IF i + EntryLength + 1 < Len(line) THEN i + EntryLength + 1
                               ELSE Len(line))],
           {i \in DOMAIN line : (i - 1) % EntryLength = 0})

AllEntries(lines) ==
    LET of[n \in 0..Len(lines)] == IF n = 0 THEN <<>> ELSE of[n-1] \o Entries(lines[n])
    IN  of[Len(lines)]

\* Mutant: one entry more is cleared.
AddSpot_Mutation(table, entry) ==
    LET t == [table EXCEPT !.line[table.count + 1] = entry, !.count = @ + 1]
    IN  IF t.count < MaxSpots THEN t
        ELSE [line  |-> [i \in 1..MaxSpots |->
                            IF i + 1 < MaxSpots - DropSpots THEN t.line[i + DropSpots] ELSE <<>>],
              count |-> MaxSpots - DropSpots]

\* A full table loses its first entries; the one that filled it is cleared, too.
AddSpot(table, entry) ==
    LET t == [table EXCEPT !.line[table.count + 1] = entry, !.count = @ + 1]
    IN  IF t.count < MaxSpots THEN t
        ELSE [line  |-> [i \in 1..MaxSpots |->
                            IF i < MaxSpots - DropSpots THEN t.line[i + DropSpots] ELSE <<>>],
              count |-> MaxSpots - DropSpots]

AddSpots(table, entries) ==
    LET of[n \in 0..Len(entries)] ==
          IF n = 0 THEN table ELSE AddSpot(of[n-1], entries[n])
    IN  of[Len(entries)]

\* What getclusterinfo() selects, by announcefilter.
Selected(s, filter) ==
    IF Holds(s, {"dx"}) THEN TRUE
    ELSE IF Holds(s, {"mine", "talk", "private"}) THEN filter <= 2
    ELSE IF Holds(s, {"all"}) THEN filter <= 1
    ELSE filter = 0 /\ Len(s) > 2

\* clusterinfo(): the last of them that fit into the window.
Shown(table, filter) ==
    LET all == Picked(SubSeq(table.line, 1, table.count),
                      {i \in 1..table.count : Selected(table.line[i], filter)})
    IN  SubSeq(all, IF Len(all) < SpotRows THEN 1 ELSE Len(all) - SpotRows + 1, Len(all))

-----------------------------------------------------------------------------
(* The lines in the window: a list of n lines, of which `at` is viewed.    *)
(* 0 is no line.  attop tells whether it is the first or the last on the   *)
(* screen; found is what the caller learns.                                *)

Editing == [at |-> 0, state |-> "EDITING", attop |-> FALSE, found |-> TRUE]

NextLog(v, n) ==
    LET to == IF v.state = "EDITING" THEN IF n > 0 THEN 1 ELSE 0
              ELSE IF v.at \in 1..(n - 1) THEN v.at + 1 ELSE 0
    IN  IF to = 0 THEN [v EXCEPT !.at = n, !.found = FALSE]
        ELSE [v EXCEPT !.at = to, !.state = "VIEWING", !.found = TRUE]

PrevLog(v, n) ==
    LET to == IF v.state = "EDITING" THEN n ELSE IF v.at > 1 THEN v.at - 1 ELSE 0
    IN  IF to = 0 THEN [v EXCEPT !.at = IF n > 0 THEN 1 ELSE 0, !.found = FALSE]
        ELSE [v EXCEPT !.at = to, !.state = "VIEWING", !.found = TRUE]

Nexts(v, n, rows) ==
    LET f[i \in 0..rows] == IF i = 0 THEN [v EXCEPT !.found = TRUE]
                            ELSE IF f[i-1].found THEN NextLog(f[i-1], n) ELSE f[i-1]
    IN  f[rows]

Prevs(v, n, rows) ==
    LET f[i \in 0..rows] == IF i = 0 THEN [v EXCEPT !.found = TRUE]
                            ELSE IF f[i-1].found THEN PrevLog(f[i-1], n) ELSE f[i-1]
    IN  f[rows]

WalkUp(v, n) == IF v.attop THEN [v EXCEPT !.found = TRUE]
                ELSE Prevs([v EXCEPT !.attop = TRUE], n, ViewRows - 1)
WalkDown(v, n) == IF ~v.attop THEN [v EXCEPT !.found = TRUE]
                  ELSE Nexts([v EXCEPT !.attop = FALSE], n, ViewRows - 1)

PageUp(v, n, rows) == Prevs(WalkUp(v, n), n, rows)
PageDown(v, n, rows) == Nexts(WalkDown(v, n), n, rows)

\* viewtop(), viewbottom(): not with an empty list.
ViewTop(v, n) == [Nexts([v EXCEPT !.at = 1, !.state = "VIEWING"], n, ViewRows - 1)
                    EXCEPT !.attop = FALSE]
ViewBottom(v, n) == [v EXCEPT !.at = n, !.state = "VIEWING", !.attop = FALSE]

\* addlog(): a line is added to a list of n; a full list loses the first.
Added(v, n) ==
    IF n < MaxLines \/ v.at = 0 THEN v ELSE [v EXCEPT !.at = IF @ = 1 THEN 1 ELSE @ - 1]
=============================================================================
