------------------------------- MODULE QtcLedger -------------------------------
(***************************************************************************)
(* What QTC traffic promises: a contact is given away once, never to the   *)
(* station it was made with, and no station gets more than Limit.          *)
(***************************************************************************)
EXTENDS Naturals, Sequences, FiniteSets

CONSTANTS Stations, Limit

VARIABLES qsos,   \* contacts in the order of the log: id and call
          given   \* what was given: contact and station, in order

Init == qsos = <<>> /\ given = <<>>

GivenTo(g, c) == {i \in 1..Len(g) : g[i].to = c}

Log == \E c \in Stations :
    /\ qsos' = Append(qsos, [id |-> Len(qsos) + 1, call |-> c])
    /\ UNCHANGED given

\* A block of contacts goes to one station.
Give ==
    /\ \E n \in 1..Limit : Len(given') = Len(given) + n
    /\ SubSeq(given', 1, Len(given)) = given
    /\ \A i \in (Len(given) + 1)..Len(given') :
           /\ given'[i].to = given'[Len(given')].to
           /\ \E q \in 1..Len(qsos) : qsos[q].id = given'[i].qso /\ qsos[q].call # given'[i].to
           /\ \A j \in 1..(i - 1) : given'[j].qso # given'[i].qso
    /\ \A c \in Stations : Cardinality(GivenTo(given', c)) <= Limit
    /\ UNCHANGED qsos

Next == Log \/ Give

Spec == Init /\ [][Next]_<<qsos, given>>
=============================================================================
