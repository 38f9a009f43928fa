------------------------------ MODULE MCLanNode ------------------------------
(***************************************************************************)
(* Small LANs for LanNode: a run station and a multiplier station.         *)
(***************************************************************************)
EXTENDS LanNode, TLC

CONSTANTS n1, n2, A, B

TwoIds == n1 :> A @@ n2 :> B
EachOther == [n \in Nodes |-> Nodes \ {n}]

Calm == [lan |-> TRUE, loses |-> FALSE, crashes |-> FALSE, deletes |-> FALSE,
         backslash |-> FALSE, cluster |-> FALSE, qsos |-> 2, top |-> 2,
         notes |-> 0]

Quick     == [Calm EXCEPT !.backslash = TRUE]
Deleting  == [Calm EXCEPT !.deletes = TRUE, !.top = 1]
Lossy     == [Calm EXCEPT !.loses = TRUE]
Noted     == [Calm EXCEPT !.notes = 1, !.qsos = 1, !.top = 1]
Crashing  == [Calm EXCEPT !.crashes = TRUE, !.qsos = 1]
Clusters  == [Calm EXCEPT !.cluster = TRUE, !.crashes = TRUE, !.qsos = 0]
Solo      == [Calm EXCEPT !.lan = FALSE, !.deletes = TRUE, !.notes = 5, !.top = 3]

MCSetups == {Calm, Quick, Deleting, Lossy, Noted, Crashing, Clusters, Solo}
=============================================================================
