---------------------------- MODULE MCOperatorLoop ----------------------------
(* Two letters, calls of two, and one to three frequencies.                *)
EXTENDS OperatorLoop, TLC

CONSTANTS a, b, f1, f2, f3

MCSpotAt == (f1 :> <<>>) @@ (f2 :> <<a, b>>) @@ (f3 :> <<b, b>>)

\* Each setup has what its name says and is plain otherwise.
Running ==
    [start |-> "CQ", contest |-> TRUE, ctcomp |-> FALSE, phone |-> FALSE, resend |-> TRUE,
     cwstart |-> 0, stopTxOnly |-> FALSE, prefill |-> "none", nob4 |-> TRUE, sprint |-> FALSE,
     keys |-> {}, slow |-> FALSE, freq |-> f1]
Dupes      == [Running EXCEPT !.nob4 = FALSE, !.keys = {"autocq"}]
Fixing     == [Running EXCEPT !.prefill = "recall", !.keys = {"fix", "send"}]
Zone       == [Running EXCEPT !.start = "S_P", !.prefill = "zone", !.keys = {"send"}]
Sprint     == [Running EXCEPT !.sprint = TRUE, !.prefill = "recall"]
Phone      == [Running EXCEPT !.phone = TRUE, !.stopTxOnly = TRUE, !.keys = {"autocq"}]
CtMode     == [Running EXCEPT !.ctcomp = TRUE, !.keys = {"wipe"}]
Casual     == [Running EXCEPT !.contest = FALSE, !.nob4 = FALSE]
EarlyOne   == [Running EXCEPT !.cwstart = 1]
EarlyTwo   == [Running EXCEPT !.cwstart = 2, !.keys = {"mode"}]
EarlyEnter == [Running EXCEPT !.cwstart = 0 - 1, !.keys = {"autocq"}]
Wiping     == [Running EXCEPT !.keys = {"wipe", "mode"}, !.resend = FALSE]
Memory     == [Running EXCEPT !.contest = FALSE, !.keys = {"memory", "grab"}, !.resend = FALSE]
Slow       == [Memory EXCEPT !.slow = TRUE, !.keys = {"memory", "qsy"}, !.stopTxOnly = TRUE]
Auto       == [Running EXCEPT !.start = "S_P", !.keys = {"autoadd", "autograb", "knob"},
                              !.resend = FALSE]

MCSetups == {Running, Dupes, Fixing, Zone, Sprint, Phone, CtMode, Casual, EarlyOne, EarlyTwo,
             EarlyEnter, Wiping, Memory, Slow, Auto}
=============================================================================
