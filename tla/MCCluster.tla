------------------------------- MODULE MCCluster -------------------------------
(* Lines of up to three characters in five columns, entries of two and the *)
(* two that follow, a log of five lines, a table of six entries.           *)
EXTENDS Cluster

Line(i, kind, length) == LineOf(10 + i, kind, length)

\* The cluster alone, with the log of the window viewed.
Telnet == [interface |-> "telnet", lan |-> FALSE, login |-> TRUE, loses |-> FALSE, keys |-> TRUE,
           chunk |-> 9, spots |-> 0, commands |-> 0, messages |-> <<>>,
           lines |-> <<Line(1, "dx", 3), Line(2, "all", 2), Line(3, "other", 3)>>]

\* The lines feed a LAN.
Feeder == [Telnet EXCEPT !.lan = TRUE, !.login = FALSE, !.keys = FALSE,
                         !.lines = <<Line(1, "dx", 3), Line(2, "blank", 2), Line(3, "other", 3)>>]

\* The connection breaks and is made again.
Breaks == [Telnet EXCEPT !.loses = TRUE, !.keys = FALSE,
                         !.lines = <<Line(1, "dx", 2), Line(2, "mine", 2), Line(3, "dx", 1)>>]

\* More lines than the table takes.
Busy == [Telnet EXCEPT !.chunk = 4, !.keys = FALSE, !.login = FALSE,
                       !.lines = [i \in 1..10 |-> Line(i, <<"dx", "other", "all">>[1 + (i % 3)], 3)]]

\* Lines and spots from the LAN and of the operator, typed commands.
Mixed == [Telnet EXCEPT !.lan = TRUE, !.login = FALSE, !.keys = FALSE, !.spots = 1, !.commands = 1,
                        !.chunk = 3,
                        !.messages = <<[kind |-> "TLFSPOT", line |-> Line(21, "dx", 3)],
                                       [kind |-> "CLUSTERMSG", line |-> Line(22, "all", 2)]>>,
                        !.lines = <<Line(1, "dx", 3)>>]

\* Talk to the operator, and a line too long for the screen.
Talk == [Telnet EXCEPT !.keys = FALSE,
                       !.lines = <<Line(1, "talk", 3), Line(2, "private", 3), Line(3, "other", 6)>>]

Tnc == [Telnet EXCEPT !.interface = "tnc", !.loses = TRUE, !.keys = FALSE, !.commands = 1]
Fifo == [Telnet EXCEPT !.interface = "fifo"]

\* The lines of a TNC that loses nothing feed a LAN.
TncFeeder == [Feeder EXCEPT !.interface = "tnc", !.keys = TRUE, !.chunk = 2]

MCStations == {Telnet, Feeder, Breaks, Busy, Mixed, Talk, Tnc, TncFeeder, Fifo}

\* Two spots of another station.
Spots == [Mixed EXCEPT !.messages = <<[kind |-> "TLFSPOT", line |-> Line(21, "dx", 3)],
                                      [kind |-> "TLFSPOT", line |-> Line(22, "dx", 3)]>>,
                       !.lines = <<>>, !.spots = 0, !.commands = 0]

LanStations == {Spots}
=============================================================================
