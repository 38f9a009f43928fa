-------------------------------- MODULE Cluster --------------------------------
(***************************************************************************)
(* The connection to the DX cluster: the background thread and the packet  *)
(* window read it in turn and both assemble lines in one buffer, next to   *)
(* the messages of the LAN and the spots the operator adds                 *)
(* (splitscreen.c, sockserv.c, addspot.c, background_process.c).           *)
(*                                                                         *)
(* The input buffer has no lock.  A thread in addtext() first takes where  *)
(* the buffer ends and then puts its text there; the other thread may be   *)
(* in addtext() in between.  Each of the two is one step.                  *)
(***************************************************************************)
EXTENDS ClusterText

CONSTANT Stations  \* records, see MCCluster: what the station is connected to

\* The lines of the cluster and the messages of the LAN; lines have their number in
\* the order they are sent in.
ASSUME StationAssumption ==
    \A x \in Stations :
        /\ x.lines \in Seq(ClusterLine)
        /\ \A i, j \in DOMAIN x.lines : i < j => x.lines[i].nr < x.lines[j].nr
        /\ x.messages \in Seq([kind : {"TLFSPOT", "CLUSTERMSG"}, line : ClusterLine])

VARIABLES
    station,
    screen,          \* "loop", "entering", "window", "spotted", "crashed", in
                     \* addtext() "welcome", "reading", "sending", "spot"
    background,      \* "off" until the first return to the main screen,
                     \* "loop", "spotted", in addtext() "packet", "message", "spot"
    end,             \* where the buffer ended when a thread came into addtext()
    in_packetclient,
    initialized,     \* the windows exist
    prsock,          \* "none", "open", "stale": closed, but still > 0
    port,            \* name of the TNC's port: "ended" with its newline,
                     \* "exact" or "short"
    sent_login,
    said,            \* number of lines the cluster has sent
    up,              \* the cluster's side of the connection is open
    stream,          \* characters not yet read
    buffer,          \* tln_input_buffer
    log,             \* the lines in the window
    view,            \* viewing, view_state and attop
    entry,           \* the line being typed, and entry_text
    spots,           \* spot_ptr[] and nr_of_spots
    lanspotflg,
    cl_send_inhibit,
    taken,           \* messages of the LAN that were handled
    made,            \* lines typed, spots made (bounded by the setup)
    added,           \* all lines for the window (history)
    entered,         \* their entries for the table of spots (history)
    cleared,         \* length of entered when the table was cleared (history)
    shared           \* lines passed on in the LAN (history)

place == <<screen, background, end, in_packetclient>>
link == <<initialized, prsock, port, sent_login, said, up>>
text == <<buffer, log, spots, added, entered, shared>>
clusterVars == <<station, place, link, stream, text, view, entry, lanspotflg,
          cl_send_inhibit, taken, made, cleared>>

Welcome == Ended(LineOf(0, "tlf", 1)) \o <<NL>>
LoggedIn == Ended(LineOf(1, "tlf", 1)) \o <<NL>>
Command == LineOf(2, "tlf", 1)
LocalSpot == LineOf(3, "dx", 2)
FromCluster(line) == Cells(line) \o <<CR, NL>>

Is(interface) == station.interface = interface

ClusterInit ==
    /\ station \in Stations
    /\ \E opened \in IF station.loses THEN BOOLEAN ELSE {TRUE} :
         /\ prsock = IF opened THEN "open" ELSE "none"
         /\ screen = IF opened THEN "entering" ELSE "loop"
         /\ background = IF opened THEN "off" ELSE "loop"
         /\ in_packetclient = opened
         /\ initialized = opened
         /\ up = opened
    /\ port = "exact"
    /\ sent_login = FALSE /\ said = 0
    /\ stream = <<>> /\ buffer = <<>> /\ log = <<>> /\ spots = NoSpots
    /\ added = <<>> /\ entered = <<>> /\ shared = <<>> /\ cleared = 0
    /\ end = [screen |-> 0, background |-> 0]
    /\ view = Editing /\ entry = [line |-> "", saved |-> ""]
    /\ lanspotflg = FALSE /\ cl_send_inhibit = FALSE
    /\ taken = 0 /\ made = 0

-----------------------------------------------------------------------------
(* addtext() and addlog().                                                 *)

Enters(thread) == end' = [end EXCEPT ![thread] = Len(buffer)]
Returns(thread) == end' = [end EXCEPT ![thread] = 0]

\* r is what became of the text of the buffer: lines are added while the view
\* is v.  They are passed on in the LAN, unless quiet: not the spots of a station
\* itself, nor anything once another station has been seen to feed the LAN.
AddLines(thread, r, v, quiet) ==
    LET all   == log \o r.lines
        first == IF Len(all) > MaxLines THEN Len(all) - MaxLines + 1 ELSE 1
    IN  /\ Returns(thread)
        /\ buffer' = r.buffer
        /\ log' = SubSeq(all, first, Len(all))
        /\ view' = FoldLeft(LAMBDA w, i : Added(w, IF i < MaxLines THEN i ELSE MaxLines), v,
                            [i \in 1..Len(r.lines) |-> Len(log) + i - 1])
        /\ spots' = AddSpots(spots, AllEntries(r.lines))
        /\ added' = added \o Picked(r.lines, {i \in DOMAIN r.lines : r.lines[i] # <<>>})
        /\ entered' = entered \o AllEntries(r.lines)
        /\ shared' = IF station.lan /\ ~quiet
                     THEN shared \o Picked(r.lines, {i \in DOMAIN r.lines : Printable(r.lines[i])})
                     ELSE shared

AddTextAs(thread, s, v, quiet) ==
    \E r \in {Split(buffer, end[thread], Private(s))} : AddLines(thread, r, v, quiet)

AddText(thread, s, v) == AddTextAs(thread, s, v, lanspotflg \/ cl_send_inhibit)

\* recvline(), read(): whatever has arrived, at most a buffer full.
Fragments == {k \in 1..Len(stream) : k <= station.chunk}
Read(thread, v) ==
    \E k \in Fragments :
        /\ AddText(thread, Sanitize(SubSeq(stream, 1, k)), v)
        /\ stream' = SubSeq(stream, k + 1, Len(stream))

Lost == Is("telnet") /\ prsock = "open" /\ stream = <<>> /\ ~up

-----------------------------------------------------------------------------
(* The background thread.                                                  *)

Running == background = "loop" /\ screen # "crashed"

\* receive_packet()
ReceivePacket ==
    /\ Running /\ ~in_packetclient /\ prsock = "open" /\ stream # <<>>
    /\ Enters("background") /\ background' = "packet"
    /\ UNCHANGED <<station, screen, in_packetclient, link, stream, text, view, entry, lanspotflg,
                   cl_send_inhibit, taken, made, cleared>>

AddPacket ==
    /\ background = "packet" /\ screen # "crashed"
    /\ Read("background", IF Is("telnet") THEN [view EXCEPT !.state = "EDITING"] ELSE view)
    /\ background' = "loop"
    /\ UNCHANGED <<station, screen, in_packetclient, link, entry, lanspotflg, cl_send_inhibit,
                   taken, made, cleared>>

\* cleanup_telnet(): the descriptor is closed, not forgotten.
CleanupTelnet ==
    /\ initialized' = FALSE
    /\ prsock' = IF prsock = "open" THEN "stale" ELSE prsock

ReceiveFails ==
    /\ Running /\ ~in_packetclient /\ Lost
    /\ CleanupTelnet
    /\ view' = [view EXCEPT !.state = "EDITING"]
    /\ UNCHANGED <<station, place, port, sent_login, said, up, stream, text, entry, lanspotflg,
                   cl_send_inhibit, taken, made, cleared>>

Message(kind) == /\ Running /\ taken < Len(station.messages)
                 /\ station.messages[taken + 1].kind = kind

HandleClusterMsg ==
    /\ Message("CLUSTERMSG")
    /\ cl_send_inhibit' = TRUE /\ Enters("background") /\ background' = "message"
    /\ UNCHANGED <<station, screen, in_packetclient, link, stream, text, view, entry, lanspotflg,
                   taken, made, cleared>>

\* Messages lose their newline in background_process().
AddClusterMsg ==
    /\ background = "message" /\ screen # "crashed"
    /\ AddTextAs("background", Cells(station.messages[taken + 1].line), view, TRUE)
    /\ taken' = taken + 1 /\ background' = "loop"
    /\ UNCHANGED <<station, screen, in_packetclient, link, stream, entry, lanspotflg,
                   cl_send_inhibit, made, cleared>>

HandleTlfSpot ==
    /\ Message("TLFSPOT")
    /\ lanspotflg' = TRUE /\ Enters("background") /\ background' = "spot"
    /\ UNCHANGED <<station, screen, in_packetclient, link, stream, text, view, entry,
                   cl_send_inhibit, taken, made, cleared>>

AddTlfSpot ==
    /\ background = "spot" /\ screen # "crashed"
    /\ AddText("background", Cells(station.messages[taken + 1].line), view)
    /\ taken' = taken + 1 /\ background' = "spotted"
    /\ UNCHANGED <<station, screen, in_packetclient, link, stream, entry, lanspotflg,
                   cl_send_inhibit, made, cleared>>

EndTlfSpot ==
    /\ background = "spotted" /\ screen # "crashed"
    /\ lanspotflg' = FALSE /\ background' = "loop"
    /\ UNCHANGED <<station, screen, end, in_packetclient, link, stream, text, view, entry,
                   cl_send_inhibit, taken, made, cleared>>

-----------------------------------------------------------------------------
(* The operator on the main screen.                                        *)

\* Ctrl-A: add_local_spot(), add_to_spots().
AddLocalSpot ==
    /\ screen = "loop" /\ background # "off" /\ made < station.spots
    /\ lanspotflg' = TRUE /\ Enters("screen") /\ screen' = "spot" /\ made' = made + 1
    /\ UNCHANGED <<station, background, in_packetclient, link, stream, text, view, entry,
                   cl_send_inhibit, taken, cleared>>

AddOwnSpot ==
    /\ screen = "spot"
    /\ AddText("screen", Ended(LocalSpot) \o <<NL>>, view)
    /\ screen' = "spotted"
    /\ UNCHANGED <<station, background, in_packetclient, link, stream, entry, lanspotflg,
                   cl_send_inhibit, taken, made, cleared>>

EndOwnSpot ==
    /\ screen = "spotted"
    /\ lanspotflg' = FALSE /\ screen' = "loop"
    /\ UNCHANGED <<station, background, end, in_packetclient, link, stream, text, view, entry,
                   cl_send_inhibit, taken, made, cleared>>

\* Ctrl-B: add_cluster_spot().  usputb() reports a failed write in a window
\* that is gone with the connection.
SendSpot ==
    /\ screen = "loop" /\ Is("telnet") /\ prsock = "stale"
    /\ screen' = "crashed"
    /\ UNCHANGED <<station, background, end, in_packetclient, link, stream, text, view, entry,
                   lanspotflg, cl_send_inhibit, taken, made, cleared>>

\* packet() first waits a second for the background thread.
Packet ==
    /\ screen = "loop" /\ initialized /\ background # "packet"
    /\ in_packetclient' = TRUE /\ screen' = "entering"
    /\ UNCHANGED <<station, background, end, link, stream, text, view, entry, lanspotflg,
                   cl_send_inhibit, taken, made, cleared>>

Back == background' = IF background = "off" THEN "loop" ELSE background

\* Mutant: half a line of the old connection stays.
InitPacket_Mutation(opens) ==
    /\ buffer' = buffer /\ view' = Editing /\ entry' = [entry EXCEPT !.line = ""]
    /\ initialized' = TRUE
    /\ port' = IF Is("tnc") THEN "short" ELSE port
    /\ prsock' = IF opens THEN "open" ELSE "none"
    /\ up' = opens /\ stream' = <<>>
    /\ spots' = IF opens THEN [spots EXCEPT !.line = NoSpots.line] ELSE spots
    /\ cleared' = IF opens THEN Len(entered) ELSE cleared

\* init_packet(): each time the name of the port loses its last character.
InitPacket(opens) ==
    /\ buffer' = <<>> /\ view' = Editing /\ entry' = [entry EXCEPT !.line = ""]
    /\ initialized' = TRUE
    /\ port' = IF Is("tnc") THEN "short" ELSE port
    /\ prsock' = IF opens THEN "open" ELSE "none"
    /\ up' = opens /\ stream' = <<>>
    /\ spots' = IF opens THEN [spots EXCEPT !.line = NoSpots.line] ELSE spots
    /\ cleared' = IF opens THEN Len(entered) ELSE cleared

\* startcli() may fail, open() of the shortened name does.
Connects == IF Is("tnc") THEN {FALSE} ELSE BOOLEAN

\* :RECONNECT, when nothing is being read.
Reconnect ==
    /\ screen = "loop" /\ station.loses /\ background # "packet"
    /\ \E opens \in Connects : InitPacket(opens)
    /\ in_packetclient' = TRUE /\ screen' = "entering"
    /\ UNCHANGED <<station, background, end, sent_login, said, log, added, entered, shared,
                   lanspotflg, cl_send_inhibit, taken, made>>

-----------------------------------------------------------------------------
(* The packet window.                                                      *)

Login == Is("telnet") /\ ~sent_login /\ station.login /\ prsock = "open"

\* The first text in the window is TLF's.
Greet ==
    /\ screen = "entering" /\ log = <<>> /\ ~Is("fifo")
    /\ Enters("screen") /\ screen' = "welcome"
    /\ UNCHANGED <<station, background, in_packetclient, link, stream, text, view, entry, lanspotflg,
                   cl_send_inhibit, taken, made, cleared>>

\* Mutant: in_packetclient is not reset on the way back.
LogIn_Mutation ==
    /\ screen = "welcome" /\ Login
    /\ AddText("screen", Welcome \o LoggedIn, view)
    /\ sent_login' = TRUE
    /\ screen' = "loop" /\ Back
    /\ UNCHANGED <<station, in_packetclient, initialized, prsock, port, said, up, stream, entry,
                   lanspotflg, cl_send_inhibit, taken, made, cleared>>

\* The login is sent and the window left at once.
LogIn ==
    /\ screen = "welcome" /\ Login
    /\ AddText("screen", Welcome \o LoggedIn, view)
    /\ sent_login' = TRUE
    /\ screen' = "loop" /\ in_packetclient' = FALSE /\ Back
    /\ UNCHANGED <<station, initialized, prsock, port, said, up, stream, entry, lanspotflg,
                   cl_send_inhibit, taken, made, cleared>>

\* resume_editing() brings back the text entry_text was last set to.
OpenWindow ==
    /\ \/ screen = "welcome" /\ ~Login /\ AddText("screen", Welcome, Editing)
       \/ screen = "entering" /\ log # <<>> /\ view' = Editing /\ UNCHANGED <<end, text>>
    /\ entry' = [entry EXCEPT !.line = entry.saved]
    /\ screen' = "window"
    /\ UNCHANGED <<station, background, in_packetclient, link, stream, lanspotflg,
                   cl_send_inhibit, taken, made, cleared>>

\* lastlog() needs a line.
OpenWithoutLines ==
    /\ screen = "entering" /\ Is("fifo") /\ log = <<>>
    /\ screen' = "crashed"
    /\ UNCHANGED <<station, background, end, in_packetclient, link, stream, text, view, entry,
                   lanspotflg, cl_send_inhibit, taken, made, cleared>>

ReadWindow ==
    /\ screen = "window" /\ prsock = "open" /\ stream # <<>>
    /\ Enters("screen") /\ screen' = "reading"
    /\ UNCHANGED <<station, background, in_packetclient, link, stream, text, view, entry, lanspotflg,
                   cl_send_inhibit, taken, made, cleared>>

AddRead ==
    /\ screen = "reading"
    /\ Read("screen", view)
    /\ screen' = "window"
    /\ UNCHANGED <<station, background, in_packetclient, link, entry, lanspotflg, cl_send_inhibit,
                   taken, made, cleared>>

\* Without a connection the window closes; in_packetclient stays set.
WindowFails ==
    /\ screen = "window" /\ Is("telnet") /\ (Lost \/ prsock = "none")
    /\ CleanupTelnet
    /\ screen' = "loop" /\ Back
    /\ UNCHANGED <<station, end, in_packetclient, port, sent_login, said, up, stream, text, view,
                   entry, lanspotflg, cl_send_inhibit, taken, made, cleared>>

Viewing == screen = "window" /\ view.state = "VIEWING"
Typing == screen = "window" /\ view.state = "EDITING"
Look(v) == view' = [v EXCEPT !.found = TRUE]
Lines == Len(log)

KeepsText == UNCHANGED <<station, place, link, stream, text, lanspotflg, cl_send_inhibit, taken,
                         made, cleared>>

\* edit_line() while a part of the log is viewed.
ScrollView ==
    /\ Viewing /\ station.keys
    /\ \/ Look(PageUp(view, Lines, ScrollRows))
       \/ Look(PageDown(view, Lines, ScrollRows))
       \/ Look(PageUp(view, Lines, 1))
       \/ Look(PageDown(view, Lines, 1))
       \/ Look(ViewTop(view, Lines))
       \/ Look(ViewBottom(view, Lines))
    /\ UNCHANGED entry
    /\ KeepsText

\* resume_editing(): Enter while viewing, or a new size of the terminal.
ResumeEditing ==
    /\ screen = "window" /\ station.keys
    /\ view' = Editing /\ entry' = [entry EXCEPT !.line = entry.saved]
    /\ KeepsText

\* viewlog(): not with less than a screen.
ViewLog ==
    /\ Typing /\ station.keys
    /\ LET v == WalkUp([view EXCEPT !.attop = FALSE], Lines)
       IN  IF v.found
           THEN /\ Look(PageUp(v, Lines, ScrollRows))
                /\ entry' = [line |-> "", saved |-> entry.line]
           ELSE /\ Look([v EXCEPT !.at = 0, !.state = "EDITING"])
                /\ UNCHANGED entry
    /\ KeepsText

TypeCommand ==
    /\ Typing /\ station.commands > 0
    /\ entry' = [entry EXCEPT !.line = "command"]
    /\ UNCHANGED view
    /\ KeepsText

\* start_editing(): the kill key.
Kill ==
    /\ Typing /\ entry.line # ""
    /\ entry' = [entry EXCEPT !.line = ""]
    /\ view' = [view EXCEPT !.at = 0]
    /\ KeepsText

\* Enter: the line is shown and sent to the cluster.
SendLine ==
    /\ Typing /\ made < station.commands
    /\ Enters("screen") /\ screen' = "sending" /\ made' = made + 1
    /\ UNCHANGED <<station, background, in_packetclient, link, stream, text, view, entry, lanspotflg,
                   cl_send_inhibit, taken, cleared>>

AddLine ==
    /\ screen = "sending"
    /\ AddText("screen", IF entry.line = "" THEN <<NL>> ELSE Ended(Command), view)
    /\ entry' = [entry EXCEPT !.line = ""]
    /\ screen' = "window"
    /\ UNCHANGED <<station, background, in_packetclient, link, stream, lanspotflg, cl_send_inhibit,
                   taken, made, cleared>>

\* The line ":".
Leave ==
    /\ Typing /\ entry.line = ""
    /\ screen' = "loop" /\ in_packetclient' = FALSE /\ Back
    /\ UNCHANGED <<station, end, link, stream, text, view, entry, lanspotflg, cl_send_inhibit, taken,
                   made, cleared>>

-----------------------------------------------------------------------------
(* The cluster.                                                            *)

Says ==
    /\ screen # "crashed" /\ up /\ said < Len(station.lines)
    /\ said' = said + 1
    /\ stream' = stream \o FromCluster(station.lines[said + 1])
    /\ UNCHANGED <<station, place, initialized, prsock, port, sent_login, up, text, view, entry,
                   lanspotflg, cl_send_inhibit, taken, made, cleared>>

Closes ==
    /\ screen # "crashed" /\ Is("telnet") /\ up /\ station.loses
    /\ up' = FALSE
    /\ UNCHANGED <<station, place, initialized, prsock, port, sent_login, said, stream, text, view,
                   entry, lanspotflg, cl_send_inhibit, taken, made, cleared>>

Reading == ReceivePacket \/ ReadWindow
Opening == Greet \/ LogIn \/ OpenWindow
Adding == AddPacket \/ AddRead

ClusterNext ==
    \/ Reading \/ Adding \/ ReceiveFails
    \/ HandleClusterMsg \/ AddClusterMsg \/ HandleTlfSpot \/ AddTlfSpot \/ EndTlfSpot
    \/ AddLocalSpot \/ AddOwnSpot \/ EndOwnSpot \/ SendSpot
    \/ Packet \/ Reconnect
    \/ Opening \/ OpenWithoutLines \/ WindowFails
    \/ ScrollView \/ ResumeEditing \/ ViewLog \/ TypeCommand \/ Kill \/ SendLine \/ AddLine \/ Leave
    \/ Says \/ Closes

\* The background thread and the window poll the connection many times a
\* second; nobody opens and closes the window faster for ever.
ClusterFairness == SF_clusterVars(Reading) /\ WF_clusterVars(Adding) /\ WF_clusterVars(Opening)

ClusterSpec == ClusterInit /\ [][ClusterNext]_clusterVars /\ ClusterFairness

-----------------------------------------------------------------------------
(* What should hold.                                                       *)

\* Only the cluster gives text, no longer than a line of the window, and none of
\* it is for this station.
OneSource == station.messages = <<>> /\ station.spots = 0 /\ station.commands = 0
             /\ \A i \in DOMAIN station.lines : /\ station.lines[i].kind \notin {"talk", "private"}
                                               /\ station.lines[i].length < Columns

Given == Picked(added, {i \in DOMAIN added : First(added[i]).kind # "tlf"})

\* However the text of the cluster is cut into fragments, whoever reads them
\* and whatever is lost with a connection: each line the window and the
\* bandmap get is one the cluster sent, and the lines come in its order
\* (addtext(), receive_packet() and packet()).
LinesWhole ==
    OneSource =>
        /\ \A i \in DOMAIN Given : \E j \in 1..said : Given[i] = Cells(station.lines[j])
        /\ \A i, j \in DOMAIN Given : i < j => First(Given[i]).nr < First(Given[j]).nr

\* The table loses the entry that fills it.
Kept(i) == ~(i >= MaxSpots /\ (i - MaxSpots) % DropSpots = 0)

\* Of the entries since the connection was made that pass the filter, the
\* cluster window shows the last ones, in order and without a gap; only those
\* that filled the table are missing (addlog() and getclusterinfo()).
ClusterShowsNewest ==
    \A filter \in 0..3 :
        LET wanted == Picked([i \in 1..Len(entered) |-> i],
                             {i \in cleared + 1..Len(entered) : Kept(i) /\ Selected(entered[i], filter)})
            shown  == Shown(spots, filter)
            recent == {i \in ToSet(wanted) : i > Len(entered) - (MaxSpots - DropSpots - 1)}
        IN  /\ Len(shown) <= Len(wanted)
            /\ Len(shown) < SpotRows => Len(shown) >= Cardinality(recent)
            /\ shown = [i \in 1..Len(shown) |-> entered[wanted[Len(wanted) - Len(shown) + i]]]

\* Every line the cluster sent is shown in the end and, in a LAN this station
\* feeds and unless it starts with a blank, passed on, whether the packet window
\* is open or not (receive_packet(), packet() and addtext()).  With a FIFO the
\* program ends before.
LineShown ==
    \A i \in 1..3 :
        (OneSource /\ ~station.loses /\ ~Is("fifo") /\ said >= i) ~>
            /\ i \in DOMAIN station.lines
            /\ Cells(station.lines[i]) \in ToSet(added)
            /\ station.lan /\ station.lines[i].kind # "blank"
                  => Cells(station.lines[i]) \in ToSet(shared)

\* A spot another station broadcasts is not mixed with the text around it:
\* "Add a spot to bandmap and broadcast it on the local network" (tlf.1.in,
\* background_process() and addtext()).
SpotsWhole ==
    \A i \in DOMAIN added, j \in 1..taken :
        LET message == station.messages[j]
        IN  (message.kind = "TLFSPOT" /\ \E k \in DOMAIN added[i] : added[i][k][1] = message.line)
                => added[i] = Cells(message.line)
=============================================================================
