--------------------------------- MODULE Keyer ---------------------------------
(***************************************************************************)
(* Text on its way to the keyer: the main thread appends it to a buffer,   *)
(* the background thread empties the buffer once per loop, and ESC stops   *)
(* the device (write_keyer.c, stoptx.c, netkeyer.c, background_process.c). *)
(* Fldigi is a program of its own, which is called step by step           *)
(* (fldigixmlrpc.c).                                                       *)
(*                                                                         *)
(* Text is a sequence of pieces, numbered in the order of writing.         *)
(***************************************************************************)
EXTENDS Naturals, Sequences

CONSTANTS Setups,     \* records: device, lengths of messages, QTC blocks, changes of
                      \* mode, failures, :FLDIGI, and pieces: a bound on the text
          BufferSize, \* pieces wkeyerbuffer[] holds (400 bytes)
          LineSize,   \* pieces one datagram holds (80 bytes)
          MaxErrors,  \* calls refused after an error before Fldigi is given up (10)
          MaxPieces,  \* the largest of these bounds
          MaxStops    \* bound on presses of ESC

Setup == [device : {"hamlib", "net", "mfj", "fldigi"}, lengths : SUBSET Nat, blocks : BOOLEAN,
          modes : BOOLEAN, fails : BOOLEAN, toggles : BOOLEAN, pieces : 0..MaxPieces]

ASSUME SizeAssumption ==
    /\ Setups \subseteq Setup
    /\ BufferSize \in Nat /\ LineSize \in Nat /\ MaxErrors \in Nat
    /\ MaxPieces \in Nat /\ MaxStops \in Nat

Threads == {"main", "background"}

VARIABLES
    setup,
    trxmode,      \* "CW" (or digital) or "SSB"
    buffer,       \* wkeyerbuffer[]
    dataReady,    \* data_ready
    tosend,       \* per thread: what it has copied out of the buffer
    at,           \* per thread: where it is
    pause,        \* pause_backgrnd_process
    written,      \* number of the last piece (history)
    keyed,        \* what the device got (history)
    gone,         \* pieces given up: stopped, cut off or not delivered (history)
    stops,        \* presses of ESC (bound)
    fldigi        \* use_fldigi, connerr, connerrcnt, and Fldigi itself: it
                  \* transmits, and the text in its window; lost: a call
                  \* failed or was refused (history)

vars == <<setup, trxmode, buffer, dataReady, tosend, at, pause, written, keyed, gone, stops,
          fldigi>>

Places == {"idle", "take", "send", "rx", "clear", "add", "start",
           "flush", "pausing", "paused", "rest"}

Pieces == 1..MaxPieces

Rx == 0      \* ^r in the text: Fldigi goes back to reception

\* Every variable holds a value of its type.
TypeOK ==
    /\ setup \in Setups
    /\ trxmode \in {"CW", "SSB"}
    /\ buffer \in Seq(Pieces) /\ dataReady \in BOOLEAN
    /\ tosend \in [Threads -> Seq(Pieces)]
    /\ at \in [Threads -> Places]
    /\ pause \in BOOLEAN
    /\ written \in 0..MaxPieces
    /\ keyed \in Seq(Pieces)
    /\ gone \subseteq Pieces
    /\ stops \in 0..MaxStops
    /\ fldigi \in [on : BOOLEAN, err : BOOLEAN, count : 0..MaxErrors, lost : BOOLEAN,
                   tx : BOOLEAN, text : Seq(Pieces \cup {Rx})]

Init ==
    /\ setup \in Setups
    /\ trxmode = "CW" /\ buffer = <<>> /\ dataReady = FALSE
    /\ tosend = [t \in Threads |-> <<>>]
    /\ at = [t \in Threads |-> "idle"]
    /\ pause = FALSE /\ written = 0 /\ keyed = <<>> /\ gone = {}
    /\ stops = 0
    /\ fldigi = [on |-> TRUE, err |-> FALSE, count |-> 0, lost |-> FALSE,
                 tx |-> FALSE, text |-> <<>>]

-----------------------------------------------------------------------------
Least(i, j) == IF i < j THEN i ELSE j

First(s, n) == SubSeq(s, 1, Least(n, Len(s)))

After(s, n) == SubSeq(s, n + 1, Len(s))

SetOf(s) == {s[i] : i \in 1..Len(s)}

New(n) == [i \in 1..n |-> written + i]

GoTo(t, place) == at' = [at EXCEPT ![t] = place]

\* keyer_append(): what does not fit is cut off.
\* Mutant: only text for an empty buffer is announced.
Append_Mutation(n) ==
    /\ buffer' = First(buffer \o New(n), BufferSize)
    /\ gone' = gone \cup SetOf(After(buffer \o New(n), BufferSize))
    /\ dataReady' = (buffer = <<>>)
    /\ written' = written + n

AppendText(n) ==
    /\ buffer' = First(buffer \o New(n), BufferSize)
    /\ gone' = gone \cup SetOf(After(buffer \o New(n), BufferSize))
    /\ dataReady' = TRUE
    /\ written' = written + n

-----------------------------------------------------------------------------
(* The main thread.                                                        *)

\* sendbuf(): a message, or a character of the keyer window.
Write ==
    /\ at["main"] = "idle" /\ trxmode = "CW"
    /\ \E n \in setup.lengths : written + n <= setup.pieces /\ AppendText(n)
    /\ UNCHANGED <<setup, trxmode, tosend, at, pause, keyed, stops, fldigi>>

\* A block of QTCs in RTTY is also written to the device at once.
WriteBlock ==
    /\ at["main"] = "idle" /\ trxmode = "CW" /\ setup.blocks
    /\ \E n \in setup.lengths : written + n <= setup.pieces /\ AppendText(n)
    /\ GoTo("main", "take")
    /\ UNCHANGED <<setup, trxmode, tosend, pause, keyed, stops, fldigi>>

\* Where ESC leads: out of the exchange field, or to cleanup().
Stopped == {"idle", "flush"}

CallsFldigi == setup.device = "fldigi" /\ trxmode = "CW"

\* ESC stops the device as soon as the key is read.  A keyer that does not
\* take the command switches CW off.
Stop ==
    /\ at["main"] = "idle" /\ stops < MaxStops /\ stops' = stops + 1
    /\ \/ UNCHANGED trxmode
       \/ setup.fails /\ setup.device = "net" /\ trxmode = "CW" /\ trxmode' = "SSB"
    /\ \E place \in IF CallsFldigi THEN {"rx"} ELSE Stopped : GoTo("main", place)
    /\ UNCHANGED <<setup, buffer, dataReady, tosend, pause, written, keyed, gone, fldigi>>

\* cleanup() follows in the call field: keyer_flush().
Flush ==
    /\ at["main"] = "flush"
    /\ gone' = gone \cup SetOf(buffer)
    /\ buffer' = <<>> /\ dataReady' = FALSE
    /\ GoTo("main", "idle")
    /\ UNCHANGED <<setup, trxmode, tosend, pause, written, keyed, stops, fldigi>>

ChangeMode ==
    /\ at["main"] = "idle" /\ setup.modes
    /\ trxmode' = IF trxmode = "CW" THEN "SSB" ELSE "CW"
    /\ UNCHANGED <<setup, buffer, dataReady, tosend, at, pause, written, keyed, gone, stops, fldigi>>

\* Editing and setting up stop the background thread.
StopBackground ==
    /\ at["main"] = "idle" /\ pause' = TRUE /\ GoTo("main", "pausing")
    /\ UNCHANGED <<setup, trxmode, buffer, dataReady, tosend, written, keyed, gone, stops, fldigi>>

\* The waiting thread is woken, and goes on even if the next pause is asked
\* for before it runs.
ResumeBackground ==
    /\ at["main"] = "paused" /\ pause' = FALSE
    /\ at' = [main |-> "idle", background |-> "take"]
    /\ UNCHANGED <<setup, trxmode, buffer, dataReady, tosend, written, keyed, gone, stops, fldigi>>

-----------------------------------------------------------------------------
(* write_keyer(), in either thread.                                        *)

Done(t) == IF t = "main" THEN "idle" ELSE "rest"

\* The text is copied under the mutex ...
\* Mutant: a full line stays in the buffer.
Take_Mutation(t) ==
    /\ at[t] = "take"
    /\ IF trxmode = "CW" /\ dataReady /\ buffer # <<>>
       THEN /\ tosend' = [tosend EXCEPT ![t] = buffer]
            /\ buffer' = (IF Len(buffer) > LineSize THEN buffer ELSE <<>>)
            /\ GoTo(t, "send")
       ELSE GoTo(t, Done(t)) /\ UNCHANGED <<tosend, buffer>>
    /\ dataReady' = (IF trxmode = "CW" THEN FALSE ELSE dataReady)
    /\ UNCHANGED <<setup, trxmode, pause, written, keyed, gone, stops, fldigi>>

Take(t) ==
    /\ at[t] = "take"
    /\ IF trxmode = "CW" /\ dataReady /\ buffer # <<>>
       THEN /\ tosend' = [tosend EXCEPT ![t] = buffer]
            /\ buffer' = <<>>
            /\ GoTo(t, "send")
       ELSE GoTo(t, Done(t)) /\ UNCHANGED <<tosend, buffer>>
    /\ dataReady' = (IF trxmode = "CW" THEN FALSE ELSE dataReady)
    /\ UNCHANGED <<setup, trxmode, pause, written, keyed, gone, stops, fldigi>>

\* netkeyer(): one line goes to cwdaemon.
Datagram(s) == First(s, LineSize)

\* ... and sent after it: to cwdaemon in one datagram, to the TNC through a
\* file, to the radio by a call that may fail.
Send(t) ==
    /\ at[t] = "send" /\ setup.device # "fldigi"
    /\ \E sent \in {IF setup.device = "net" THEN Datagram(tosend[t]) ELSE tosend[t]}
                   \cup (IF setup.fails THEN {<<>>} ELSE {}) :
           /\ keyed' = keyed \o sent
           /\ gone' = gone \cup (SetOf(tosend[t]) \ SetOf(sent))
           /\ trxmode' = IF sent = <<>> /\ setup.device = "mfj" THEN "SSB" ELSE trxmode
    /\ tosend' = [tosend EXCEPT ![t] = <<>>]
    /\ GoTo(t, Done(t))
    /\ UNCHANGED <<setup, buffer, dataReady, pause, written, stops, fldigi>>

-----------------------------------------------------------------------------
(* Fldigi, called by either thread: fldigi_xmlrpc_query().                 *)

Reachable == fldigi.on /\ ~fldigi.err

\* An error is remembered; the calls refused after it are counted, and at
\* last Fldigi is switched off.
Counted ==
    IF ~(fldigi.err /\ fldigi.on) THEN [fldigi EXCEPT !.count = 0]
    ELSE IF fldigi.count = MaxErrors THEN [fldigi EXCEPT !.on = FALSE]
    ELSE [fldigi EXCEPT !.count = @ + 1]

\* What may come of a call: a failed one may have had its effect or not.
Failed(f)   == [ok |-> FALSE, now |-> [f EXCEPT !.err = TRUE, !.lost = TRUE]]
Query(done) ==
    IF ~Reachable THEN {[ok |-> FALSE, now |-> [Counted EXCEPT !.lost = TRUE]]}
    ELSE {[ok |-> TRUE, now |-> done]}
         \cup (IF setup.fails THEN {Failed(Counted), Failed(done)} ELSE {})

GiveUp(t) == gone' = gone \cup SetOf(tosend[t]) /\ tosend' = [tosend EXCEPT ![t] = <<>>]

\* fldigi_send_text(): cancel_tx() asks whether the last message goes on ...
AskFldigi(t) ==
    /\ at[t] = "send" /\ setup.device = "fldigi"
    /\ \E r \in Query(Counted) :
        /\ fldigi' = r.now
        /\ IF r.ok THEN /\ GoTo(t, IF fldigi.tx THEN "rx" ELSE "add")
                        /\ UNCHANGED <<tosend, gone>>
                   ELSE GoTo(t, Done(t)) /\ GiveUp(t)
    /\ UNCHANGED <<setup, trxmode, buffer, dataReady, pause, written, keyed, stops>>

\* ... and stops it, as ESC does: fldigi_to_rx().
StopFldigi(t) ==
    /\ at[t] = "rx"
    /\ \E r \in Query([Counted EXCEPT !.tx = FALSE]) : fldigi' = r.now
    /\ GoTo(t, "clear")
    /\ UNCHANGED <<setup, trxmode, buffer, dataReady, tosend, pause, written, keyed, gone, stops>>

ClearFldigi(t) ==
    /\ at[t] = "clear"
    /\ \E r \in Query([Counted EXCEPT !.text = <<>>]) :
        /\ fldigi' = r.now
        /\ gone' = gone \cup (SetOf(fldigi.text) \ (SetOf(r.now.text) \cup {Rx}))
    /\ \E place \in IF tosend[t] = <<>> THEN Stopped ELSE {"add"} : GoTo(t, place)
    /\ UNCHANGED <<setup, trxmode, buffer, dataReady, tosend, pause, written, keyed, stops>>

\* The message goes into the window, with the way back to reception ...
AddFldigi(t) ==
    /\ at[t] = "add"
    /\ \E r \in Query([Counted EXCEPT !.text = Append(@ \o tosend[t], Rx)]) :
        /\ fldigi' = r.now
        /\ gone' = IF r.ok THEN gone ELSE gone \cup SetOf(tosend[t])
        /\ GoTo(t, IF r.ok THEN "start" ELSE Done(t))
    /\ tosend' = [tosend EXCEPT ![t] = <<>>]
    /\ UNCHANGED <<setup, trxmode, buffer, dataReady, pause, written, keyed, stops>>

\* ... and transmission starts.
StartFldigi(t) ==
    /\ at[t] = "start"
    /\ \E r \in Query([Counted EXCEPT !.tx = TRUE]) : fldigi' = r.now
    /\ GoTo(t, Done(t))
    /\ UNCHANGED <<setup, trxmode, buffer, dataReady, tosend, pause, written, keyed, gone, stops>>

Fldigi(t) == AskFldigi(t) \/ StopFldigi(t) \/ ClearFldigi(t) \/ AddFldigi(t) \/ StartFldigi(t)

\* Every tenth round the background thread asks Fldigi for other things.
PollFldigi ==
    /\ at["background"] = "rest" /\ setup.device = "fldigi" /\ fldigi.on
    /\ \E r \in Query(Counted) : fldigi' = r.now
    /\ GoTo("background", "idle")
    /\ UNCHANGED <<setup, trxmode, buffer, dataReady, tosend, pause, written, keyed, gone, stops>>

\* :FLDIGI
ToggleFldigi ==
    /\ at["main"] = "idle" /\ setup.device = "fldigi" /\ setup.toggles
    /\ fldigi' = [fldigi EXCEPT !.on = ~@, !.err = FALSE]
    /\ UNCHANGED <<setup, trxmode, buffer, dataReady, tosend, at, pause, written, keyed, gone,
                   stops>>

\* Fldigi sends what is in its window, until ^r.
Transmit ==
    /\ fldigi.tx /\ fldigi.text # <<>>
    /\ LET piece == Head(fldigi.text)
       IN  /\ fldigi' = [fldigi EXCEPT !.text = Tail(@), !.tx = piece # Rx]
           /\ keyed' = IF piece = Rx THEN keyed ELSE Append(keyed, piece)
    /\ UNCHANGED <<setup, trxmode, buffer, dataReady, tosend, at, pause, written, gone, stops>>

-----------------------------------------------------------------------------
(* The background thread.                                                  *)

\* It stops at the head of its loop, and the thread that asked goes on.
Loop ==
    /\ at["background"] = "idle"
    /\ IF pause
       THEN at' = [main |-> "paused", background |-> "paused"]
       ELSE GoTo("background", "take")
    /\ UNCHANGED <<setup, trxmode, buffer, dataReady, tosend, pause, written, keyed, gone, stops,
                   fldigi>>

\* A pause asked for meanwhile leaves the text where it is.
Skip ==
    /\ at["background"] = "take" /\ pause
    /\ GoTo("background", "rest")
    /\ UNCHANGED <<setup, trxmode, buffer, dataReady, tosend, pause, written, keyed, gone, stops,
                   fldigi>>

\* LAN and radio, and round again.
Rest ==
    /\ at["background"] = "rest" /\ GoTo("background", "idle")
    /\ UNCHANGED <<setup, trxmode, buffer, dataReady, tosend, pause, written, keyed, gone, stops,
                   fldigi>>

Background == Loop \/ Skip \/ Take("background") \/ Send("background") \/ Fldigi("background")
    \/ PollFldigi \/ Rest

Finish == Flush \/ ResumeBackground \/ Take("main") \/ Send("main") \/ Fldigi("main")

Main == Write \/ WriteBlock \/ Stop \/ ChangeMode \/ StopBackground \/ ToggleFldigi \/ Finish

Next == Main \/ Background \/ Transmit

\* The background thread runs, and the main thread ends what it has begun:
\* a menu is left some time, and nobody opens one in each of the ten
\* milliseconds between two looks at the buffer.  Fldigi transmits.
Spec == Init /\ [][Next]_vars /\ WF_vars(Background) /\ SF_vars(Take("background"))
    /\ WF_vars(Finish) /\ WF_vars(Transmit)

-----------------------------------------------------------------------------
(* Properties.                                                             *)

\* What is written by one thread and sent by one reaches the device in the
\* order of writing and once, whatever stops, pauses and refills come in
\* between.
InOrder == ~setup.blocks => \A i, j \in 1..Len(keyed) : i < j => keyed[i] < keyed[j]

\* Every piece of text is keyed, given up or waits for CW: none stays in the
\* buffer for good, although the flag that announces it is reset at each
\* loop, by a flush and in other modes.  Nor in the window of Fldigi, whoever
\* stops and clears it meanwhile, unless a call of Fldigi failed or
\* was refused, or two threads wrote to it.
Delivered ==
    \A p \in Pieces :
        written >= p ~>
            \/ p \in SetOf(keyed) \cup gone \/ trxmode = "SSB" \/ fldigi.lost
            \/ setup.blocks /\ p \in SetOf(fldigi.text)

=============================================================================
