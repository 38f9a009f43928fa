------------------------------ MODULE RigControl ------------------------------
(***************************************************************************)
(* Frequency, band and mode of the radio, and its PTT.                     *)
(*                                                                         *)
(* The main thread leaves one request at a time in outfreq.  The           *)
(* background thread takes it in gettxinfo(), or polls the radio and       *)
(* writes what it finds into globals that the main thread writes, too.     *)
(* The voice keyer asks for PTT by bits in rigptt.  None of the globals is *)
(* locked: every statement that reads or writes them is a step.            *)
(***************************************************************************)
EXTENDS Naturals

CONSTANTS Setups,     \* station configurations to consider
          NBands,     \* bands are 0, which is 40 m, .. NBands - 1; NBands is out of band
          Freqs,      \* frequencies
          Band,       \* freq2bandindex()
          LowFreqs,   \* frequencies below 14 MHz
          BandStart   \* bandfrequency[] at start

NoFreq     == "0"                         \* freq 0.0: the radio does not answer
OOB        == NBands
TrxModes   == {"CW", "SSB", "DIGI"}
RigModes   == {"CW", "LSB", "USB"}
ModeRequest == [CW |-> "SETCW", SSB |-> "SETSSB", DIGI |-> "SETDIGI"]
Refused    == "100 Hz"                    \* a frequency no radio takes
NoRequest  == "none"

\* modeSync is RIG_MODE_SYNC, fldigi a station with Fldigi as keyer, bandOutput
\* one with an antenna switch.  bandKeys, qsy, modes, dial, knob, voice and rit say
\* what the operator does, at most maxWishes times; the radio fails to answer
\* at most maxFails times.  longMessages: a voice message never ends before
\* the background thread has called gettxinfo().
Setup ==
    [modeSync : BOOLEAN, fldigi : BOOLEAN, bandOutput : BOOLEAN, bandKeys : BOOLEAN,
     qsy : BOOLEAN, dial : BOOLEAN, modes : SUBSET TrxModes, knob : BOOLEAN,
     voice : BOOLEAN, rit : BOOLEAN, longMessages : BOOLEAN,
     maxWishes : Nat, maxFails : Nat]

ASSUME RigAssumption ==
    /\ Setups \subseteq Setup
    /\ NBands \in Nat \ {0}
    /\ Band \in [Freqs -> 0..NBands]
    /\ LowFreqs \subseteq Freqs
    /\ BandStart \in [0..NBands -> Freqs \cup {NoFreq}]
    /\ Freqs \cap {NoFreq, NoRequest, Refused, "SETCW", "SETSSB", "SETDIGI", "RESETRIT"} = {}

VARIABLES
    setup,
    trxmode, rigmode, freq, bandinx,   \* globals of the same names
    oldbandinx,                        \* static of poll_rig_state()
    bandfrequency, outfreq, rigptt,    \* globals
    rig,                               \* the radio: its VFO, mode and PTT
    operation,                         \* the main thread inside an operation
    poller,                            \* the background thread in gettxinfo()
    antenna,                           \* band of the antenna switch, and the
                                       \* one the main thread will send to it
    vk,                                \* the thread that plays a message
    passes,                            \* gettxinfo() calls since it started
    wishes, fails                      \* bounds: what has happened so far

rigVars == <<setup, trxmode, rigmode, freq, bandinx, oldbandinx, bandfrequency, outfreq,
             rigptt, rig, antenna, operation, poller, vk, passes, wishes, fails>>

SsbMode(f) == IF f \in LowFreqs \cup {NoFreq} THEN "LSB" ELSE "USB"

\* set_outfreq(): a request that is not allowed replaces the pending one by
\* none.
Request(r) ==
    outfreq' = IF r = NoFreq \/ (~setup.modeSync /\ r \in {"SETCW", "SETSSB", "SETDIGI"})
               THEN NoRequest ELSE r

RigInit ==
    /\ setup \in Setups
    /\ trxmode \in TrxModes /\ rigmode = "none" /\ freq = NoFreq
    /\ bandinx = 0 /\ oldbandinx = NBands + 1
    /\ bandfrequency = BandStart
    /\ outfreq = IF setup.modeSync THEN ModeRequest[trxmode] ELSE NoRequest
    /\ rigptt = {"USE"}
    /\ rig \in [freq : Freqs, mode : RigModes, ptt : {FALSE}]
    /\ antenna = [set |-> OOB, next |-> OOB]
    /\ operation = "idle"
    /\ poller = [pc |-> "idle", freq |-> NoFreq, arg |-> NoRequest]
    /\ vk = "idle" /\ passes = 0
    /\ wishes = 0 /\ fails = 0

-----------------------------------------------------------------------------
(* The operator.                                                           *)

Wish == wishes < setup.maxWishes /\ wishes' = wishes + 1

\* After a request, the main thread sends the band to the antenna switch.
Outputs(b) ==
    IF setup.bandOutput
    THEN antenna' = [antenna EXCEPT !.next = b] /\ operation' = "antenna"
    ELSE antenna' = antenna /\ operation' = "idle"

SendBandswitch ==
    /\ operation = "antenna"
    /\ antenna' = [antenna EXCEPT !.set = antenna.next]
    /\ operation' = "idle"
    /\ UNCHANGED <<setup, trxmode, rigmode, freq, bandinx, oldbandinx, bandfrequency,
                   outfreq, rigptt, rig, poller, vk, passes, wishes, fails>>

\* sendqrg(), grab_call(), memory_recall(): a frequency is requested.
Qsy ==
    /\ setup.qsy /\ operation = "idle" /\ Wish
    /\ \E f \in Freqs : Request(f) /\ Outputs(Band[f])
    /\ UNCHANGED <<setup, trxmode, rigmode, freq, bandinx, oldbandinx, bandfrequency,
                   rigptt, rig, poller, vk, passes, fails>>

\* A step away from freq, which may be out of date or unknown.
Step == IF freq = NoFreq THEN Request(Refused) ELSE \E f \in Freqs \ {freq} : Request(f)

\* Ctrl-F, change_freq(): a key counts when the last request is taken.
ChangeFreq ==
    /\ setup.dial /\ operation = "idle" /\ Wish
    /\ outfreq = NoRequest
    /\ Step
    /\ UNCHANGED <<setup, antenna, trxmode, rigmode, freq, bandinx, oldbandinx, bandfrequency,
                   rigptt, rig, operation, poller, vk, passes, fails>>

\* fldigi_auto_qsy(): the carrier is moved back, and the radio after it.
AutoQsy ==
    /\ setup.fldigi /\ poller.pc = "idle" /\ Wish
    /\ Step
    /\ UNCHANGED <<setup, antenna, trxmode, rigmode, freq, bandinx, oldbandinx, bandfrequency,
                   rigptt, rig, operation, poller, vk, passes, fails>>

\* set_trxmode() sets the mode first and then asks the radio for it.
SetTrxmode ==
    /\ operation = "idle" /\ Wish
    /\ trxmode' \in setup.modes
    /\ operation' = "mode"
    /\ UNCHANGED <<setup, antenna, rigmode, freq, bandinx, oldbandinx, bandfrequency, outfreq,
                   rigptt, rig, poller, vk, passes, fails>>

RequestMode ==
    /\ operation = "mode"
    /\ Request(ModeRequest[trxmode])
    /\ operation' = "idle"
    /\ UNCHANGED <<setup, antenna, trxmode, rigmode, freq, bandinx, oldbandinx, bandfrequency,
                   rigptt, rig, poller, vk, passes, wishes, fails>>

\* handle_bandswitch(): next_band() changes bandinx, then the frequency of
\* that band is requested.
NextBand ==
    /\ setup.bandKeys /\ operation = "idle" /\ Wish
    /\ bandinx' = IF bandinx + 1 >= OOB THEN 0 ELSE bandinx + 1
    /\ operation' = "band"
    /\ UNCHANGED <<setup, antenna, trxmode, rigmode, freq, oldbandinx, bandfrequency, outfreq,
                   rigptt, rig, poller, vk, passes, fails>>

RequestBand ==
    /\ operation = "band"
    /\ Request(bandfrequency[bandinx])
    /\ Outputs(IF bandfrequency[bandinx] = NoFreq THEN bandinx ELSE Band[bandfrequency[bandinx]])
    /\ UNCHANGED <<setup, trxmode, rigmode, freq, bandinx, oldbandinx, bandfrequency,
                   rigptt, rig, poller, vk, passes, wishes, fails>>

\* log_to_disk() clears the RIT after every QSO, of this node and of others.
ClearRit ==
    /\ setup.rit /\ (operation = "idle" \/ poller.pc = "idle") /\ Wish
    /\ Request("RESETRIT")
    /\ UNCHANGED <<setup, antenna, trxmode, rigmode, freq, bandinx, oldbandinx, bandfrequency,
                   rigptt, rig, operation, poller, vk, passes, fails>>

\* Somebody turns the knob or presses a mode button of the radio.
TurnKnob ==
    /\ setup.knob /\ Wish
    /\ \/ \E f \in Freqs : rig' = [rig EXCEPT !.freq = f]
       \/ \E m \in RigModes : rig' = [rig EXCEPT !.mode = m]
    /\ UNCHANGED <<setup, antenna, trxmode, rigmode, freq, bandinx, oldbandinx, bandfrequency,
                   outfreq, rigptt, operation, poller, vk, passes, fails>>

-----------------------------------------------------------------------------
(* The voice keyer: play_thread().                                         *)

\* Mutant: PTT is asked for whatever its state.
StartMessage_Anyway ==
    /\ setup.voice /\ vk = "idle" /\ Wish
    /\ rigptt' = rigptt \cup {"ON"}
    /\ vk' = "playing" /\ passes' = 0
    /\ UNCHANGED <<setup, antenna, trxmode, rigmode, freq, bandinx, oldbandinx, bandfrequency,
                   outfreq, rig, operation, poller, fails>>

\* PTT by CAT if nothing else is going on, by the network keyer otherwise.
StartMessage ==
    /\ setup.voice /\ vk = "idle" /\ Wish
    /\ rigptt' = IF rigptt = {"USE"} THEN rigptt \cup {"ON"} ELSE rigptt
    /\ vk' = "playing" /\ passes' = 0
    /\ UNCHANGED <<setup, antenna, trxmode, rigmode, freq, bandinx, oldbandinx, bandfrequency,
                   outfreq, rig, operation, poller, fails>>

\* Mutant: PTT is never released.
EndMessage_Keyed ==
    /\ vk = "playing" /\ (setup.longMessages => passes = 2)
    /\ vk' = "idle"
    /\ UNCHANGED <<setup, antenna, trxmode, rigmode, freq, bandinx, oldbandinx, bandfrequency,
                   outfreq, rigptt, rig, operation, poller, passes, wishes, fails>>

EndMessage ==
    /\ vk = "playing" /\ (setup.longMessages => passes = 2)
    /\ rigptt' = IF rigptt = {"USE", "ACTIVE"} THEN rigptt \cup {"OFF"} ELSE rigptt
    /\ vk' = "idle"
    /\ UNCHANGED <<setup, antenna, trxmode, rigmode, freq, bandinx, oldbandinx, bandfrequency,
                   outfreq, rig, operation, poller, passes, wishes, fails>>

-----------------------------------------------------------------------------
(* gettxinfo(): PTT.                                                       *)

BgAt(from) == poller.pc = from
BgTo(to)   == poller' = [poller EXCEPT !.pc = to]

PttOn ==
    /\ BgAt("idle")
    /\ IF rigptt = {"USE", "ON"}
       THEN rig' = [rig EXCEPT !.ptt = TRUE] /\ BgTo("on")
       ELSE rig' = rig /\ BgTo("off")
    /\ UNCHANGED <<setup, antenna, trxmode, rigmode, freq, bandinx, oldbandinx, bandfrequency,
                   outfreq, rigptt, operation, vk, passes, wishes, fails>>

PttOff ==
    /\ BgAt("off")
    /\ IF rigptt = {"USE", "ACTIVE", "OFF"}
       THEN rig' = [rig EXCEPT !.ptt = FALSE] /\ BgTo("released")
       ELSE rig' = rig /\ BgTo("take")
    /\ UNCHANGED <<setup, antenna, trxmode, rigmode, freq, bandinx, oldbandinx, bandfrequency,
                   outfreq, rigptt, operation, vk, passes, wishes, fails>>

\* The bits are set and cleared one statement after the other.
PttBits ==
    /\ \/ BgAt("on")       /\ rigptt' = rigptt \cup {"ACTIVE"} /\ BgTo("keyed")
       \/ BgAt("keyed")    /\ rigptt' = rigptt \ {"ON"}        /\ BgTo("off")
       \/ BgAt("released") /\ rigptt' = rigptt \ {"OFF"}       /\ BgTo("silent")
       \/ BgAt("silent")   /\ rigptt' = rigptt \ {"ACTIVE"}    /\ BgTo("take")
    /\ UNCHANGED <<setup, antenna, trxmode, rigmode, freq, bandinx, oldbandinx, bandfrequency,
                   outfreq, rig, operation, vk, passes, wishes, fails>>

-----------------------------------------------------------------------------
(* gettxinfo(): the request, or a poll.                                    *)

Pass == passes' = IF passes < 2 THEN passes + 1 ELSE 2

\* The radio may not answer.
Fail == fails < setup.maxFails /\ fails' = fails + 1

Take ==
    /\ BgAt("take") /\ outfreq # NoRequest
    /\ poller' = [poller EXCEPT !.pc = "execute", !.arg = outfreq]
    /\ outfreq' = NoRequest
    /\ UNCHANGED <<setup, antenna, trxmode, rigmode, freq, bandinx, oldbandinx, bandfrequency,
                   rigptt, rig, operation, vk, passes, wishes, fails>>

DigiMode == IF setup.fldigi THEN "USB" ELSE "LSB"

\* What the radio does on a request.
Tuned(r) ==
    CASE r = "SETCW"     -> [rig EXCEPT !.mode = "CW"]
      [] r = "SETSSB"    -> [rig EXCEPT !.mode = SsbMode(freq)]
      [] r = "SETDIGI"   -> [rig EXCEPT !.mode = DigiMode]
      [] r \in {"RESETRIT", Refused} -> rig
      [] OTHER           -> [rig EXCEPT !.freq = r]

Execute ==
    /\ BgAt("execute")
    /\ \/ rig' = Tuned(poller.arg) /\ fails' = fails
       \/ rig' = rig /\ Fail
    /\ rigmode' = IF poller.arg = "SETDIGI" THEN DigiMode ELSE rigmode
    /\ poller' = [poller EXCEPT !.pc = "idle", !.arg = NoRequest]
    /\ Pass
    /\ UNCHANGED <<setup, antenna, trxmode, freq, bandinx, oldbandinx, bandfrequency, outfreq,
                   rigptt, operation, vk, wishes>>

\* Polled less than 200 ms ago.
SkipPoll ==
    /\ BgAt("take") /\ outfreq = NoRequest
    /\ BgTo("idle") /\ Pass
    /\ UNCHANGED <<setup, antenna, trxmode, rigmode, freq, bandinx, oldbandinx, bandfrequency,
                   outfreq, rigptt, rig, operation, vk, wishes, fails>>

\* Fldigi tells the frequency, and nothing of the mode.
FldigiReads == setup.fldigi /\ trxmode = "DIGI"

ReadFreq ==
    /\ BgAt("take") /\ outfreq = NoRequest
    /\ \/ /\ poller' = [poller EXCEPT !.pc = IF setup.modeSync /\ ~FldigiReads
                                              THEN "readmode" ELSE "compare",
                                      !.freq = rig.freq]
          /\ fails' = fails
       \/ poller' = [poller EXCEPT !.pc = "compare", !.freq = NoFreq] /\ Fail
    /\ UNCHANGED <<setup, antenna, trxmode, rigmode, freq, bandinx, oldbandinx, bandfrequency,
                   outfreq, rigptt, rig, operation, vk, passes, wishes>>

ReadMode ==
    /\ BgAt("readmode")
    /\ \/ rigmode' = rig.mode /\ fails' = fails
       \/ rigmode' = "none" /\ Fail
    /\ BgTo("compare")
    /\ UNCHANGED <<setup, antenna, trxmode, freq, bandinx, oldbandinx, bandfrequency, outfreq,
                   rigptt, rig, operation, vk, passes, wishes>>

\* Mutant: the radio in CW is not noticed.
CompareMode_OneWay ==
    /\ BgAt("compare")
    /\ poller' = CASE trxmode = "CW" /\ rigmode \in {"LSB", "USB"} ->
                        [poller EXCEPT !.pc = "follow", !.arg = "SSB"]
                   [] OTHER -> [poller EXCEPT !.pc = "store"]
    /\ UNCHANGED <<setup, antenna, trxmode, rigmode, freq, bandinx, oldbandinx, bandfrequency,
                   outfreq, rigptt, rig, operation, vk, passes, wishes, fails>>

CompareMode ==
    /\ BgAt("compare")
    /\ poller' = CASE trxmode = "CW" /\ rigmode \in {"LSB", "USB"} ->
                        [poller EXCEPT !.pc = "follow", !.arg = "SSB"]
                   [] trxmode # "CW" /\ rigmode = "CW" ->
                        [poller EXCEPT !.pc = "follow", !.arg = "CW"]
                   [] OTHER -> [poller EXCEPT !.pc = "store"]
    /\ UNCHANGED <<setup, antenna, trxmode, rigmode, freq, bandinx, oldbandinx, bandfrequency,
                   outfreq, rigptt, rig, operation, vk, passes, wishes, fails>>

FollowMode ==
    /\ BgAt("follow")
    /\ trxmode' = poller.arg
    /\ poller' = [poller EXCEPT !.pc = "store", !.arg = NoRequest]
    /\ UNCHANGED <<setup, antenna, rigmode, freq, bandinx, oldbandinx, bandfrequency, outfreq,
                   rigptt, rig, operation, vk, passes, wishes, fails>>

StoreFreq ==
    /\ BgAt("store")
    /\ freq' = poller.freq
    /\ IF poller.freq = NoFreq
       THEN BgTo("idle") /\ Pass /\ bandinx' = bandinx
       ELSE BgTo("remember") /\ passes' = passes /\ bandinx' = Band[poller.freq]
    /\ UNCHANGED <<setup, antenna, trxmode, rigmode, oldbandinx, bandfrequency, outfreq, rigptt,
                   rig, operation, vk, wishes, fails>>

\* The main thread may have changed bandinx meanwhile: the compiled code reads
\* it again or still holds the value it wrote.
BandSeen == {bandinx, Band[freq]}

RememberFreq ==
    /\ BgAt("remember")
    /\ \E b \in BandSeen : bandfrequency' = [bandfrequency EXCEPT ![b] = freq]
    /\ BgTo("changed")
    /\ UNCHANGED <<setup, antenna, trxmode, rigmode, freq, bandinx, oldbandinx, outfreq, rigptt,
                   rig, operation, vk, passes, wishes, fails>>

\* Mutant: a change of band is not noticed.
BandChange_Never ==
    /\ BgAt("changed")
    /\ oldbandinx' \in BandSeen
    /\ BgTo("idle") /\ Pass
    /\ UNCHANGED <<setup, antenna, trxmode, rigmode, freq, bandinx, bandfrequency, outfreq,
                   rigptt, rig, operation, vk, wishes, fails>>

\* The band goes to the antenna switch before the mode is set.
BandChange ==
    /\ BgAt("changed")
    /\ oldbandinx' \in BandSeen
    /\ antenna' = IF oldbandinx' # oldbandinx /\ setup.bandOutput
                  THEN [antenna EXCEPT !.set = Band[freq]] ELSE antenna
    /\ IF oldbandinx' # oldbandinx /\ setup.modeSync
       THEN BgTo("switch") /\ passes' = passes
       ELSE BgTo("idle") /\ Pass
    /\ UNCHANGED <<setup, trxmode, rigmode, freq, bandinx, bandfrequency, outfreq,
                   rigptt, rig, operation, vk, wishes, fails>>

\* handle_trx_bandswitch() sets the mode of the radio for the new band.
SwitchedMode ==
    CASE trxmode = "SSB" -> SsbMode(freq)
      [] trxmode = "CW"  -> "CW"
      [] OTHER           -> IF rigmode = "CW" THEN "LSB" ELSE rig.mode

SwitchMode ==
    /\ BgAt("switch")
    /\ \/ rig' = [rig EXCEPT !.mode = SwitchedMode] /\ fails' = fails
       \/ rig' = rig /\ Fail
    /\ BgTo("idle") /\ Pass
    /\ UNCHANGED <<setup, antenna, trxmode, rigmode, freq, bandinx, oldbandinx, bandfrequency,
                   outfreq, rigptt, operation, vk, wishes>>

GetTxInfo ==
    \/ PttOn \/ PttOff \/ PttBits \/ Take \/ Execute \/ ReadFreq \/ ReadMode
    \/ CompareMode \/ FollowMode \/ StoreFreq \/ RememberFreq \/ BandChange \/ SwitchMode

Main == RequestMode \/ RequestBand \/ SendBandswitch

RigUse ==
    \/ Qsy \/ ChangeFreq \/ SetTrxmode \/ NextBand \/ ClearRit \/ TurnKnob
    \/ StartMessage \/ AutoQsy

RigNext == GetTxInfo \/ SkipPoll \/ Main \/ RigUse \/ EndMessage

\* The background thread goes round its loop, and 200 ms pass; the main thread
\* ends what it began, and messages end.  The operator need not do anything.
RigFairness ==
    /\ WF_rigVars(GetTxInfo \/ SkipPoll) /\ SF_rigVars(ReadFreq)
    /\ WF_rigVars(Main) /\ WF_rigVars(EndMessage)

RigSpec == RigInit /\ [][RigNext]_rigVars /\ RigFairness

-----------------------------------------------------------------------------
(* Properties.                                                             *)

Requests == Freqs \cup {"SETCW", "SETSSB", "SETDIGI", "RESETRIT", Refused}
Pcs == {"idle", "on", "keyed", "off", "released", "silent", "take", "execute",
        "readmode", "compare", "follow", "store", "remember", "changed", "switch"}

RigTypeOK ==
    /\ setup \in Setup
    /\ trxmode \in TrxModes /\ rigmode \in RigModes \cup {"none"}
    /\ freq \in Freqs \cup {NoFreq}
    /\ bandinx \in 0..NBands /\ oldbandinx \in 0..NBands + 1
    /\ bandfrequency \in [0..NBands -> Freqs \cup {NoFreq}]
    /\ outfreq \in Requests \cup {NoRequest}
    /\ rigptt \subseteq {"USE", "ON", "ACTIVE", "OFF"}
    /\ rig \in [freq : Freqs, mode : RigModes, ptt : BOOLEAN]
    /\ antenna \in [set : 0..NBands, next : 0..NBands]
    /\ operation \in {"idle", "mode", "band", "antenna"}
    /\ poller \in [pc : Pcs, freq : Freqs \cup {NoFreq},
                   arg : Requests \cup {NoRequest, "CW", "SSB"}]
    /\ vk \in {"idle", "playing"} /\ passes \in 0..2
    /\ wishes \in Nat /\ fails \in Nat

\* The bits tell whether the radio transmits, but for the moments in which
\* the background thread is between the command and the bit, and on and off
\* are never both asked for.
PttKnown ==
    /\ poller.pc \notin {"on", "released", "silent"} => (rig.ptt <=> "ACTIVE" \in rigptt)
    /\ ~({"ON", "OFF"} \subseteq rigptt)

\* A message keys the radio and its end releases it, as long as messages last
\* longer than a round of the background thread.
PttReleased == setup.longMessages => (rig.ptt ~> ~rig.ptt)

\* What the display shows and what the radio does; Fldigi does not tell its mode.
Agree ==
    /\ freq = rig.freq /\ bandinx = Band[rig.freq]
    /\ setup.modeSync /\ ~setup.fldigi => (trxmode = "CW" <=> rig.mode = "CW")

\* When the operator leaves the radio alone, Tlf and the radio end up on the
\* same frequency and band and in the same mode, whatever requests were lost,
\* overwritten or failed before.
Settles == <>[]Agree

\* The antenna switch ends up on the band of the radio, although both threads
\* send bands to it: if the poll alone has to find the bands (whatever moves the
\* radio, and if answers fail), or if requests of the main thread alone move the
\* radio and none is lost.  With both, a step from a frequency that is out of
\* date, or the knob, may take the radio back to the band that was polled last,
\* and the switch stays on the one requested.  No band key changes bandinx
\* under the poll (send_bandswitch()).
AntennaFollows ==
    /\ setup.bandOutput /\ ~setup.bandKeys
    /\ setup.qsy => /\ ~setup.dial /\ ~setup.knob /\ ~setup.fldigi
                    /\ ~setup.rit /\ setup.modes = {} /\ setup.maxFails = 0
    => <>[](antenna.set = Band[rig.freq])
=============================================================================
