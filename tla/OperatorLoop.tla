------------------------------ MODULE OperatorLoop ------------------------------
(***************************************************************************)
(* The operator at the keyboard: call input, exchange field, smart Enter,  *)
(* automatic CQ, early start of keying, the memory for the CQ frequency    *)
(* and grabbing of spots (logit.c, callinput.c, getexchange.c, autocq.c,   *)
(* sendbuf.c, trx_memory.c, grabspot.c, cleanup.c).                        *)
(*                                                                         *)
(* One action is one key with everything the program does before it waits  *)
(* for the next one.  The radio answers on its own.                        *)
(***************************************************************************)
EXTENDS Integers, Sequences, FiniteSets

CONSTANTS Setups,    \* see MCOperatorLoop
          Letters,   \* characters of a call
          Query,     \* the " ?" put after a call
          NoText,    \* empty exchange field
          Text,      \* an exchange
          Unset,     \* nothing saved
          Freqs,     \* frequencies
          NoFreq     \* none

CONSTANT SpotAt      \* the call spotted on a frequency, <<>> if there is none

\* A call has at most MaxLen characters, the program takes it for one from
\* MinLen on (three in the code), and keys it early from StartLen on (two).
MaxLen == 2
MinLen == 2
StartLen == 1

ASSUME SpotAssumption == SpotAt \in [Freqs -> Seq(Letters)] /\ NoFreq \notin Freqs

\* The space of " ?" is no character of a call.
ASSUME QueryAssumption == Query \notin Letters

Modes == {"CQ", "S_P"}
Places == {"call", "exch", "early", "autocq", "wait"}
Keys == {"autocq", "fix", "send", "mode", "wipe", "memory", "grab", "qsy", "knob", "autoadd",
         "autograb"}

Setup ==
    [start : Modes, contest : BOOLEAN, ctcomp : BOOLEAN, phone : BOOLEAN, resend : BOOLEAN,
     cwstart : Int, stopTxOnly : BOOLEAN, prefill : {"none", "recall", "zone"}, nob4 : BOOLEAN,
     sprint : BOOLEAN, keys : SUBSET Keys, slow : BOOLEAN, freq : Freqs]

ASSUME SetupAssumption == Setups \subseteq Setup

Calls == {<<>>} \cup {<<x>> : x \in Letters} \cup {<<x, y>> : x, y \in Letters}

IsCall(c) == Len(c) >= MinLen

FixCalls == {c \in Calls : IsCall(c)}

\* What was heard on the air since the contact was begun.
Silence == [call |-> <<>>, xchg |-> FALSE, own |-> FALSE]

NoLog == [enter |-> FALSE, cq |-> FALSE, call |-> <<>>, comment |-> NoText, said |-> Silence]

NoMem == [freq |-> NoFreq, cqmode |-> "NONE", call |-> <<>>]

-----------------------------------------------------------------------------
VARIABLES
    setup,   \* the configuration
    op,      \* fields, mode and phase of the contact
    rig,     \* radio, memory and grabbed spot
    escs     \* times ESC was pressed in a row (history)

vars == <<setup, op, rig, escs>>

\* Types of what was heard, of a contact, and of the radio.
Comments == {NoText, Text} \cup FixCalls

OnAir == [call : Seq(Letters), xchg : BOOLEAN, own : BOOLEAN]

Log == [enter : BOOLEAN, cq : BOOLEAN, call : Seq(Letters), comment : Comments, said : OnAir]

Contact ==
    [place : Places, call : Seq(Letters), comment : Comments,
     oldCall : Seq(Letters) \cup {Unset}, oldComment : Comments \cup {Unset},
     cqmode : Modes \cup {"AUTO_CQ"}, savedMode : Modes, f12 : BOOLEAN, defer : {0, 2},
     sentcall : Seq(Letters \cup {Query}), hiscallSent : Seq(Letters),
     earlyStarted : BOOLEAN, worked : SUBSET Seq(Letters), said : OnAir, last : Log]

Stored == {NoMem} \cup [freq : Freqs, cqmode : Modes, call : Seq(Letters)]

Station ==
    [freq : Freqs, want : Freqs \cup {NoFreq}, grab : {"NONE", "IN_PROGRESS", "REACHED"},
     spotfreq : Freqs \cup {NoFreq}, typedAt : Freqs \cup {NoFreq}, mem : Stored,
     waitFor : Freqs \cup {NoFreq}, run : Freqs]

\* Every variable holds a value of its type; what is in memory was stored
\* in one of the two modes.
TypeOK == setup \in Setups /\ op \in Contact /\ rig \in Station /\ escs \in 0..3

Init ==
    /\ setup \in Setups
    /\ op = [place |-> "call", call |-> <<>>, comment |-> NoText,
             oldCall |-> Unset, oldComment |-> Unset, cqmode |-> setup.start,
             savedMode |-> setup.start, f12 |-> FALSE, defer |-> 0, sentcall |-> <<>>,
             hiscallSent |-> <<>>, earlyStarted |-> FALSE, worked |-> {},
             said |-> Silence, last |-> NoLog]
    /\ rig = [freq |-> setup.freq, want |-> NoFreq, grab |-> "NONE", spotfreq |-> NoFreq,
              typedAt |-> NoFreq, mem |-> NoMem, waitFor |-> NoFreq, run |-> setup.freq]
    /\ escs = 0

-----------------------------------------------------------------------------
(* Fields.                                                                 *)

CleanupComment(o) == [o EXCEPT !.oldComment = o.comment, !.comment = NoText]

RestoreComment(o) ==
    IF o.oldComment = Unset THEN o
    ELSE [o EXCEPT !.comment = o.oldComment, !.oldComment = Unset]

CleanupHiscall(o) == [o EXCEPT !.oldCall = o.call, !.call = <<>>, !.said = Silence]

RestoreHiscall(o) ==
    IF o.oldCall = Unset THEN o
    ELSE [o EXCEPT !.call = o.oldCall, !.oldCall = Unset]

CleanupQso(o) ==
    [CleanupComment(CleanupHiscall(o)) EXCEPT !.oldCall = Unset, !.oldComment = Unset]

\* Mutant: the phase of the contact is kept.
Cleanup_Mutation(o) == CleanupQso(o)

Cleanup(o) == [CleanupQso(o) EXCEPT !.defer = 0]

InsertAt(c, i, x) == SubSeq(c, 1, i) \o <<x>> \o SubSeq(c, i + 1, Len(c))

DeleteAt(c, i) == SubSeq(c, 1, i - 1) \o SubSeq(c, i + 1, Len(c))

\* A call in the exchange field replaces the one in the call field.
CallUpdate(o) == IF o.comment \in FixCalls THEN [o EXCEPT !.call = o.comment] ELSE o

-----------------------------------------------------------------------------
(* Messages.                                                               *)

\* The macro @: his call, without what was keyed early.
ExpandHis(o) ==
    LET rest == SubSeq(o.call, Len(o.hiscallSent) + 1, Len(o.call))
    IN  IF setup.phone THEN o
        ELSE [o EXCEPT
                !.said.call = IF o.hiscallSent = <<>> THEN rest ELSE @ \o rest,
                !.hiscallSent = <<>>,
                !.earlyStarted = IF o.hiscallSent # <<>> THEN FALSE ELSE @,
                !.sentcall = IF o.cqmode = "CQ" /\ setup.resend THEN o.call ELSE @]

\* F3: his call and the report.
SendExchange(o) == [ExpandHis(o) EXCEPT !.said.xchg = TRUE]

SendSpCall(o) == [o EXCEPT !.said.own = TRUE]

\* The call is repeated when it is not the one sent with the report.
\* Mutant: it is not repeated.
ResendCallsign_Mutation(o) == [o EXCEPT !.sentcall = <<>>]

ResendCallsign(o) ==
    [o EXCEPT !.said.call = IF o.sentcall # <<>> /\ o.call # o.sentcall THEN o.call ELSE @,
              !.sentcall = <<>>]

-----------------------------------------------------------------------------
(* Automatic start of keying, and the exchange known beforehand.           *)

\* CW, running in a contest.
MayStartEarly(o) == ~setup.phone /\ setup.contest /\ o.cqmode = "CQ"

Autosend(o) ==
    [o EXCEPT !.place = "early", !.earlyStarted = TRUE, !.hiscallSent = o.call,
              !.said.call = o.call]

\* Recalled or initial exchange, or the zone of the country.
Prefill(o, found) ==
    IF /\ o.comment = NoText /\ o.call # <<>>
       /\ setup.prefill = "zone" \/ (setup.prefill = "recall" /\ found)
    THEN [o EXCEPT !.comment = Text]
    ELSE o

Recallable == IF setup.prefill = "recall" THEN BOOLEAN ELSE {FALSE}

ToCall(o) == [o EXCEPT !.place = "call"]

GetExchange(o, found) == CallUpdate([Prefill(o, found) EXCEPT !.place = "exch"])

-----------------------------------------------------------------------------
(* logit(): what the keys that leave a field do.                           *)

Other(mode) == IF mode = "CQ" THEN "S_P" ELSE "CQ"

LogQso(o, enter) ==
    [CleanupQso(o) EXCEPT
        !.place = "call", !.defer = 0,
        !.last = [enter |-> enter, cq |-> (o.cqmode = "CQ"), call |-> o.call,
                  comment |-> o.comment, said |-> o.said],
        !.cqmode = IF setup.sprint THEN Other(@) ELSE @,
        !.worked = IF setup.nob4 THEN @ ELSE @ \cup {o.call}]

Backslash(o) == IF o.call = <<>> THEN ToCall(o) ELSE LogQso(o, FALSE)

\* The first Enter answers or calls the station ...
Answer(o, found) ==
    LET sent == IF o.cqmode = "CQ" THEN Prefill(SendExchange(o), found)
                                   ELSE SendSpCall(Prefill(o, found))
    IN  GetExchange([sent EXCEPT !.defer = 2], found)

\* ... and the second one says thanks and logs.
Finish(o) == LogQso(IF o.cqmode = "CQ" THEN ResendCallsign(o) ELSE ExpandHis(o), TRUE)

\* An empty exchange asks for it again.
Deferred(o) ==
    IF o.comment = NoText /\ setup.contest /\ ~setup.ctcomp THEN 0 ELSE o.defer

Enter(o, found) ==
    IF setup.ctcomp /\ ~setup.phone THEN Backslash([o EXCEPT !.comment = Text])
    ELSE IF ~IsCall(o.call) \/ ~setup.contest THEN ToCall(o)
    ELSE IF Deferred(o) = 0 THEN Answer(o, found)
    ELSE Finish(o)

\* Enter starts the keying first if CWSTART says so.
Leave(o, found) ==
    IF setup.cwstart < 0 /\ MayStartEarly(o) /\ Len(o.call) >= StartLen
    THEN Autosend(o) ELSE Enter(o, found)

-----------------------------------------------------------------------------
(* Frequency memory and grabbed spots.                                     *)

Store(o, r) == [r EXCEPT !.mem = [freq |-> r.freq, cqmode |-> o.cqmode, call |-> o.call]]

RecallRig(r) == [r EXCEPT !.want = r.mem.freq]

RecallOp(o, r) == [o EXCEPT !.cqmode = r.mem.cqmode, !.call = r.mem.call, !.said = Silence]

\* The operator loop goes on when the radio reports the new frequency.
\* Mutant: it goes on at once.
WaitFor_Mutation(o) == o

WaitFor(o) == [o EXCEPT !.place = "wait"]

MemoryOps == {"swap", "pop", "store_or_pop"}

\* Where the radio is, or is going.
Target(r) == IF r.want = NoFreq THEN r.freq ELSE r.want

\* The frequency of the last CQ is remembered (history).
Run(o, r) == IF o.cqmode = "CQ" THEN Target(r) ELSE r.run

MemoryOp(o, r, kind) ==
    IF r.mem.freq = NoFreq
    THEN [op |-> o, rig |-> IF kind = "store_or_pop" THEN [Store(o, r) EXCEPT !.run = Run(o, r)] ELSE r]
    ELSE [op  |-> WaitFor(RecallOp(o, r)),
          rig |-> [RecallRig(r) EXCEPT
                      !.waitFor = r.mem.freq, !.run = Run(o, r),
                      !.mem = IF kind = "swap" THEN Store(o, r).mem ELSE NoMem]]

\* grab_next() and grabspot(): go to a spot, and from CQ to S&P mode.
GrabOp(o, f) == [o EXCEPT !.call = SpotAt[f], !.cqmode = "S_P", !.said = Silence]

GrabRig(o, r, f) ==
    [(IF o.cqmode = "CQ" THEN Store([o EXCEPT !.call = SpotAt[f]], r) ELSE r)
        EXCEPT !.want = f, !.grab = "IN_PROGRESS", !.spotfreq = f, !.typedAt = NoFreq,
               !.run = Run(o, r)]

Spotted == {f \in Freqs : SpotAt[f] # <<>>}

Contains(c, part) ==
    \E i \in 0..(Len(c) - Len(part)) : SubSeq(c, i + 1, i + Len(part)) = part

-----------------------------------------------------------------------------
(* Keys in the call input field.                                           *)

At(place) == op.place = place

Has(key) == key \in setup.keys

\* What was logged is remembered until the next key only (history).
Fresh(o) == IF o.last = op.last THEN [o EXCEPT !.last = NoLog] ELSE o

Do(o) == op' = Fresh(o) /\ escs' = 0 /\ UNCHANGED <<setup, rig>>

DoBoth(o, r) == op' = Fresh(o) /\ rig' = r /\ escs' = 0 /\ UNCHANGED setup

\* A character at the cursor, which may start the keying.
Typed(o, i, x) ==
    LET typed == [o EXCEPT !.call = InsertAt(o.call, i, x)]
    IN  IF MayStartEarly(o) /\ i = Len(o.call) /\ Len(typed.call) = setup.cwstart
        THEN Autosend(typed) ELSE typed

TypeCall == At("call") /\ Len(op.call) < MaxLen /\ \E x \in Letters, i \in 0..Len(op.call) :
    DoBoth(Typed(op, i, x), [rig EXCEPT !.typedAt = rig.freq])

EraseCall == At("call") /\ \E i \in 1..Len(op.call) : Do([op EXCEPT !.call = DeleteAt(op.call, i)])

LeaveCall == At("call") /\ \E found \in Recallable : Do(GetExchange(op, found))

\* Enter in an empty call field: automatic CQ, or the own call.
EnterEmpty ==
    /\ At("call") /\ op.call = <<>>
    /\ \/ /\ op.cqmode = "CQ" /\ Has("autocq")
          /\ Do([op EXCEPT !.place = "autocq", !.savedMode = op.cqmode, !.cqmode = "AUTO_CQ",
                           !.f12 = FALSE])
       \/ op.cqmode = "CQ" /\ ~Has("autocq") /\ \E found \in Recallable : Do(Enter(op, found))
       \/ op.cqmode = "S_P" /\ Do(SendSpCall(op))

EnterCall == At("call") /\ op.call # <<>> /\ \E found \in Recallable :
    IF setup.ctcomp /\ IsCall(op.call)
    THEN op.comment # NoText /\ Do(Backslash(op))
    ELSE IF IsCall(op.call) /\ op.call \in op.worked /\ ~setup.nob4
    THEN Do(Cleanup(ExpandHis(op)))
    ELSE Do(Leave(op, found))

BackslashCall == At("call") /\ Do(Backslash(op))

\* A press is counted up to three.
Escape(o, r) ==
    op' = Fresh(o) /\ rig' = r /\ escs' = (IF escs < 3 THEN escs + 1 ELSE 3) /\ UNCHANGED setup

\* Escape drops the contact, but not what is keyed already.
EscapeCall ==
    /\ At("call") /\ ~setup.stopTxOnly
    /\ Escape(IF op.earlyStarted THEN op ELSE Cleanup(op), [rig EXCEPT !.typedAt = NoFreq])

\* F3 and the call with a question mark.
SendKey ==
    /\ At("call") /\ Has("send") /\ op.call # <<>>
    /\ \/ Do(SendExchange(op))
       \/ LET asked == ExpandHis(op)
          IN  Do([asked EXCEPT !.sentcall = IF @ = op.call THEN Append(@, Query) ELSE @])

\* F1 in S&P mode sends the own call.
SendOwn == At("call") /\ Has("send") /\ op.cqmode = "S_P" /\ Do(SendSpCall(op))

\* Plus changes the mode, or logs in CT mode.
PlusCall ==
    /\ At("call")
    /\ IF setup.ctcomp
       THEN /\ IsCall(op.call)
            /\ LET o == Prefill(op, FALSE) IN o.comment # NoText /\ Do(Backslash(o))
       ELSE Has("mode") /\ Do([op EXCEPT !.cqmode = Other(@)])

\* CT mode: Insert sends the exchange and goes on to the exchange field.
InsertCall ==
    At("call") /\ setup.ctcomp /\ \E found \in Recallable : Do(GetExchange(SendExchange(op), found))

\* Ctrl-U, Ctrl-W and ':'.
WipeCall ==
    /\ At("call") /\ Has("wipe")
    /\ \/ Do(IF op.call # <<>> \/ op.comment # NoText
             THEN CleanupComment(CleanupHiscall(op))
             ELSE RestoreComment(RestoreHiscall(op)))
       \/ Do(IF op.call # <<>> THEN CleanupHiscall(op) ELSE RestoreHiscall(op))
       \/ Do([op EXCEPT !.call = <<>>, !.said = Silence])

\* F12 starts automatic CQ in any mode.
StartAutoCq ==
    /\ At("call") /\ Has("autocq")
    /\ Do([op EXCEPT !.place = "autocq", !.savedMode = op.cqmode, !.cqmode = "AUTO_CQ",
                     !.f12 = TRUE])

\* Any key ends it and is then taken; after F12 Escape clears nothing.
Called == [ToCall(op) EXCEPT !.cqmode = op.savedMode]

AutoCqEnds ==
    /\ At("autocq")
    /\ \/ Do(Called)
       \/ /\ Len(op.call) < MaxLen
          /\ \E x \in Letters :
                 DoBoth(Typed(Called, Len(op.call), x), [rig EXCEPT !.typedAt = rig.freq])
       \/ \E found \in Recallable : Do(Leave(Called, found))
       \/ /\ ~op.f12 /\ ~setup.stopTxOnly
          /\ DoBoth(IF op.earlyStarted THEN Called ELSE Cleanup(Called),
                    [rig EXCEPT !.typedAt = NoFreq])

-----------------------------------------------------------------------------
(* autosend(): the call is keyed while it is typed.                        *)

EarlyType == At("early") /\ Len(op.call) < MaxLen /\ \E x \in Letters :
    Do([op EXCEPT !.call = Append(@, x), !.hiscallSent = Append(@, x),
                  !.said.call = Append(@, x)])

EarlyEnd == At("early") /\ \E found \in Recallable : Do(Enter(op, found))

EarlyEscape ==
    At("early") /\ Escape([ToCall(op) EXCEPT !.hiscallSent = <<>>, !.earlyStarted = FALSE], rig)

-----------------------------------------------------------------------------
(* Keys in the exchange field.                                             *)

\* The exchange typed, with a corrected call, or shortened.
EditExchange ==
    /\ At("exch")
    /\ \/ op.comment = NoText /\ Do([op EXCEPT !.comment = Text])
       \/ Has("fix") /\ \E c \in FixCalls : Do(CallUpdate([op EXCEPT !.comment = c]))
       \/ op.comment \in FixCalls /\ Do([op EXCEPT !.comment = Text])
       \/ op.comment # NoText /\ Do([op EXCEPT !.comment = NoText])

EnterExchange == At("exch") /\ \E found \in Recallable :
    IF setup.ctcomp \/ ~setup.contest
    THEN op.comment # NoText /\ Do(Backslash(op))
    ELSE Do(Enter(op, found))

BackslashExchange == At("exch") /\ Do(Backslash(op))

TabExchange == At("exch") /\ Do(ToCall(op))

EscapeExchange ==
    /\ At("exch") /\ ~setup.stopTxOnly
    /\ Escape(IF op.comment # NoText THEN CleanupComment(op) ELSE ToCall(op), rig)

\* Plus and Insert in CT mode.
PlusExchange ==
    /\ At("exch") /\ setup.ctcomp
    /\ \/ IsCall(op.call) /\ op.comment # NoText /\ Do(Backslash(op))
       \/ op.call # <<>> /\ Do(SendExchange(op))

\* Ctrl-U and Ctrl-W.
WipeExchange ==
    /\ At("exch") /\ Has("wipe")
    /\ \/ /\ op.call # <<>> \/ op.comment # NoText
          /\ Do(ToCall(CleanupComment(CleanupHiscall(op))))
       \/ Do(CallUpdate(IF op.comment # NoText THEN CleanupComment(op) ELSE RestoreComment(op)))

-----------------------------------------------------------------------------
(* Frequency.                                                              *)

\* '#', '$' and '%'.
MemoryKey == At("call") /\ Has("memory") /\ \E kind \in MemoryOps :
    LET m == MemoryOp(op, rig, kind) IN DoBoth(m.op, m.rig)

\* Shift-F1 goes back to the CQ frequency.
BackToCq ==
    /\ At("call") /\ Has("memory") /\ op.cqmode = "S_P" /\ rig.mem.cqmode = "CQ"
    /\ LET m == MemoryOp(op, rig, "swap") IN DoBoth(m.op, m.rig)

\* The radio is there, or a second has passed.
WaitEnds ==
    /\ At("wait") /\ (rig.freq = rig.waitFor \/ setup.slow)
    /\ DoBoth(ToCall(op), [rig EXCEPT !.waitFor = NoFreq])

\* Ctrl-G any spot, Alt-G one that has what is in the call field.
Grab == At("call") /\ Has("grab") /\ \E f \in Spotted :
    /\ f # rig.freq \/ (op.call # <<>> /\ Contains(SpotAt[f], op.call))
    /\ DoBoth(GrabOp(op, f), GrabRig(op, rig, f))

\* Ctrl-A: the call goes to the bandmap.
Spot ==
    /\ Has("grab") /\ op.place \in {"call", "exch"}
    /\ LET gone == IF IsCall(op.call) THEN [op EXCEPT !.call = <<>>, !.said = Silence] ELSE op
       IN  IF At("call")
           THEN DoBoth(gone, [rig EXCEPT !.grab = "REACHED", !.spotfreq = rig.freq])
           ELSE Do(ToCall([gone EXCEPT !.comment = NoText]))

\* Band keys and a frequency typed into the call field.
Qsy == At("call") /\ Has("qsy") /\ op.call = <<>> /\ \E f \in Freqs :
    DoBoth(op, [rig EXCEPT !.want = f])

\* The radio does what it was asked for, and somebody turns its knob.
Radio == rig.want # NoFreq /\ op' = op /\ rig' = [rig EXCEPT !.freq = rig.want, !.want = NoFreq]
    /\ UNCHANGED <<setup, escs>>

Knob == rig.want = NoFreq /\ Has("knob") /\ \E f \in Freqs \ {rig.freq} :
    DoBoth(op, [rig EXCEPT !.freq = f])

\* BMAUTOADD: the call typed here becomes a spot when the radio moves away.
AutoAdd ==
    /\ At("call") /\ Has("autoadd") /\ rig.typedAt \notin {NoFreq, rig.freq} /\ IsCall(op.call)
    /\ DoBoth([op EXCEPT !.call = <<>>, !.said = Silence], [rig EXCEPT !.typedAt = NoFreq])

\* BMAUTOGRAB: the call of a spot on this frequency is taken.
AutoGrab ==
    /\ At("call") /\ Has("autograb") /\ op.cqmode = "S_P" /\ op.call = <<>>
    /\ rig.grab = "NONE" /\ rig.freq \in Spotted
    /\ DoBoth([op EXCEPT !.call = SpotAt[rig.freq], !.said = Silence],
              [rig EXCEPT !.grab = "REACHED", !.spotfreq = rig.freq, !.typedAt = NoFreq])

GrabReached ==
    /\ At("call") /\ rig.grab = "IN_PROGRESS" /\ rig.freq = rig.spotfreq
    /\ op' = op /\ rig' = [rig EXCEPT !.grab = "REACHED"] /\ UNCHANGED <<setup, escs>>

GrabForgotten ==
    /\ At("call") /\ rig.grab = "REACHED" /\ rig.freq # rig.spotfreq
    /\ DoBoth([op EXCEPT !.call = <<>>, !.said = Silence], [rig EXCEPT !.grab = "NONE"])

-----------------------------------------------------------------------------
CallKeys == TypeCall \/ EraseCall \/ LeaveCall \/ EnterEmpty \/ EnterCall \/ BackslashCall
    \/ EscapeCall \/ SendKey \/ SendOwn \/ PlusCall \/ InsertCall \/ WipeCall \/ StartAutoCq

ExchangeKeys == EditExchange \/ EnterExchange \/ BackslashExchange \/ TabExchange
    \/ EscapeExchange \/ PlusExchange \/ WipeExchange

FrequencyKeys == MemoryKey \/ BackToCq \/ WaitEnds \/ Grab \/ Spot \/ Qsy

Tuning == Radio \/ Knob \/ AutoAdd \/ AutoGrab \/ GrabReached \/ GrabForgotten

Next == CallKeys \/ AutoCqEnds \/ EarlyType \/ EarlyEnd \/ EarlyEscape \/ ExchangeKeys
    \/ FrequencyKeys \/ Tuning

Spec == Init /\ [][Next]_vars

-----------------------------------------------------------------------------
(* Properties.                                                             *)

\* No key takes the operator to another contact before this one is over.
Steady == setup.keys \cap {"wipe", "grab", "memory", "mode", "qsy", "autoadd", "autograb"} = {}

\* A contact logged with Enter was answered or called first: in CQ mode the
\* other station got the exchange, in S&P mode the own call.  The phase is
\* one number (defer_store) that every way out of a contact has to reset,
\* while ESC, corrections and repeats lead back and forth between the fields.
ExchangeSent ==
    Steady /\ op.last.enter => IF op.last.cq THEN op.last.said.xchg ELSE op.last.said.own

\* With RESEND_CALL=FULL the call in the log is the one the other station
\* heard last, whatever was corrected in either field and whenever.  Early
\* keying is left out: see the README.
CallHeard ==
    Steady /\ setup.resend /\ ~setup.phone /\ setup.cwstart = 0 /\ op.last.enter /\ op.last.cq
        => op.last.said.call = op.last.call

\* The frequency of the last CQ is not lost in search and pounce, however
\* grabs, swaps and the answers of the radio follow each other.
MemoryKept ==
    ~setup.slow /\ setup.keys \cap {"mode", "qsy"} = {} /\ ~setup.sprint
        /\ op.cqmode = "S_P" /\ rig.mem.cqmode = "CQ"
        => rig.mem.freq = rig.run

\* Three presses of ESC undo everything: both fields are empty, and the next
\* Enter begins a new contact.
EscapeUndoes ==
    escs = 3 /\ setup.cwstart = 0
        => /\ op.place = "call" /\ op.call = <<>> /\ op.comment = NoText /\ op.defer = 0

=============================================================================
