------------------------- MODULE OperatorLoop_proofs -------------------------
(***************************************************************************)
(* Proofs about the operator loop: types, what ESC undoes, what was sent   *)
(* before a contact is logged, and the memory for the CQ frequency, for    *)
(* every configuration, any letters, spots and frequencies.                *)
(***************************************************************************)
EXTENDS OperatorLoop, TLAPS

\* The mode of the contact, which automatic CQ comes back to.
Mode(o) == IF o.place = "autocq" THEN o.savedMode ELSE o.cqmode

ModeInv(o) == o.cqmode = "AUTO_CQ" <=> o.place = "autocq"

\* Without CWSTART nothing is keyed early.
LateInv(o) ==
    setup.cwstart = 0 => o.place # "early" /\ ~o.earlyStarted /\ o.hiscallSent = <<>>

\* The phase says that the exchange, or the own call, was sent, and the log
\* has it so.
SentInv(o) ==
    Steady => /\ o.defer # 0 => IF Mode(o) = "CQ" THEN o.said.xchg ELSE o.said.own
              /\ o.last.enter => IF o.last.cq THEN o.last.said.xchg ELSE o.last.said.own

\* Corrections are repeated, and nothing is keyed early.
Repeats == Steady /\ setup.resend /\ ~setup.phone /\ setup.cwstart = 0

\* In this phase sentcall has the call that was heard, or is no call.
HeardInv(o) ==
    Repeats =>
        /\ setup.ctcomp => o.defer = 0
        /\ o.defer # 0 /\ Mode(o) = "CQ" =>
               /\ o.sentcall # <<>>
               /\ o.sentcall \in Seq(Letters) => o.said.call = o.sentcall
        /\ o.last.enter /\ o.last.cq => o.last.said.call = o.last.call

Sane(o) == o \in Contact /\ ModeInv(o) /\ LateInv(o) /\ SentInv(o) /\ HeardInv(o)

\* The memory is filled on the frequency of the CQ, since no CQ is called
\* while the radio is still on its way.
FreqInv(o, r) ==
    ~setup.slow /\ setup.keys \cap {"mode", "qsy"} = {} /\ ~setup.sprint =>
        /\ Mode(o) = "S_P" /\ r.mem.cqmode = "CQ" => r.mem.freq = r.run
        /\ Mode(o) = "CQ" =>
               r.want \in {NoFreq, IF o.place = "wait" THEN r.waitFor ELSE r.freq}

\* Outside the keys that leave a contact, no spot is grabbed.
GrabInv(r) == Steady => r.grab = "NONE"

\* What each ESC has undone.
EscInv(o, n) ==
    setup.cwstart = 0 =>
        /\ n >= 1 => o.comment = NoText /\ o.place \in {"call", "exch"}
        /\ n >= 2 => o.place = "call"
        /\ n = 3  => o.call = <<>> /\ o.defer = 0

IInv ==
    /\ TypeOK /\ Sane(op)
    /\ FreqInv(op, rig) /\ GrabInv(rig) /\ EscInv(op, escs)

\* A contact in which a key may be pressed, and the same mode after it.
KeyPlaces == {"call", "exch", "early"}

Ready(o) == Sane(o) /\ o.place \in KeyPlaces

SameMode(o, p) == ~setup.sprint /\ ~Has("mode") => Mode(p) = Mode(o)

-----------------------------------------------------------------------------
(* Calls as sequences.                                                     *)

LEMMA SetupType == setup \in Setups => setup \in Setup
BY SetupAssumption

LEMMA CallTypes ==
    /\ <<>> \in Seq(Letters) /\ <<>> \in Seq(Letters \cup {Query})
    /\ Silence \in OnAir /\ NoLog \in Log
    /\ \A c \in FixCalls : c \in Seq(Letters)
<1>1. <<>> \in Seq(Letters) /\ <<>> \in Seq(Letters \cup {Query})
    OBVIOUS
<1>2. Silence \in OnAir
    BY <1>1 DEF Silence, OnAir
<1>3. NoLog \in Log
    BY <1>1, <1>2 DEF NoLog, Log, Comments
<1>4. \A c \in FixCalls : c \in Seq(Letters)
  <2>1. \A x \in Letters : <<x>> \in Seq(Letters)
      OBVIOUS
  <2>2. \A x, y \in Letters : <<x, y>> \in Seq(Letters)
      OBVIOUS
  <2>3. ASSUME NEW c \in Calls
        PROVE  c \in Seq(Letters)
    <3>1. CASE c = <<>>
        BY <1>1, <3>1
    <3>2. CASE c \in {<<x>> : x \in Letters}
        BY <2>1, <3>2
    <3>3. CASE c \in {<<x, y>> : x, y \in Letters}
      <4>1. PICK x, y \in Letters : c = <<x, y>>
          BY <3>3
      <4> QED
          BY <2>2, <4>1
    <3> QED
        BY <3>1, <3>2, <3>3 DEF Calls
  <2> QED
      BY <2>3 DEF FixCalls
<1> QED
    BY <1>1, <1>2, <1>3, <1>4

\* A character typed into a call, or erased.
LEMMA EditedCall ==
    ASSUME NEW c \in Seq(Letters), NEW x \in Letters
    PROVE  /\ \A i \in 0..Len(c) : InsertAt(c, i, x) \in Seq(Letters)
           /\ \A i \in 1..Len(c) : DeleteAt(c, i) \in Seq(Letters)
           /\ Append(c, x) \in Seq(Letters)
<1>1. ASSUME NEW i \in 0..Len(c)
      PROVE  SubSeq(c, 1, i) \in Seq(Letters) /\ SubSeq(c, i + 1, Len(c)) \in Seq(Letters)
    OBVIOUS
<1>2. ASSUME NEW i \in 1..Len(c)
      PROVE  SubSeq(c, 1, i - 1) \in Seq(Letters) /\ SubSeq(c, i + 1, Len(c)) \in Seq(Letters)
    OBVIOUS
<1>3. \A i \in 0..Len(c) : InsertAt(c, i, x) \in Seq(Letters)
    BY <1>1 DEF InsertAt
<1>4. \A i \in 1..Len(c) : DeleteAt(c, i) \in Seq(Letters)
    BY <1>2 DEF DeleteAt
<1> QED
    BY <1>3, <1>4

\* What is left of a call when its beginning was keyed.
LEMMA RestOfCall ==
    ASSUME NEW c \in Seq(Letters), NEW n \in Nat
    PROVE  SubSeq(c, n + 1, Len(c)) \in Seq(Letters) /\ SubSeq(c, 1, Len(c)) = c
OBVIOUS

\* A call is also a text that may hold the query, and a call with the query
\* is no call.
LEMMA WiderCall ==
    ASSUME NEW c \in Seq(Letters)
    PROVE  c \in Seq(Letters \cup {Query})
<1>1. c \in [1..Len(c) -> Letters] /\ Len(c) \in Nat
    OBVIOUS
<1>2. c \in [1..Len(c) -> Letters \cup {Query}]
    BY <1>1
<1> QED
    BY <1>1, <1>2

LEMMA AskedCall ==
    ASSUME NEW c \in Seq(Letters)
    PROVE  /\ Append(c, Query) \in Seq(Letters \cup {Query})
           /\ Append(c, Query) # <<>> /\ Append(c, Query) \notin Seq(Letters)
<1>1. c \in Seq(Letters \cup {Query})
    BY WiderCall
<1>2. /\ Append(c, Query) \in Seq(Letters \cup {Query})
      /\ Append(c, Query)[Len(c) + 1] = Query /\ Len(Append(c, Query)) = Len(c) + 1
    BY <1>1
<1>3. Append(c, Query) # <<>>
    BY <1>2
<1>4. ASSUME Append(c, Query) \in Seq(Letters)
      PROVE  FALSE
  <2>1. Append(c, Query)[Len(c) + 1] \in Letters
      BY <1>2, <1>4
  <2> QED
      BY <1>2, <2>1, QueryAssumption
<1> QED
    BY <1>2, <1>3, <1>4

-----------------------------------------------------------------------------
(* Operators on the contact.                                               *)

LEMMA ReadyMode ==
    ASSUME NEW o, Ready(o)
    PROVE  o \in Contact /\ o.cqmode \in Modes /\ Mode(o) = o.cqmode
BY DEF Ready, Sane, ModeInv, Mode, KeyPlaces, Contact, Places

\* Changes of the fields alone.
LEMMA Alike ==
    ASSUME NEW o, Sane(o), NEW p \in Contact,
           p.place = o.place, p.cqmode = o.cqmode, p.savedMode = o.savedMode,
           p.earlyStarted = o.earlyStarted, p.hiscallSent = o.hiscallSent, p.defer = o.defer,
           p.said = o.said, p.sentcall = o.sentcall, p.last = o.last
    PROVE  Sane(p) /\ Mode(p) = Mode(o)
BY DEF Sane, ModeInv, LateInv, SentInv, HeardInv, Mode

\* From one place to another in the same contact.
LEMMA Moved ==
    ASSUME NEW o, Ready(o), NEW q \in {"call", "exch"}
    PROVE  Ready([o EXCEPT !.place = q]) /\ Mode([o EXCEPT !.place = q]) = Mode(o)
<1> DEFINE p == [o EXCEPT !.place = q]
<1>1. o \in Contact
    BY DEF Ready, Sane
<1>2. /\ p \in Contact /\ p.place = q /\ p.cqmode = o.cqmode /\ p.savedMode = o.savedMode
      /\ p.earlyStarted = o.earlyStarted /\ p.hiscallSent = o.hiscallSent /\ p.defer = o.defer
      /\ p.said = o.said /\ p.sentcall = o.sentcall /\ p.last = o.last
    BY <1>1 DEF Contact, Places
<1> HIDE DEF p
<1>3. Mode(p) = o.cqmode /\ Mode(o) = o.cqmode /\ o.cqmode # "AUTO_CQ"
    BY <1>1, <1>2, ReadyMode DEF Mode, Modes
<1>4. Sane(p)
    BY <1>2, <1>3 DEF Ready, Sane, ModeInv, LateInv, SentInv, HeardInv, KeyPlaces
<1> QED
    BY <1>2, <1>3, <1>4 DEF Ready, KeyPlaces, p

\* With keys that lead out of a contact only the mode and early keying are
\* kept track of.
LEMMA Unsteady ==
    ASSUME ~Steady, NEW p \in Contact, ModeInv(p), LateInv(p)
    PROVE  Sane(p)
BY DEF Sane, SentInv, HeardInv, Repeats

\* What was logged is remembered for one step.
LEMMA FreshSane ==
    ASSUME NEW o, Sane(o)
    PROVE  /\ Sane(Fresh(o)) /\ Mode(Fresh(o)) = Mode(o)
           /\ Fresh(o).place = o.place /\ Fresh(o).call = o.call
           /\ Fresh(o).comment = o.comment /\ Fresh(o).defer = o.defer
<1>1. CASE Fresh(o) = o
    BY <1>1
<1>2. CASE Fresh(o) = [o EXCEPT !.last = NoLog]
  <2> DEFINE p == [o EXCEPT !.last = NoLog]
  <2>1. o \in Contact /\ NoLog.enter = FALSE
      BY DEF Sane, NoLog
  <2>2. /\ p \in Contact /\ p.place = o.place /\ p.cqmode = o.cqmode /\ p.savedMode = o.savedMode
        /\ p.earlyStarted = o.earlyStarted /\ p.hiscallSent = o.hiscallSent
        /\ p.defer = o.defer /\ p.said = o.said /\ p.sentcall = o.sentcall /\ p.last = NoLog
        /\ p.call = o.call /\ p.comment = o.comment
      BY <2>1, CallTypes DEF Contact
  <2> HIDE DEF p
  <2>3. Sane(p) /\ Mode(p) = Mode(o)
      BY <2>1, <2>2 DEF Sane, ModeInv, LateInv, SentInv, HeardInv, Mode
  <2> QED
      BY <1>2, <2>2, <2>3 DEF p
<1> QED
    BY <1>1, <1>2 DEF Fresh

\* A call in the exchange field, and an exchange known beforehand.
LEMMA CallUpdateReady ==
    ASSUME NEW o, Ready(o)
    PROVE  Ready(CallUpdate(o)) /\ Mode(CallUpdate(o)) = Mode(o)
<1>1. CASE o.comment \in FixCalls
  <2> DEFINE p == [o EXCEPT !.call = o.comment]
  <2>1. o.comment \in Seq(Letters) /\ o \in Contact
      BY <1>1, CallTypes, ReadyMode
  <2>2. /\ p \in Contact /\ p.place = o.place /\ p.cqmode = o.cqmode /\ p.savedMode = o.savedMode
        /\ p.earlyStarted = o.earlyStarted /\ p.hiscallSent = o.hiscallSent
        /\ p.defer = o.defer /\ p.said = o.said /\ p.sentcall = o.sentcall /\ p.last = o.last
      BY <2>1 DEF Contact
  <2>3. CallUpdate(o) = p
      BY <1>1 DEF CallUpdate
  <2> HIDE DEF p
  <2> QED
      BY <2>2, <2>3, Alike DEF Ready
<1> QED
    BY <1>1 DEF CallUpdate

LEMMA PrefillReady ==
    ASSUME NEW o, Ready(o), NEW found
    PROVE  /\ Ready(Prefill(o, found)) /\ Mode(Prefill(o, found)) = Mode(o)
           /\ Prefill(o, found).place = o.place /\ Prefill(o, found).cqmode = o.cqmode
           /\ Prefill(o, found).call = o.call
           /\ Prefill(o, found).said = o.said /\ Prefill(o, found).sentcall = o.sentcall
<1> DEFINE p == [o EXCEPT !.comment = Text]
<1>1. o \in Contact
    BY ReadyMode
<1>2. /\ p \in Contact /\ p.place = o.place /\ p.cqmode = o.cqmode /\ p.savedMode = o.savedMode
      /\ p.earlyStarted = o.earlyStarted /\ p.hiscallSent = o.hiscallSent
      /\ p.defer = o.defer /\ p.said = o.said /\ p.sentcall = o.sentcall /\ p.last = o.last
      /\ p.call = o.call
    BY <1>1 DEF Contact, Comments
<1>3. Prefill(o, found) = p \/ Prefill(o, found) = o
    BY DEF Prefill
<1> HIDE DEF p
<1> QED
    BY <1>2, <1>3, Alike DEF Ready

LEMMA GetExchangeReady ==
    ASSUME NEW o, Ready(o), NEW found
    PROVE  Ready(GetExchange(o, found)) /\ Mode(GetExchange(o, found)) = Mode(o)
<1> DEFINE p == Prefill(o, found)
           q == [p EXCEPT !.place = "exch"]
<1>1. Ready(p) /\ Mode(p) = Mode(o)
    BY PrefillReady
<1> HIDE DEF p
<1>2. Ready(q) /\ Mode(q) = Mode(o)
    BY <1>1, Moved
<1> HIDE DEF q
<1>3. Ready(CallUpdate(q)) /\ Mode(CallUpdate(q)) = Mode(o)
    BY <1>2, CallUpdateReady
<1> QED
    BY <1>3 DEF GetExchange, p, q

\* The macro @ sends his call; said with the report it is the one to repeat.
LEMMA ExpandHisReady ==
    ASSUME setup \in Setup, NEW o, Ready(o), o.call # <<>> \/ setup.ctcomp
    PROVE  /\ Ready(ExpandHis(o)) /\ Mode(ExpandHis(o)) = Mode(o)
           /\ ExpandHis(o).place = o.place /\ ExpandHis(o).cqmode = o.cqmode
           /\ ExpandHis(o).call = o.call /\ ExpandHis(o).defer = o.defer
           /\ ExpandHis(o).said.xchg = o.said.xchg /\ ExpandHis(o).said.own = o.said.own
           /\ Repeats /\ o.cqmode = "CQ" =>
                  ExpandHis(o).said.call = o.call /\ ExpandHis(o).sentcall = o.call
<1>1. CASE setup.phone
    BY <1>1 DEF ExpandHis, Repeats
<1>2. CASE ~setup.phone
  <2> DEFINE rest == SubSeq(o.call, Len(o.hiscallSent) + 1, Len(o.call))
             p == ExpandHis(o)
  <2>1. o \in Contact /\ o.cqmode \in Modes /\ o.call \in Seq(Letters)
        /\ o.said \in OnAir /\ Mode(o) = o.cqmode
      BY ReadyMode DEF Contact
  <2>2. rest \in Seq(Letters) /\ (o.hiscallSent = <<>> => rest = o.call)
      BY <2>1, RestOfCall DEF Contact
  <2> HIDE DEF rest
  <2>3. p = [o EXCEPT
                !.said.call = IF o.hiscallSent = <<>> THEN rest ELSE @ \o rest,
                !.hiscallSent = <<>>,
                !.earlyStarted = IF o.hiscallSent # <<>> THEN FALSE ELSE @,
                !.sentcall = IF o.cqmode = "CQ" /\ setup.resend THEN o.call ELSE @]
      BY <1>2 DEF ExpandHis, rest
  <2>4. p.said \in OnAir /\ p.said.xchg = o.said.xchg /\ p.said.own = o.said.own
        /\ (o.hiscallSent = <<>> => p.said.call = rest)
    <3> DEFINE heard == IF o.hiscallSent = <<>> THEN rest ELSE o.said.call \o rest
    <3>1. heard \in Seq(Letters)
        BY <2>1, <2>2 DEF OnAir
    <3>2. p.said = [o.said EXCEPT !.call = heard]
        BY <2>1, <2>3 DEF Contact
    <3>3. o.hiscallSent = <<>> => heard = rest
        OBVIOUS
    <3> HIDE DEF heard, p
    <3> QED
        BY <2>1, <3>1, <3>2, <3>3 DEF OnAir
  <2>5. /\ p.place = o.place /\ p.cqmode = o.cqmode /\ p.savedMode = o.savedMode
        /\ p.hiscallSent = <<>> /\ p.defer = o.defer /\ p.last = o.last /\ p.call = o.call
        /\ p.earlyStarted \in {FALSE, o.earlyStarted}
        /\ p.sentcall = IF o.cqmode = "CQ" /\ setup.resend THEN o.call ELSE o.sentcall
      BY <2>1, <2>3 DEF Contact
  <2>6. p \in Contact
    <3>1. o.call \in Seq(Letters \cup {Query}) /\ <<>> \in Seq(Letters)
        BY <2>1, WiderCall
    <3> QED
        BY <2>1, <2>3, <2>4, <2>5, <3>1 DEF Contact
  <2> HIDE DEF p
  <2>7. Mode(p) = Mode(o)
      BY <2>5 DEF Mode
  <2>8. Repeats => o.hiscallSent = <<>>
      BY DEF Repeats, Ready, Sane, LateInv
  <2>9. ModeInv(p) /\ LateInv(p) /\ SentInv(p)
      BY <2>4, <2>5, <2>7 DEF Ready, Sane, ModeInv, LateInv, SentInv
  <2>10. HeardInv(p)
    <3> SUFFICES ASSUME Repeats PROVE HeardInv(p)
        BY DEF HeardInv
    <3>1. HeardInv(o) /\ setup.resend
        BY DEF Ready, Sane, Repeats
    <3>2. CASE o.cqmode = "CQ"
        BY <2>1, <2>2, <2>4, <2>5, <2>7, <2>8, <3>1, <3>2 DEF HeardInv
    <3>3. CASE o.cqmode # "CQ"
        BY <2>1, <2>5, <2>7, <3>1, <3>3 DEF HeardInv
    <3> QED
        BY <3>2, <3>3
  <2>11. Ready(p)
      BY <2>5, <2>6, <2>9, <2>10 DEF Ready, Sane
  <2> QED
      BY <2>2, <2>4, <2>5, <2>7, <2>8, <2>11 DEF p, Repeats
<1> QED
    BY <1>1, <1>2

\* The report, and the own call.
LEMMA SendExchangeReady ==
    ASSUME setup \in Setup, NEW o, Ready(o), o.call # <<>> \/ setup.ctcomp
    PROVE  /\ Ready(SendExchange(o)) /\ Mode(SendExchange(o)) = Mode(o)
           /\ SendExchange(o).place = o.place /\ SendExchange(o).cqmode = o.cqmode
           /\ SendExchange(o).call = o.call /\ SendExchange(o).said.xchg
           /\ Repeats /\ o.cqmode = "CQ" =>
                  SendExchange(o).said.call = o.call /\ SendExchange(o).sentcall = o.call
<1> DEFINE h == ExpandHis(o)
           p == [h EXCEPT !.said.xchg = TRUE]
<1>1. /\ Ready(h) /\ Mode(h) = Mode(o) /\ h.place = o.place /\ h.cqmode = o.cqmode
      /\ h.call = o.call
      /\ Repeats /\ o.cqmode = "CQ" => h.said.call = o.call /\ h.sentcall = o.call
    BY ExpandHisReady
<1>2. p = SendExchange(o)
    BY DEF SendExchange
<1> HIDE DEF h
<1>3. h \in Contact
    BY <1>1, ReadyMode
<1>4. /\ p \in Contact /\ p.place = h.place /\ p.cqmode = h.cqmode /\ p.savedMode = h.savedMode
      /\ p.earlyStarted = h.earlyStarted /\ p.hiscallSent = h.hiscallSent
      /\ p.defer = h.defer /\ p.sentcall = h.sentcall /\ p.last = h.last /\ p.call = h.call
      /\ p.said.call = h.said.call /\ p.said.own = h.said.own /\ p.said.xchg = TRUE
    BY <1>3 DEF Contact, OnAir
<1> HIDE DEF p
<1>5. Ready(p) /\ Mode(p) = Mode(h)
    BY <1>1, <1>4 DEF Ready, Sane, ModeInv, LateInv, SentInv, HeardInv, Mode
<1> QED
    BY <1>1, <1>2, <1>4, <1>5

LEMMA SendSpCallReady ==
    ASSUME NEW o, Ready(o)
    PROVE  /\ Ready(SendSpCall(o)) /\ Mode(SendSpCall(o)) = Mode(o)
           /\ SendSpCall(o).place = o.place /\ SendSpCall(o).cqmode = o.cqmode
           /\ SendSpCall(o).call = o.call /\ SendSpCall(o).said.own
<1> DEFINE p == [o EXCEPT !.said.own = TRUE]
<1>1. o \in Contact
    BY ReadyMode
<1>2. /\ p \in Contact /\ p.place = o.place /\ p.cqmode = o.cqmode /\ p.savedMode = o.savedMode
      /\ p.earlyStarted = o.earlyStarted /\ p.hiscallSent = o.hiscallSent
      /\ p.defer = o.defer /\ p.sentcall = o.sentcall /\ p.last = o.last /\ p.call = o.call
      /\ p.said.call = o.said.call /\ p.said.xchg = o.said.xchg /\ p.said.own = TRUE
    BY <1>1 DEF Contact, OnAir
<1>3. p = SendSpCall(o)
    BY DEF SendSpCall
<1> HIDE DEF p
<1>4. Ready(p) /\ Mode(p) = Mode(o)
    BY <1>2 DEF Ready, Sane, ModeInv, LateInv, SentInv, HeardInv, Mode
<1> QED
    BY <1>2, <1>3, <1>4

\* The fields are emptied, and the contact begins anew.
LEMMA CleanupSane ==
    ASSUME NEW o, Sane(o)
    PROVE  /\ Sane(Cleanup(o)) /\ Mode(Cleanup(o)) = Mode(o) /\ Cleanup(o).place = o.place
           /\ Cleanup(o).call = <<>> /\ Cleanup(o).comment = NoText /\ Cleanup(o).defer = 0
<1> DEFINE p == Cleanup(o)
<1>1. o \in Contact
    BY DEF Sane
<1>2. /\ p \in Contact /\ p.place = o.place /\ p.cqmode = o.cqmode /\ p.savedMode = o.savedMode
      /\ p.earlyStarted = o.earlyStarted /\ p.hiscallSent = o.hiscallSent
      /\ p.defer = 0 /\ p.last = o.last /\ p.call = <<>> /\ p.comment = NoText
    BY <1>1, CallTypes
       DEF Cleanup, CleanupQso, CleanupComment, CleanupHiscall, Contact, Comments
<1> HIDE DEF p
<1>3. Sane(p) /\ Mode(p) = Mode(o)
    BY <1>2 DEF Sane, ModeInv, LateInv, SentInv, HeardInv, Mode
<1> QED
    BY <1>2, <1>3 DEF p

\* A contact goes into the log.
LEMMA LogQsoReady ==
    ASSUME NEW o \in Contact, o.cqmode \in Modes, o.place \in KeyPlaces, LateInv(o),
           NEW enter \in BOOLEAN,
           Steady /\ enter => IF o.cqmode = "CQ" THEN o.said.xchg ELSE o.said.own,
           Repeats /\ enter /\ o.cqmode = "CQ" => o.said.call = o.call
    PROVE  Ready(LogQso(o, enter)) /\ SameMode(o, LogQso(o, enter))
<1> DEFINE p == LogQso(o, enter)
           log == [enter |-> enter, cq |-> (o.cqmode = "CQ"), call |-> o.call,
                   comment |-> o.comment, said |-> o.said]
<1>1. o \in Contact /\ o.cqmode \in Modes /\ Mode(o) = o.cqmode
    BY DEF Mode, KeyPlaces
<1>2. log \in Log
    BY <1>1 DEF Log, Contact
<1>3. /\ log.enter = enter /\ log.cq = (o.cqmode = "CQ") /\ log.call = o.call
      /\ log.said = o.said
    OBVIOUS
<1> HIDE DEF log
<1>4. p = [CleanupQso(o) EXCEPT
             !.place = "call", !.defer = 0, !.last = log,
             !.cqmode = IF setup.sprint THEN Other(@) ELSE @,
             !.worked = IF setup.nob4 THEN @ ELSE @ \cup {o.call}]
    BY DEF LogQso, log
<1>5. \A m \in Modes : Other(m) \in Modes
    BY DEF Other, Modes
<1> HIDE DEF p
<1> DEFINE q == CleanupQso(o)
<1>6. /\ q \in Contact /\ q.savedMode = o.savedMode /\ q.earlyStarted = o.earlyStarted
      /\ q.hiscallSent = o.hiscallSent /\ q.cqmode = o.cqmode
    BY <1>1, CallTypes DEF CleanupQso, CleanupComment, CleanupHiscall, Contact, Comments
<1> HIDE DEF q
<1>7. /\ p \in Contact /\ p.place = "call" /\ p.defer = 0 /\ p.last = log
      /\ p.savedMode = o.savedMode /\ p.earlyStarted = o.earlyStarted
      /\ p.hiscallSent = o.hiscallSent /\ p.cqmode \in Modes
      /\ ~setup.sprint => p.cqmode = o.cqmode
  <2>1. o.call \in Seq(Letters)
      BY <1>1 DEF Contact
  <2>2. p = [q EXCEPT !.place = "call", !.defer = 0, !.last = log,
                      !.cqmode = IF setup.sprint THEN Other(@) ELSE @,
                      !.worked = IF setup.nob4 THEN @ ELSE @ \cup {o.call}]
      BY <1>4 DEF q
  <2> QED
      BY <1>1, <1>2, <1>5, <1>6, <2>1, <2>2 DEF Contact, Places
<1>8. Mode(p) = p.cqmode /\ ModeInv(p)
    BY <1>7 DEF Mode, ModeInv, Modes
<1>9. LateInv(p)
    BY <1>7 DEF LateInv
<1>10. SentInv(p) /\ HeardInv(p)
    BY <1>3, <1>7 DEF SentInv, HeardInv
<1> QED
    BY <1>1, <1>7, <1>8, <1>9, <1>10 DEF Ready, Sane, SameMode, KeyPlaces, p

LEMMA SameModeTrans ==
    ASSUME NEW o, NEW p, Mode(p) = Mode(o), NEW q, SameMode(p, q)
    PROVE  SameMode(o, q)
BY DEF SameMode

LEMMA BackslashReady ==
    ASSUME NEW o, Ready(o)
    PROVE  Ready(Backslash(o)) /\ SameMode(o, Backslash(o))
<1>1. CASE o.call = <<>>
    BY <1>1, Moved DEF Backslash, ToCall, SameMode
<1>2. CASE o.call # <<>>
  <2>1. o \in Contact /\ o.cqmode \in Modes /\ o.place \in KeyPlaces /\ LateInv(o)
      BY ReadyMode DEF Ready, Sane
  <2>2. Ready(LogQso(o, FALSE)) /\ SameMode(o, LogQso(o, FALSE))
      BY <2>1, LogQsoReady
  <2> QED
      BY <1>2, <2>2 DEF Backslash
<1> QED
    BY <1>1, <1>2

\* The first Enter: the report in CQ mode, the own call in S&P mode.
LEMMA AnswerReady ==
    ASSUME setup \in Setup, NEW o, Ready(o), o.call # <<>>, NEW found,
           ~setup.ctcomp \/ setup.phone
    PROVE  Ready(Answer(o, found)) /\ Mode(Answer(o, found)) = Mode(o)
<1> DEFINE sent == IF o.cqmode = "CQ" THEN Prefill(SendExchange(o), found)
                                      ELSE SendSpCall(Prefill(o, found))
           p == [sent EXCEPT !.defer = 2]
<1>1. /\ Ready(sent) /\ Mode(sent) = Mode(o) /\ sent.place = o.place /\ sent.cqmode = o.cqmode
      /\ IF o.cqmode = "CQ" THEN sent.said.xchg ELSE sent.said.own
      /\ Repeats /\ o.cqmode = "CQ" => sent.said.call = o.call /\ sent.sentcall = o.call
  <2>1. CASE o.cqmode = "CQ"
    <3> DEFINE e == SendExchange(o)
    <3>1. /\ Ready(e) /\ Mode(e) = Mode(o) /\ e.place = o.place /\ e.cqmode = o.cqmode
          /\ e.said.xchg /\ (Repeats => e.said.call = o.call /\ e.sentcall = o.call)
        BY <2>1, SendExchangeReady
    <3>2. sent = Prefill(e, found)
        BY <2>1
    <3> HIDE DEF e, sent
    <3> QED
        BY <2>1, <3>1, <3>2, PrefillReady
  <2>2. CASE o.cqmode # "CQ"
    <3> DEFINE e == Prefill(o, found)
    <3>1. Ready(e) /\ Mode(e) = Mode(o) /\ e.place = o.place /\ e.cqmode = o.cqmode
        BY PrefillReady
    <3>2. sent = SendSpCall(e)
        BY <2>2
    <3> HIDE DEF e, sent
    <3> QED
        BY <2>2, <3>1, <3>2, SendSpCallReady
  <2> QED
      BY <2>1, <2>2
<1>2. Answer(o, found) = GetExchange(p, found)
    BY DEF Answer
<1> HIDE DEF sent
<1>3. sent \in Contact /\ Mode(sent) = sent.cqmode
    BY <1>1, ReadyMode
<1>4. /\ p \in Contact /\ p.place = sent.place /\ p.cqmode = sent.cqmode
      /\ p.savedMode = sent.savedMode /\ p.earlyStarted = sent.earlyStarted
      /\ p.hiscallSent = sent.hiscallSent /\ p.defer = 2 /\ p.said = sent.said
      /\ p.sentcall = sent.sentcall /\ p.last = sent.last
    BY <1>3 DEF Contact
<1> HIDE DEF p
<1>5. Mode(p) = p.cqmode
    BY <1>1, <1>3, <1>4 DEF Mode
<1>6. SentInv(p) /\ ModeInv(p) /\ LateInv(p)
    BY <1>1, <1>4, <1>5 DEF Ready, Sane, SentInv, ModeInv, LateInv
<1>7. HeardInv(p)
  <2>1. Repeats => ~setup.ctcomp
      BY DEF Repeats
  <2> QED
      BY <1>1, <1>4, <1>5, <2>1 DEF Ready, Sane, HeardInv
<1>8. Ready(p) /\ Mode(p) = Mode(o)
    BY <1>1, <1>3, <1>4, <1>5, <1>6, <1>7 DEF Ready, Sane
<1> QED
    BY <1>2, <1>8, GetExchangeReady

\* The second Enter: what was said goes into the log with the contact.
LEMMA FinishReady ==
    ASSUME setup \in Setup, NEW o, Ready(o), o.call # <<>>, o.defer # 0
    PROVE  Ready(Finish(o)) /\ SameMode(o, Finish(o))
<1>1. o \in Contact /\ Mode(o) = o.cqmode /\ o.cqmode \in Modes
    BY ReadyMode
<1>2. SentInv(o) /\ HeardInv(o) /\ LateInv(o) /\ o.place \in KeyPlaces
    BY DEF Ready, Sane
<1>3. CASE o.cqmode = "CQ"
  <2> DEFINE p == ResendCallsign(o)
  <2>1. /\ p \in Contact /\ p.place = o.place /\ p.cqmode = o.cqmode /\ p.call = o.call
        /\ p.earlyStarted = o.earlyStarted /\ p.hiscallSent = o.hiscallSent
        /\ p.said.xchg = o.said.xchg
        /\ p.said.call = IF o.sentcall # <<>> /\ o.call # o.sentcall THEN o.call ELSE o.said.call
      BY <1>1, CallTypes DEF ResendCallsign, Contact, OnAir
  <2>2. Finish(o) = LogQso(p, TRUE)
      BY <1>3 DEF Finish
  <2> HIDE DEF p
  <2>3. LateInv(p)
      BY <1>2, <2>1 DEF LateInv
  <2>4. Steady => p.said.xchg
      BY <1>1, <1>2, <1>3, <2>1 DEF SentInv
  <2>5. Repeats => p.said.call = p.call
    <3>1. o.call \in Seq(Letters)
        BY <1>1 DEF Contact
    <3> QED
        BY <1>1, <1>2, <1>3, <2>1, <3>1 DEF HeardInv
  <2>6. Ready(LogQso(p, TRUE)) /\ SameMode(p, LogQso(p, TRUE))
      BY <1>1, <1>2, <1>3, <2>1, <2>3, <2>4, <2>5, LogQsoReady
  <2>7. Mode(p) = Mode(o)
      BY <1>2, <2>1 DEF Mode, KeyPlaces
  <2> QED
      BY <2>2, <2>6, <2>7, SameModeTrans
<1>4. CASE o.cqmode # "CQ"
  <2> DEFINE p == ExpandHis(o)
  <2>1. /\ Ready(p) /\ Mode(p) = Mode(o) /\ p.cqmode = o.cqmode /\ p.said.own = o.said.own
      BY ExpandHisReady
  <2>2. Finish(o) = LogQso(p, TRUE)
      BY <1>4 DEF Finish
  <2> HIDE DEF p
  <2>3. Steady => p.said.own
      BY <1>1, <1>2, <1>4, <2>1 DEF SentInv
  <2>4. p \in Contact /\ p.cqmode \in Modes /\ p.place \in KeyPlaces /\ LateInv(p)
      BY <2>1, ReadyMode DEF Ready, Sane
  <2>5. Ready(LogQso(p, TRUE)) /\ SameMode(p, LogQso(p, TRUE))
      BY <1>4, <2>1, <2>3, <2>4, LogQsoReady
  <2> QED
      BY <2>1, <2>2, <2>5, SameModeTrans
<1> QED
    BY <1>3, <1>4

LEMMA EnterReady ==
    ASSUME setup \in Setup, NEW o, Ready(o), NEW found
    PROVE  Ready(Enter(o, found)) /\ SameMode(o, Enter(o, found))
<1>1. CASE setup.ctcomp /\ ~setup.phone
  <2> DEFINE p == [o EXCEPT !.comment = Text]
  <2>1. o \in Contact
      BY ReadyMode
  <2>2. /\ p \in Contact /\ p.place = o.place /\ p.cqmode = o.cqmode
        /\ p.savedMode = o.savedMode /\ p.earlyStarted = o.earlyStarted
        /\ p.hiscallSent = o.hiscallSent /\ p.defer = o.defer /\ p.said = o.said
        /\ p.sentcall = o.sentcall /\ p.last = o.last
      BY <2>1 DEF Contact, Comments
  <2> HIDE DEF p
  <2>3. Ready(p) /\ Mode(p) = Mode(o)
      BY <2>2, Alike DEF Ready
  <2>4. Ready(Backslash(p)) /\ SameMode(o, Backslash(p))
      BY <2>3, BackslashReady, SameModeTrans
  <2> QED
      BY <1>1, <2>4 DEF Enter, p
<1>2. CASE ~(setup.ctcomp /\ ~setup.phone) /\ (~IsCall(o.call) \/ ~setup.contest)
    BY <1>2, Moved DEF Enter, ToCall, SameMode
<1>3. CASE ~(setup.ctcomp /\ ~setup.phone) /\ IsCall(o.call) /\ setup.contest
  <2>1. o.call # <<>>
      BY <1>3 DEF IsCall, MinLen
  <2>2. CASE Deferred(o) = 0
    <3>1. ~setup.ctcomp \/ setup.phone
        BY <1>3
    <3>2. Ready(Answer(o, found)) /\ Mode(Answer(o, found)) = Mode(o)
        BY <2>1, <3>1, AnswerReady
    <3> QED
        BY <1>3, <2>2, <3>2 DEF Enter, SameMode
  <2>3. CASE Deferred(o) # 0
    <3>1. o.defer # 0
        BY <2>3 DEF Deferred
    <3> QED
        BY <1>3, <2>1, <2>3, <3>1, FinishReady DEF Enter
  <2> QED
      BY <2>2, <2>3
<1> QED
    BY <1>1, <1>2, <1>3

\* Keying starts before Enter only with CWSTART.
LEMMA AutosendReady ==
    ASSUME NEW o, Ready(o), setup.cwstart # 0
    PROVE  Ready(Autosend(o)) /\ Mode(Autosend(o)) = Mode(o)
<1> DEFINE p == Autosend(o)
<1>1. o \in Contact /\ Mode(o) = o.cqmode /\ o.cqmode \in Modes
    BY ReadyMode
<1>2. /\ p \in Contact /\ p.place = "early" /\ p.cqmode = o.cqmode /\ p.savedMode = o.savedMode
      /\ p.defer = o.defer /\ p.last = o.last
      /\ p.said.xchg = o.said.xchg /\ p.said.own = o.said.own
    BY <1>1 DEF Autosend, Contact, OnAir, Places
<1> HIDE DEF p
<1>3. Mode(p) = Mode(o) /\ ModeInv(p)
    BY <1>1, <1>2 DEF Mode, ModeInv, Modes
<1>4. SentInv(p) /\ LateInv(p) /\ HeardInv(p)
    BY <1>2, <1>3 DEF Ready, Sane, SentInv, LateInv, HeardInv, Repeats
<1> QED
    BY <1>2, <1>3, <1>4 DEF Ready, Sane, KeyPlaces, p

LEMMA LeaveReady ==
    ASSUME setup \in Setup, NEW o, Ready(o), NEW found
    PROVE  Ready(Leave(o, found)) /\ SameMode(o, Leave(o, found))
<1>1. CASE setup.cwstart < 0 /\ MayStartEarly(o) /\ Len(o.call) >= StartLen
  <2>1. setup.cwstart # 0
      BY <1>1
  <2>2. Ready(Autosend(o)) /\ Mode(Autosend(o)) = Mode(o)
      BY <2>1, AutosendReady
  <2> QED
      BY <1>1, <2>2 DEF Leave, SameMode
<1>2. CASE ~(setup.cwstart < 0 /\ MayStartEarly(o) /\ Len(o.call) >= StartLen)
  <2>1. Leave(o, found) = Enter(o, found)
      BY <1>2 DEF Leave
  <2> QED
      BY <2>1, EnterReady
<1> QED
    BY <1>1, <1>2

LEMMA TypedReady ==
    ASSUME NEW o, Ready(o), NEW i \in 0..Len(o.call), NEW x \in Letters
    PROVE  Ready(Typed(o, i, x)) /\ Mode(Typed(o, i, x)) = Mode(o)
<1> DEFINE c == InsertAt(o.call, i, x)
           p == [o EXCEPT !.call = c]
<1>1. o \in Contact /\ o.call \in Seq(Letters)
    BY ReadyMode DEF Contact
<1>2. c \in Seq(Letters)
    BY <1>1, EditedCall
<1>3. Typed(o, i, x) = IF MayStartEarly(o) /\ i = Len(o.call) /\ Len(p.call) = setup.cwstart
                       THEN Autosend(p) ELSE p
    BY DEF Typed
<1>4. p.call = c
    BY <1>1 DEF Contact
<1>5. i = Len(o.call) => Len(c) # 0
  <2>1. i = Len(o.call) => Len(c) = i + 1
      BY <1>1 DEF InsertAt
  <2> QED
      BY <2>1
<1> HIDE DEF c
<1>6. /\ p \in Contact /\ p.place = o.place /\ p.cqmode = o.cqmode /\ p.savedMode = o.savedMode
      /\ p.earlyStarted = o.earlyStarted /\ p.hiscallSent = o.hiscallSent
      /\ p.defer = o.defer /\ p.said = o.said /\ p.sentcall = o.sentcall /\ p.last = o.last
    BY <1>1, <1>2 DEF Contact
<1> HIDE DEF p
<1>7. Ready(p) /\ Mode(p) = Mode(o)
    BY <1>6, Alike DEF Ready
<1>8. CASE MayStartEarly(o) /\ i = Len(o.call) /\ Len(p.call) = setup.cwstart
  <2>1. setup.cwstart # 0
      BY <1>4, <1>5, <1>8
  <2> QED
      BY <1>3, <1>7, <1>8, <2>1, AutosendReady
<1> QED
    BY <1>3, <1>7, <1>8

\* Changes of fields between which only the place, the mode and early keying
\* stay what they are.
Loose(o, p) ==
    /\ p \in Contact /\ p.place = o.place /\ p.cqmode = o.cqmode /\ p.savedMode = o.savedMode
    /\ p.earlyStarted = o.earlyStarted /\ p.hiscallSent = o.hiscallSent

LEMMA LooseSane ==
    ASSUME ~Steady, NEW o, Sane(o), NEW p, Loose(o, p)
    PROVE  Sane(p) /\ Mode(p) = Mode(o)
<1>1. ModeInv(p) /\ LateInv(p) /\ Mode(p) = Mode(o)
    BY DEF Loose, Sane, ModeInv, LateInv, Mode
<1> QED
    BY <1>1, Unsteady DEF Loose

LEMMA EditComment ==
    ASSUME NEW o, Sane(o)
    PROVE  /\ Sane(CleanupComment(o)) /\ Mode(CleanupComment(o)) = Mode(o)
           /\ CleanupComment(o).place = o.place /\ CleanupComment(o).comment = NoText
           /\ Loose(o, CleanupComment(o))
           /\ Sane(RestoreComment(o)) /\ Mode(RestoreComment(o)) = Mode(o)
           /\ RestoreComment(o).place = o.place /\ Loose(o, RestoreComment(o))
<1>1. o \in Contact
    BY DEF Sane
<1>2. ASSUME NEW p \in {CleanupComment(o), RestoreComment(o)}
      PROVE  /\ p \in Contact /\ p.place = o.place /\ p.cqmode = o.cqmode
             /\ p.savedMode = o.savedMode /\ p.earlyStarted = o.earlyStarted
             /\ p.hiscallSent = o.hiscallSent /\ p.defer = o.defer /\ p.said = o.said
             /\ p.sentcall = o.sentcall /\ p.last = o.last
  <2>1. CASE p = CleanupComment(o)
      BY <1>1, <2>1 DEF CleanupComment, Contact, Comments
  <2>2. CASE p = RestoreComment(o) /\ o.oldComment = Unset
      BY <1>1, <2>2 DEF RestoreComment
  <2>3. CASE p = RestoreComment(o) /\ o.oldComment # Unset
      BY <1>1, <2>3 DEF RestoreComment, Contact
  <2> QED
      BY <1>2, <2>1, <2>2, <2>3
<1>3. CleanupComment(o).comment = NoText
    BY <1>1 DEF CleanupComment, Contact
<1>4. ASSUME NEW p \in {CleanupComment(o), RestoreComment(o)}
      PROVE  Sane(p) /\ Mode(p) = Mode(o) /\ p.place = o.place /\ Loose(o, p)
    BY <1>2, Alike DEF Loose
<1> QED
    BY <1>3, <1>4

LEMMA EditHiscall ==
    ASSUME NEW o \in Contact
    PROVE  /\ Loose(o, CleanupHiscall(o)) /\ Loose(o, RestoreHiscall(o))
           /\ Loose(o, [o EXCEPT !.call = <<>>, !.said = Silence])
           /\ \A c \in Seq(Letters) : Loose(o, [o EXCEPT !.call = c, !.said = Silence])
<1>1. <<>> \in Seq(Letters) /\ Silence \in OnAir
    BY CallTypes
<1>2. Loose(o, CleanupHiscall(o))
    BY <1>1 DEF CleanupHiscall, Contact, Loose
<1>3. Loose(o, RestoreHiscall(o))
  <2>1. CASE o.oldCall = Unset
      BY <2>1 DEF RestoreHiscall, Loose
  <2>2. CASE o.oldCall # Unset
      BY <2>2 DEF RestoreHiscall, Contact, Loose
  <2> QED
      BY <2>1, <2>2
<1>4. \A c \in Seq(Letters) : Loose(o, [o EXCEPT !.call = c, !.said = Silence])
    BY <1>1 DEF Contact, Loose
<1> QED
    BY <1>1, <1>2, <1>3, <1>4

-----------------------------------------------------------------------------
(* Steps.                                                                  *)

\* A step keeps the invariant when it leads to a sane contact and a sane
\* frequency.
LEMMA Kept ==
    ASSUME IInv, NEW p, Sane(p), NEW r \in Station, NEW n \in 0..3,
           FreqInv(p, r), GrabInv(r), EscInv(p, n),
           op' = Fresh(p), rig' = r, escs' = n, setup' = setup
    PROVE  IInv'
<1> DEFINE q == Fresh(p)
<1>1. /\ Sane(q) /\ Mode(q) = Mode(p) /\ q.place = p.place /\ q.call = p.call
      /\ q.comment = p.comment /\ q.defer = p.defer
    BY FreshSane
<1>2. op' = q
    OBVIOUS
<1> HIDE DEF q
<1>3. Sane(op)'
    BY <1>1, <1>2 DEF Sane, ModeInv, LateInv, SentInv, HeardInv, Repeats, Steady, Mode
<1>4. FreqInv(op, rig)'
    BY <1>1, <1>2 DEF FreqInv, Mode
<1>5. GrabInv(rig)'
    BY DEF GrabInv, Steady
<1>6. EscInv(op, escs)'
    BY <1>1, <1>2 DEF EscInv
<1>7. TypeOK'
    BY <1>1, <1>2 DEF IInv, TypeOK, Sane
<1> QED
    BY <1>3, <1>4, <1>5, <1>6, <1>7 DEF IInv

\* The radio stays where it is.
LEMMA KeyKept ==
    ASSUME IInv, NEW p, Sane(p), SameMode(op, p), p.place # "wait", op.place # "wait",
           NEW r \in Station, r.want = rig.want, r.freq = rig.freq, r.mem = rig.mem,
           r.run = rig.run, r.grab = rig.grab \/ ~Steady,
           NEW n \in 0..3, EscInv(p, n),
           op' = Fresh(p), rig' = r, escs' = n, setup' = setup
    PROVE  IInv'
<1>1. FreqInv(op, rig) /\ GrabInv(rig)
    BY DEF IInv
<1>2. FreqInv(p, r)
    BY <1>1 DEF FreqInv, SameMode, Has
<1>3. GrabInv(r)
    BY <1>1 DEF GrabInv
<1> QED
    BY <1>2, <1>3, Kept

LEMMA NoEsc == \A o : EscInv(o, 0)
BY DEF EscInv

LEMMA DoKept ==
    ASSUME IInv, NEW p, Sane(p), SameMode(op, p), p.place # "wait", op.place # "wait", Do(p)
    PROVE  IInv'
<1>1. rig \in Station
    BY DEF IInv, TypeOK
<1>2. op' = Fresh(p) /\ rig' = rig /\ escs' = 0 /\ setup' = setup
    BY DEF Do
<1> QED
    BY <1>1, <1>2, NoEsc, KeyKept

\* The same with a note of where the call was typed.
LEMMA DoBothKept ==
    ASSUME IInv, NEW p, Sane(p), SameMode(op, p), p.place # "wait", op.place # "wait",
           NEW f \in Freqs \cup {NoFreq}, DoBoth(p, [rig EXCEPT !.typedAt = f])
    PROVE  IInv'
<1> DEFINE r == [rig EXCEPT !.typedAt = f]
<1>1. rig \in Station
    BY DEF IInv, TypeOK
<1>2. /\ r \in Station /\ r.want = rig.want /\ r.freq = rig.freq /\ r.mem = rig.mem
      /\ r.run = rig.run /\ r.grab = rig.grab
    BY <1>1 DEF Station
<1>3. op' = Fresh(p) /\ rig' = r /\ escs' = 0 /\ setup' = setup
    BY DEF DoBoth
<1> HIDE DEF r
<1> QED
    BY <1>2, <1>3, NoEsc, KeyKept

\* The contact in which the invariant finds a key pressed.
LEMMA AtKey ==
    ASSUME IInv, op.place \in KeyPlaces
    PROVE  /\ Ready(op) /\ setup \in Setup /\ op \in Contact /\ rig \in Station
           /\ op.call \in Seq(Letters) /\ op.place # "wait" /\ rig.freq \in Freqs
<1>1. setup \in Setup
    BY SetupType DEF IInv, TypeOK
<1> QED
    BY <1>1 DEF IInv, TypeOK, Ready, KeyPlaces, Contact, Station

LEMMA ReadySame ==
    ASSUME NEW o, NEW p, Ready(p), Mode(p) = Mode(o) \/ SameMode(o, p)
    PROVE  Sane(p) /\ SameMode(o, p) /\ p.place # "wait"
BY DEF Ready, KeyPlaces, SameMode

\* The keys of the call field that are not about other contacts.
LEMMA CallKeysStep ==
    ASSUME IInv,
           \/ TypeCall \/ EraseCall \/ LeaveCall \/ EnterEmpty \/ EnterCall \/ BackslashCall
           \/ SendKey \/ SendOwn \/ InsertCall \/ StartAutoCq
    PROVE  IInv'
<1>a. At("call") /\ op.place = "call" /\ op.place \in KeyPlaces
    BY DEF TypeCall, EraseCall, LeaveCall, EnterEmpty, EnterCall, BackslashCall,
           SendKey, SendOwn, InsertCall, StartAutoCq, At, KeyPlaces
<1>b. /\ Ready(op) /\ Sane(op) /\ setup \in Setup /\ op \in Contact /\ rig \in Station
      /\ op.call \in Seq(Letters) /\ op.place # "wait" /\ rig.freq \in Freqs
    BY <1>a, AtKey DEF Ready
<1>c. ASSUME NEW p, Ready(p), Mode(p) = Mode(op) \/ SameMode(op, p), Do(p)
      PROVE  IInv'
    BY <1>b, <1>c, ReadySame, DoKept
<1>1. CASE TypeCall
  <2>1. PICK x \in Letters, i \in 0..Len(op.call) :
            DoBoth(Typed(op, i, x), [rig EXCEPT !.typedAt = rig.freq])
      BY <1>1 DEF TypeCall
  <2>2. Ready(Typed(op, i, x)) /\ Mode(Typed(op, i, x)) = Mode(op)
      BY <1>b, TypedReady
  <2>3. Sane(Typed(op, i, x)) /\ SameMode(op, Typed(op, i, x)) /\ Typed(op, i, x).place # "wait"
      BY <2>2, ReadySame
  <2> QED
      BY <1>b, <2>1, <2>3, DoBothKept
<1>2. CASE EraseCall
  <2>1. PICK i \in 1..Len(op.call) : Do([op EXCEPT !.call = DeleteAt(op.call, i)])
      BY <1>2 DEF EraseCall
  <2> DEFINE c == DeleteAt(op.call, i)
             p == [op EXCEPT !.call = c]
  <2>2. c \in Seq(Letters)
    <3>1. PICK x : x \in Letters
        BY <1>b, <2>1
    <3> QED
        BY <1>b, <3>1, EditedCall
  <2> HIDE DEF c
  <2>3. /\ p \in Contact /\ p.place = op.place /\ p.cqmode = op.cqmode
        /\ p.savedMode = op.savedMode /\ p.earlyStarted = op.earlyStarted
        /\ p.hiscallSent = op.hiscallSent /\ p.defer = op.defer /\ p.said = op.said
        /\ p.sentcall = op.sentcall /\ p.last = op.last
      BY <1>b, <2>2 DEF Contact
  <2>4. Do(p)
      BY <2>1 DEF c
  <2> HIDE DEF p
  <2> QED
      BY <1>b, <1>c, <2>3, <2>4, Alike DEF Ready
<1>3. CASE LeaveCall
    BY <1>3, <1>b, <1>c, GetExchangeReady DEF LeaveCall
<1>4. CASE BackslashCall
    BY <1>4, <1>b, <1>c, BackslashReady DEF BackslashCall
<1>5. CASE SendOwn
    BY <1>5, <1>b, <1>c, SendSpCallReady DEF SendOwn
<1>6. CASE InsertCall
  <2>1. PICK found \in Recallable : Do(GetExchange(SendExchange(op), found)) /\ setup.ctcomp
      BY <1>6 DEF InsertCall
  <2> DEFINE p == SendExchange(op)
  <2>2. Ready(p) /\ Mode(p) = Mode(op)
      BY <1>b, <2>1, SendExchangeReady
  <2> HIDE DEF p
  <2>3. Ready(GetExchange(p, found)) /\ Mode(GetExchange(p, found)) = Mode(op)
      BY <2>2, GetExchangeReady
  <2> QED
      BY <1>c, <2>1, <2>3 DEF p
<1>7. CASE SendKey
  <2>1. op.call # <<>>
      BY <1>7 DEF SendKey
  <2>2. CASE Do(SendExchange(op))
      BY <1>b, <1>c, <2>1, <2>2, SendExchangeReady
  <2>3. CASE Do([ExpandHis(op) EXCEPT !.sentcall = IF @ = op.call THEN Append(@, Query) ELSE @])
    <3> DEFINE h == ExpandHis(op)
               p == [h EXCEPT !.sentcall = IF @ = op.call THEN Append(@, Query) ELSE @]
    <3>1. Ready(h) /\ Mode(h) = Mode(op)
        BY <1>b, <2>1, ExpandHisReady
    <3>2. Do(p)
        BY <2>3
    <3> HIDE DEF h
    <3>3. h \in Contact /\ Mode(h) = h.cqmode /\ HeardInv(h)
        BY <3>1, ReadyMode DEF Ready, Sane
    <3>4. /\ p \in Contact /\ p.place = h.place /\ p.cqmode = h.cqmode
          /\ p.savedMode = h.savedMode /\ p.earlyStarted = h.earlyStarted
          /\ p.hiscallSent = h.hiscallSent /\ p.defer = h.defer /\ p.said = h.said
          /\ p.last = h.last
          /\ p.sentcall = IF h.sentcall = op.call THEN Append(op.call, Query) ELSE h.sentcall
        BY <1>b, <3>3, AskedCall, ZenonT(30) DEF Contact
    <3> HIDE DEF p
    <3>5. HeardInv(p) /\ Mode(p) = Mode(h)
      <4>1. Append(op.call, Query) # <<>> /\ Append(op.call, Query) \notin Seq(Letters)
          BY <1>b, AskedCall
      <4>2. Mode(p) = Mode(h)
          BY <3>4 DEF Mode
      <4> QED
          BY <3>3, <3>4, <4>1, <4>2 DEF HeardInv
    <3>6. Ready(p)
        BY <3>1, <3>4, <3>5 DEF Ready, Sane, ModeInv, LateInv, SentInv
    <3> QED
        BY <1>c, <3>1, <3>2, <3>5, <3>6
  <2> QED
      BY <1>7, <2>2, <2>3 DEF SendKey
<1>8. CASE EnterCall
  <2>1. PICK found \in Recallable :
            \/ Do(Backslash(op))
            \/ IsCall(op.call) /\ Do(Cleanup(ExpandHis(op)))
            \/ Do(Leave(op, found))
      BY <1>8 DEF EnterCall
  <2>2. op.call # <<>>
      BY <1>8 DEF EnterCall
  <2>3. CASE Do(Backslash(op))
      BY <1>b, <1>c, <2>3, BackslashReady
  <2>4. CASE Do(Cleanup(ExpandHis(op)))
    <3> DEFINE h == ExpandHis(op)
    <3>1. Ready(h) /\ Mode(h) = Mode(op)
        BY <1>b, <2>2, ExpandHisReady
    <3> HIDE DEF h
    <3>2. Ready(Cleanup(h)) /\ Mode(Cleanup(h)) = Mode(op)
        BY <3>1, CleanupSane DEF Ready
    <3> QED
        BY <1>c, <2>4, <3>2 DEF h
  <2>5. CASE Do(Leave(op, found))
      BY <1>b, <1>c, <2>5, LeaveReady
  <2> QED
      BY <2>1, <2>3, <2>4, <2>5
<1>9. CASE EnterEmpty \/ StartAutoCq
  <2>1. CASE \E f \in BOOLEAN :
                 Do([op EXCEPT !.place = "autocq", !.savedMode = op.cqmode,
                               !.cqmode = "AUTO_CQ", !.f12 = f])
    <3>1. PICK f \in BOOLEAN :
              Do([op EXCEPT !.place = "autocq", !.savedMode = op.cqmode,
                            !.cqmode = "AUTO_CQ", !.f12 = f])
        BY <2>1
    <3> DEFINE p == [op EXCEPT !.place = "autocq", !.savedMode = op.cqmode,
                               !.cqmode = "AUTO_CQ", !.f12 = f]
    <3>2. op.cqmode \in Modes /\ Mode(op) = op.cqmode
        BY <1>b, ReadyMode
    <3>3. /\ p \in Contact /\ p.place = "autocq" /\ p.cqmode = "AUTO_CQ"
          /\ p.savedMode = op.cqmode /\ p.earlyStarted = op.earlyStarted
          /\ p.hiscallSent = op.hiscallSent /\ p.defer = op.defer /\ p.said = op.said
          /\ p.sentcall = op.sentcall /\ p.last = op.last
        BY <1>b, <3>2 DEF Contact, Places
    <3>4. Do(p)
        BY <3>1
    <3> HIDE DEF p
    <3>5. Mode(p) = Mode(op)
        BY <3>2, <3>3 DEF Mode
    <3>6. Sane(p)
        BY <1>b, <3>2, <3>3, <3>5 DEF Sane, ModeInv, LateInv, SentInv, HeardInv
    <3> QED
        BY <1>b, <3>3, <3>4, <3>5, <3>6, DoKept DEF SameMode
  <2>2. CASE \E found \in Recallable : Do(Enter(op, found))
      BY <1>b, <1>c, <2>2, EnterReady
  <2>3. CASE Do(SendSpCall(op))
      BY <1>b, <1>c, <2>3, SendSpCallReady
  <2> QED
      BY <1>9, <2>1, <2>2, <2>3 DEF EnterEmpty, StartAutoCq
<1> QED
    BY <1>1, <1>2, <1>3, <1>4, <1>5, <1>6, <1>7, <1>8, <1>9

\* The comment alone.
LEMMA CommentReady ==
    ASSUME NEW o, Ready(o), NEW c \in Comments
    PROVE  Ready([o EXCEPT !.comment = c]) /\ Mode([o EXCEPT !.comment = c]) = Mode(o)
<1> DEFINE p == [o EXCEPT !.comment = c]
<1>1. o \in Contact
    BY ReadyMode
<1>2. /\ p \in Contact /\ p.place = o.place /\ p.cqmode = o.cqmode /\ p.savedMode = o.savedMode
      /\ p.earlyStarted = o.earlyStarted /\ p.hiscallSent = o.hiscallSent
      /\ p.defer = o.defer /\ p.said = o.said /\ p.sentcall = o.sentcall /\ p.last = o.last
    BY <1>1 DEF Contact
<1> HIDE DEF p
<1>3. Ready(p) /\ Mode(p) = Mode(o)
    BY <1>2, Alike DEF Ready
<1> QED
    BY <1>3 DEF p

\* Plus, and the keys that wipe a field.
LEMMA OtherCallKeysStep ==
    ASSUME IInv, PlusCall \/ WipeCall
    PROVE  IInv'
<1>a. op.place = "call" /\ op.place \in KeyPlaces
    BY DEF PlusCall, WipeCall, At, KeyPlaces
<1>b. /\ Ready(op) /\ Sane(op) /\ setup \in Setup /\ op \in Contact /\ rig \in Station
      /\ op.call \in Seq(Letters) /\ op.place # "wait" /\ rig.freq \in Freqs
    BY <1>a, AtKey DEF Ready
<1>1. CASE PlusCall /\ setup.ctcomp
  <2> DEFINE o == Prefill(op, FALSE)
  <2>1. Ready(o) /\ Mode(o) = Mode(op) /\ Do(Backslash(o))
      BY <1>1, <1>b, PrefillReady DEF PlusCall
  <2> HIDE DEF o
  <2>2. Ready(Backslash(o)) /\ SameMode(op, Backslash(o))
      BY <2>1, BackslashReady, SameModeTrans
  <2> QED
      BY <1>b, <2>1, <2>2, ReadySame, DoKept
<1>2. CASE PlusCall /\ ~setup.ctcomp
  <2> DEFINE p == [op EXCEPT !.cqmode = Other(@)]
  <2>1. Has("mode") /\ Do(p) /\ ~Steady
      BY <1>2 DEF PlusCall, Has, Steady
  <2>2. /\ p \in Contact /\ p.place = "call" /\ p.cqmode \in Modes
        /\ p.earlyStarted = op.earlyStarted /\ p.hiscallSent = op.hiscallSent
    <3>1. op.cqmode \in Modes /\ \A m \in Modes : Other(m) \in Modes
        BY <1>b, ReadyMode DEF Other, Modes
    <3> QED
        BY <1>a, <1>b, <3>1 DEF Contact
  <2> HIDE DEF p
  <2>3. ModeInv(p) /\ LateInv(p) /\ SameMode(op, p)
      BY <1>b, <2>1, <2>2 DEF ModeInv, LateInv, Modes, Sane, SameMode
  <2> QED
      BY <1>b, <2>1, <2>2, <2>3, Unsteady, DoKept
<1>3. CASE WipeCall
  <2>1. ~Steady
      BY <1>3 DEF WipeCall, Has, Steady
  <2>2. PICK p \in {CleanupComment(CleanupHiscall(op)), RestoreComment(RestoreHiscall(op)),
                    CleanupHiscall(op), RestoreHiscall(op),
                    [op EXCEPT !.call = <<>>, !.said = Silence]} : Do(p)
      BY <1>3 DEF WipeCall
  <2>3. ASSUME NEW o, Loose(op, o)
        PROVE  Sane(o) /\ Mode(o) = Mode(op) /\ o.place = "call"
      BY <1>a, <1>b, <2>1, <2>3, LooseSane DEF Loose
  <2>4. Loose(op, CleanupHiscall(op)) /\ Loose(op, RestoreHiscall(op))
        /\ Loose(op, [op EXCEPT !.call = <<>>, !.said = Silence])
      BY <1>b, EditHiscall
  <2>5. /\ Sane(CleanupHiscall(op)) /\ Mode(CleanupHiscall(op)) = Mode(op)
        /\ CleanupHiscall(op).place = "call"
        /\ Sane(RestoreHiscall(op)) /\ Mode(RestoreHiscall(op)) = Mode(op)
        /\ RestoreHiscall(op).place = "call"
      BY <2>3, <2>4
  <2>6. Sane(p) /\ Mode(p) = Mode(op) /\ p.place = "call"
    <3>1. CASE p = CleanupComment(CleanupHiscall(op))
        BY <2>5, <3>1, EditComment
    <3>2. CASE p = RestoreComment(RestoreHiscall(op))
        BY <2>5, <3>2, EditComment
    <3>3. CASE p = CleanupHiscall(op) \/ p = RestoreHiscall(op)
        BY <2>5, <3>3
    <3>4. CASE p = [op EXCEPT !.call = <<>>, !.said = Silence]
        BY <2>3, <2>4, <3>4
    <3> QED
        BY <2>2, <3>1, <3>2, <3>3, <3>4
  <2> QED
      BY <1>b, <2>2, <2>6, DoKept DEF SameMode
<1> QED
    BY <1>1, <1>2, <1>3

\* The end of automatic CQ, and keying while the call is typed.
LEMMA CqStep ==
    ASSUME IInv, AutoCqEnds \/ EarlyType \/ EarlyEnd
    PROVE  IInv'
<1>a. setup \in Setup /\ op \in Contact /\ rig \in Station /\ op.call \in Seq(Letters)
      /\ rig.freq \in Freqs /\ Sane(op)
    BY SetupType DEF IInv, TypeOK, Contact, Station
<1>1. CASE AutoCqEnds
  <2> DEFINE c == Called
  <2>1. op.place = "autocq"
      BY <1>1 DEF AutoCqEnds, At
  <2>2. /\ c \in Contact /\ c.place = "call" /\ c.cqmode = op.savedMode
        /\ c.savedMode = op.savedMode /\ c.earlyStarted = op.earlyStarted
        /\ c.hiscallSent = op.hiscallSent /\ c.defer = op.defer /\ c.said = op.said
        /\ c.sentcall = op.sentcall /\ c.last = op.last /\ c.call = op.call
        /\ c.cqmode \in Modes
      BY <1>a DEF Called, ToCall, Contact, Places
  <2> HIDE DEF c
  <2>3. Mode(c) = Mode(op)
      BY <2>1, <2>2 DEF Mode
  <2>4. Ready(c)
      BY <1>a, <2>2, <2>3
         DEF Ready, Sane, ModeInv, LateInv, SentInv, HeardInv, KeyPlaces, Modes
  <2>5. ASSUME NEW p, Ready(p), Mode(p) = Mode(c) \/ SameMode(c, p),
               NEW f \in Freqs \cup {NoFreq}, Do(p) \/ DoBoth(p, [rig EXCEPT !.typedAt = f])
        PROVE  IInv'
    <3>1. Mode(p) = Mode(op) \/ SameMode(op, p)
        BY <2>3, <2>5, SameModeTrans
    <3>2. Sane(p) /\ SameMode(op, p) /\ p.place # "wait" /\ op.place # "wait"
        BY <2>1, <2>5, <3>1, ReadySame
    <3> QED
        BY <2>5, <3>2, DoKept, DoBothKept
  <2>6. CASE Do(c)
      BY <1>a, <2>4, <2>5, <2>6
  <2>7. CASE \E x \in Letters :
                 DoBoth(Typed(c, Len(op.call), x), [rig EXCEPT !.typedAt = rig.freq])
    <3>1. PICK x \in Letters :
              DoBoth(Typed(c, Len(op.call), x), [rig EXCEPT !.typedAt = rig.freq])
        BY <2>7
    <3>2. Len(op.call) \in 0..Len(c.call)
        BY <1>a, <2>2
    <3>3. Ready(Typed(c, Len(op.call), x))
          /\ Mode(Typed(c, Len(op.call), x)) = Mode(c)
        BY <2>4, <3>2, TypedReady
    <3> QED
        BY <1>a, <2>5, <3>1, <3>3
  <2>8. CASE \E found \in Recallable : Do(Leave(c, found))
      BY <1>a, <2>4, <2>5, <2>8, LeaveReady
  <2>9. CASE DoBoth(IF op.earlyStarted THEN c ELSE Cleanup(c), [rig EXCEPT !.typedAt = NoFreq])
    <3>1. Ready(Cleanup(c)) /\ Mode(Cleanup(c)) = Mode(c)
        BY <2>4, CleanupSane DEF Ready
    <3> QED
        BY <2>4, <2>5, <2>9, <3>1
  <2> QED
      BY <1>1, <2>6, <2>7, <2>8, <2>9 DEF AutoCqEnds, c
<1>2. CASE EarlyType
  <2>1. op.place = "early" /\ op.place \in KeyPlaces /\ setup.cwstart # 0
      BY <1>2, <1>a DEF EarlyType, At, KeyPlaces, Sane, LateInv
  <2>2. PICK x \in Letters :
            Do([op EXCEPT !.call = Append(@, x), !.hiscallSent = Append(@, x),
                          !.said.call = Append(@, x)])
      BY <1>2 DEF EarlyType
  <2> DEFINE p == [op EXCEPT !.call = Append(@, x), !.hiscallSent = Append(@, x),
                             !.said.call = Append(@, x)]
  <2>3. \A c \in Seq(Letters) : Append(c, x) \in Seq(Letters)
      BY EditedCall
  <2>4. /\ p \in Contact /\ p.place = "early" /\ p.cqmode = op.cqmode
        /\ p.savedMode = op.savedMode /\ p.defer = op.defer /\ p.last = op.last
        /\ p.said.xchg = op.said.xchg /\ p.said.own = op.said.own
      BY <1>a, <2>1, <2>3 DEF Contact, OnAir
  <2>5. Do(p)
      BY <2>2
  <2> HIDE DEF p
  <2>6. Mode(p) = Mode(op)
      BY <2>1, <2>4 DEF Mode
  <2>7. Sane(p)
      BY <1>a, <2>1, <2>4, <2>6 DEF Sane, ModeInv, LateInv, SentInv, HeardInv, Repeats
  <2> QED
      BY <2>1, <2>4, <2>5, <2>6, <2>7, DoKept DEF SameMode
<1>3. CASE EarlyEnd
  <2>1. op.place = "early" /\ op.place \in KeyPlaces
      BY <1>3 DEF EarlyEnd, At, KeyPlaces
  <2>2. PICK found \in Recallable : Do(Enter(op, found))
      BY <1>3 DEF EarlyEnd
  <2>3. Ready(Enter(op, found)) /\ SameMode(op, Enter(op, found))
      BY <1>a, <2>1, AtKey, EnterReady
  <2> QED
      BY <2>1, <2>2, <2>3, ReadySame, DoKept
<1> QED
    BY <1>1, <1>2, <1>3

\* ESC undoes one thing after the other.
LEMMA EscapeStep ==
    ASSUME IInv, EscapeCall \/ EarlyEscape \/ EscapeExchange
    PROVE  IInv'
<1>a. op.place \in KeyPlaces
    BY DEF EscapeCall, EarlyEscape, EscapeExchange, At, KeyPlaces
<1>b. /\ Ready(op) /\ Sane(op) /\ setup \in Setup /\ op \in Contact /\ rig \in Station
      /\ op.place # "wait" /\ LateInv(op) /\ EscInv(op, escs) /\ escs \in 0..3
    BY <1>a, AtKey DEF Ready, Sane, IInv, TypeOK
<1> DEFINE n == IF escs < 3 THEN escs + 1 ELSE 3
<1>c. n \in 1..3 /\ n \in 0..3
    BY <1>b
<1>d. ASSUME NEW p, Ready(p), Mode(p) = Mode(op), NEW f \in Freqs \cup {NoFreq},
             Escape(p, rig) \/ Escape(p, [rig EXCEPT !.typedAt = f]), EscInv(p, n)
      PROVE  IInv'
  <2>1. Sane(p) /\ SameMode(op, p) /\ p.place # "wait"
      BY <1>d, ReadySame
  <2>2. PICK r \in {rig, [rig EXCEPT !.typedAt = f]} :
            op' = Fresh(p) /\ rig' = r /\ escs' = n /\ setup' = setup
      BY <1>d DEF Escape
  <2>3. /\ r \in Station /\ r.want = rig.want /\ r.freq = rig.freq /\ r.mem = rig.mem
        /\ r.run = rig.run /\ r.grab = rig.grab
      BY <1>b, <2>2 DEF Station
  <2> HIDE DEF n
  <2> QED
      BY <1>b, <1>c, <1>d, <2>1, <2>2, <2>3, KeyKept
<1>1. CASE EscapeCall
  <2> DEFINE p == IF op.earlyStarted THEN op ELSE Cleanup(op)
  <2>1. Escape(p, [rig EXCEPT !.typedAt = NoFreq]) /\ op.place = "call"
      BY <1>1 DEF EscapeCall, At
  <2>2. /\ Sane(Cleanup(op)) /\ Mode(Cleanup(op)) = Mode(op) /\ Cleanup(op).place = op.place
        /\ Cleanup(op).call = <<>> /\ Cleanup(op).comment = NoText /\ Cleanup(op).defer = 0
      BY <1>b, CleanupSane
  <2>3. Ready(p) /\ Mode(p) = Mode(op)
      BY <1>a, <1>b, <2>2 DEF Ready
  <2>4. EscInv(p, n)
      BY <1>b, <2>1, <2>2 DEF EscInv, LateInv
  <2> HIDE DEF p, n
  <2> QED
      BY <1>d, <2>1, <2>3, <2>4
<1>2. CASE EarlyEscape
  <2> DEFINE p == [ToCall(op) EXCEPT !.hiscallSent = <<>>, !.earlyStarted = FALSE]
  <2>1. Escape(p, rig) /\ op.place = "early"
      BY <1>2 DEF EarlyEscape, At
  <2>2. /\ p \in Contact /\ p.place = "call" /\ p.cqmode = op.cqmode
        /\ p.savedMode = op.savedMode /\ p.defer = op.defer /\ p.said = op.said
        /\ p.sentcall = op.sentcall /\ p.last = op.last
      BY <1>b, CallTypes DEF ToCall, Contact, Places
  <2> HIDE DEF p
  <2>3. setup.cwstart # 0
      BY <1>b, <2>1 DEF LateInv
  <2>4. Mode(p) = Mode(op) /\ op.cqmode # "AUTO_CQ"
      BY <1>b, <2>1, <2>2 DEF Mode, Sane, ModeInv
  <2>5. Ready(p)
      BY <1>b, <2>2, <2>3, <2>4
         DEF Ready, Sane, ModeInv, LateInv, SentInv, HeardInv, Repeats, KeyPlaces
  <2>6. EscInv(p, n)
      BY <2>3 DEF EscInv
  <2> HIDE DEF n
  <2>7. PICK f : f \in Freqs \cup {NoFreq}
      OBVIOUS
  <2> QED
      BY <1>d, <2>1, <2>4, <2>5, <2>6, <2>7 DEF p
<1>3. CASE EscapeExchange
  <2> DEFINE p == IF op.comment # NoText THEN CleanupComment(op) ELSE ToCall(op)
  <2>1. Escape(p, rig) /\ op.place = "exch"
      BY <1>3 DEF EscapeExchange, At
  <2>2. Ready(CleanupComment(op)) /\ Mode(CleanupComment(op)) = Mode(op)
        /\ CleanupComment(op).comment = NoText /\ CleanupComment(op).place = "exch"
      BY <1>a, <1>b, <2>1, EditComment DEF Ready
  <2>3. Ready(ToCall(op)) /\ Mode(ToCall(op)) = Mode(op)
        /\ ToCall(op).comment = op.comment /\ ToCall(op).place = "call"
      BY <1>b, Moved DEF ToCall, Contact
  <2>4. EscInv(p, n)
    <3> SUFFICES ASSUME setup.cwstart = 0 PROVE EscInv(p, n)
        BY DEF EscInv
    <3>1. escs < 2 /\ (escs = 1 => op.comment = NoText)
        BY <1>b, <2>1 DEF EscInv
    <3>2. n = escs + 1 /\ n < 3
        BY <1>b, <3>1
    <3> QED
        BY <1>b, <2>2, <2>3, <3>1, <3>2 DEF EscInv
  <2>5. Ready(p) /\ Mode(p) = Mode(op)
      BY <2>2, <2>3
  <2>6. PICK f : f \in Freqs \cup {NoFreq}
      OBVIOUS
  <2> HIDE DEF p, n
  <2> QED
      BY <1>d, <2>1, <2>4, <2>5, <2>6
<1> QED
    BY <1>1, <1>2, <1>3

\* The keys of the exchange field.
LEMMA ExchangeKeysStep ==
    ASSUME IInv,
           \/ EditExchange \/ EnterExchange \/ BackslashExchange \/ TabExchange
           \/ PlusExchange \/ WipeExchange
    PROVE  IInv'
<1>a. op.place = "exch" /\ op.place \in KeyPlaces
    BY DEF EditExchange, EnterExchange, BackslashExchange, TabExchange, PlusExchange,
           WipeExchange, At, KeyPlaces
<1>b. /\ Ready(op) /\ Sane(op) /\ setup \in Setup /\ op \in Contact /\ rig \in Station
      /\ op.place # "wait"
    BY <1>a, AtKey DEF Ready
<1>c. ASSUME NEW p, Ready(p), Mode(p) = Mode(op) \/ SameMode(op, p), Do(p)
      PROVE  IInv'
    BY <1>b, <1>c, ReadySame, DoKept
<1>1. CASE EditExchange
  <2>1. ASSUME NEW c \in Comments
        PROVE  Ready([op EXCEPT !.comment = c]) /\ Mode([op EXCEPT !.comment = c]) = Mode(op)
      BY <1>b, CommentReady
  <2>2. CASE \E c \in {Text, NoText} : Do([op EXCEPT !.comment = c])
    <3>1. PICK c \in {Text, NoText} : Do([op EXCEPT !.comment = c])
        BY <2>2
    <3>2. c \in Comments
        BY <3>1 DEF Comments
    <3> QED
        BY <1>c, <2>1, <3>1, <3>2
  <2>3. CASE \E c \in FixCalls : Do(CallUpdate([op EXCEPT !.comment = c]))
    <3>1. PICK c \in FixCalls : Do(CallUpdate([op EXCEPT !.comment = c]))
        BY <2>3
    <3>2. c \in Comments
        BY <3>1 DEF Comments
    <3> DEFINE p == [op EXCEPT !.comment = c]
    <3>3. Ready(p) /\ Mode(p) = Mode(op) /\ Do(CallUpdate(p))
        BY <2>1, <3>1, <3>2
    <3> HIDE DEF p
    <3> QED
        BY <1>c, <3>3, CallUpdateReady
  <2> QED
      BY <1>1, <2>2, <2>3 DEF EditExchange
<1>2. CASE EnterExchange
  <2>1. PICK found \in Recallable : Do(Backslash(op)) \/ Do(Enter(op, found))
      BY <1>2 DEF EnterExchange
  <2> QED
      BY <1>b, <1>c, <2>1, BackslashReady, EnterReady
<1>3. CASE BackslashExchange \/ TabExchange
    BY <1>3, <1>b, <1>c, BackslashReady, Moved DEF BackslashExchange, TabExchange, ToCall
<1>4. CASE PlusExchange
  <2>1. \/ Do(Backslash(op))
        \/ op.call # <<>> /\ Do(SendExchange(op))
      BY <1>4 DEF PlusExchange
  <2> QED
      BY <1>b, <1>c, <2>1, BackslashReady, SendExchangeReady
<1>5. CASE WipeExchange
  <2>1. ~Steady
      BY <1>5 DEF WipeExchange, Has, Steady
  <2>2. CASE Do(ToCall(CleanupComment(CleanupHiscall(op))))
    <3> DEFINE o == CleanupHiscall(op)
    <3>1. Loose(op, o)
        BY <1>b, EditHiscall
    <3> HIDE DEF o
    <3>2. Sane(o) /\ Mode(o) = Mode(op) /\ o.place = "exch"
        BY <1>a, <1>b, <2>1, <3>1, LooseSane DEF Loose
    <3> DEFINE c == CleanupComment(o)
    <3>3. Ready(c) /\ Mode(c) = Mode(op)
        BY <3>2, EditComment DEF Ready, KeyPlaces
    <3> HIDE DEF c
    <3>4. Ready(ToCall(c)) /\ Mode(ToCall(c)) = Mode(op)
        BY <3>3, Moved DEF ToCall
    <3> QED
        BY <1>c, <2>2, <3>4 DEF c, o
  <2>3. CASE Do(CallUpdate(IF op.comment # NoText THEN CleanupComment(op)
                                                   ELSE RestoreComment(op)))
    <3> DEFINE o == IF op.comment # NoText THEN CleanupComment(op) ELSE RestoreComment(op)
    <3>1. Ready(o) /\ Mode(o) = Mode(op)
        BY <1>a, <1>b, EditComment DEF Ready
    <3>2. Do(CallUpdate(o))
        BY <2>3
    <3> HIDE DEF o
    <3> QED
        BY <1>c, <3>1, <3>2, CallUpdateReady
  <2> QED
      BY <1>5, <2>2, <2>3 DEF WipeExchange
<1> QED
    BY <1>1, <1>2, <1>3, <1>4, <1>5

\* '#', '$', '%' and Shift-F1: the contact and the memory change places, and
\* the loop waits until the radio is on the frequency from memory.
LEMMA MemoryStep ==
    ASSUME IInv, MemoryKey \/ BackToCq
    PROVE  IInv'
<1>a. op.place = "call" /\ op.place \in KeyPlaces /\ ~Steady
    BY DEF MemoryKey, BackToCq, At, KeyPlaces, Has, Steady
<1>b. /\ Ready(op) /\ Sane(op) /\ setup \in Setup /\ op \in Contact /\ rig \in Station
      /\ op.call \in Seq(Letters) /\ op.place # "wait" /\ rig.freq \in Freqs
      /\ FreqInv(op, rig) /\ op.cqmode \in Modes /\ Mode(op) = op.cqmode
    BY <1>a, AtKey, ReadyMode DEF Ready, IInv
<1>1. PICK kind \in MemoryOps :
          DoBoth(MemoryOp(op, rig, kind).op, MemoryOp(op, rig, kind).rig)
    BY DEF MemoryKey, BackToCq, MemoryOps
<1>2. /\ Store(op, rig) \in Station
      /\ Store(op, rig) = [rig EXCEPT !.mem = Store(op, rig).mem]
      /\ Store(op, rig).mem = [freq |-> rig.freq, cqmode |-> op.cqmode, call |-> op.call]
      /\ Store(op, rig).mem \in Stored
    BY <1>b DEF Store, Station, Stored
<1>3. Run(op, rig) \in Freqs
    BY <1>b DEF Run, Target, Station
<1>4. CASE rig.mem.freq = NoFreq
  <2> DEFINE r == IF kind = "store_or_pop" THEN [Store(op, rig) EXCEPT !.run = Run(op, rig)]
                                           ELSE rig
  <2>1. op' = Fresh(op) /\ rig' = r /\ escs' = 0 /\ setup' = setup
      BY <1>1, <1>4 DEF DoBoth, MemoryOp
  <2>2. CASE kind # "store_or_pop"
      BY <1>b, <2>1, <2>2, NoEsc, KeyKept DEF SameMode
  <2>3. CASE kind = "store_or_pop"
    <3>1. /\ r \in Station /\ r.want = rig.want /\ r.freq = rig.freq /\ r.run = Run(op, rig)
          /\ r.mem = [freq |-> rig.freq, cqmode |-> op.cqmode, call |-> op.call]
          /\ r.mem.freq = rig.freq /\ r.mem.cqmode = op.cqmode
      <4>1. r = [Store(op, rig) EXCEPT !.run = Run(op, rig)]
          BY <2>3
      <4>2. Store(op, rig).want = rig.want /\ Store(op, rig).freq = rig.freq
          BY <1>b DEF Store, Station
      <4> HIDE DEF r
      <4> QED
          BY <1>2, <1>3, <4>1, <4>2 DEF Station
    <3> HIDE DEF r
    <3>2. FreqInv(op, r)
        BY <1>b, <3>1 DEF FreqInv, Modes
    <3>3. GrabInv(r)
        BY <1>a DEF GrabInv
    <3> QED
        BY <1>b, <2>1, <3>1, <3>2, <3>3, NoEsc, Kept
  <2> QED
      BY <2>2, <2>3
<1>5. CASE rig.mem.freq # NoFreq
  <2> DEFINE p == WaitFor(RecallOp(op, rig))
             m == IF kind = "swap" THEN Store(op, rig).mem ELSE NoMem
             r == [RecallRig(rig) EXCEPT !.waitFor = rig.mem.freq, !.run = Run(op, rig),
                                         !.mem = m]
  <2>1. op' = Fresh(p) /\ rig' = r /\ escs' = 0 /\ setup' = setup
      BY <1>1, <1>5 DEF DoBoth, MemoryOp
  <2>2. rig.mem.freq \in Freqs /\ rig.mem.cqmode \in Modes /\ rig.mem.call \in Seq(Letters)
    <3>1. rig.mem \in Stored /\ NoMem.freq = NoFreq
        BY <1>b DEF Station, NoMem
    <3> QED
        BY <1>5, <3>1 DEF Stored
  <2>3. /\ p \in Contact /\ p.place = "wait" /\ p.cqmode = rig.mem.cqmode
        /\ p.earlyStarted = op.earlyStarted /\ p.hiscallSent = op.hiscallSent
      BY <1>b, <2>2, CallTypes DEF WaitFor, RecallOp, Contact, Places
  <2>4. m \in Stored /\ (m = NoMem \/ m = [freq |-> rig.freq, cqmode |-> op.cqmode, call |-> op.call])
      BY <1>2 DEF Stored
  <2> HIDE DEF m
  <2>5. /\ r \in Station /\ r.want = rig.mem.freq /\ r.waitFor = rig.mem.freq
        /\ r.run = Run(op, rig) /\ r.mem = m
      BY <1>3, <1>b, <2>2, <2>4 DEF RecallRig, Station
  <2> HIDE DEF p, r
  <2>6. Sane(p) /\ Mode(p) = rig.mem.cqmode
    <3>1. ModeInv(p) /\ Mode(p) = rig.mem.cqmode
        BY <2>2, <2>3 DEF ModeInv, Mode, Modes
    <3>2. LateInv(p)
        BY <1>b, <2>3 DEF Sane, LateInv
    <3> QED
        BY <1>a, <2>3, <3>1, <3>2, Unsteady
  <2>7. FreqInv(p, r)
    <3> SUFFICES ASSUME ~setup.slow, setup.keys \cap {"mode", "qsy"} = {}, ~setup.sprint
                 PROVE  FreqInv(p, r)
        BY DEF FreqInv
    <3>1. r.want \in {NoFreq, IF p.place = "wait" THEN r.waitFor ELSE r.freq}
        BY <2>3, <2>5
    <3>2. ASSUME r.mem.cqmode = "CQ" PROVE r.mem.freq = r.run
      <4>1. NoMem.cqmode # "CQ"
          BY DEF NoMem
      <4>2. r.mem.freq = rig.freq /\ op.cqmode = "CQ"
          BY <2>4, <2>5, <3>2, <4>1
      <4>3. rig.want \in {NoFreq, rig.freq}
          BY <1>b, <4>2 DEF FreqInv
      <4> QED
          BY <2>5, <4>2, <4>3 DEF Run, Target
    <3> QED
        BY <3>1, <3>2 DEF FreqInv
  <2>8. GrabInv(r)
      BY <1>a DEF GrabInv
  <2> QED
      BY <2>1, <2>5, <2>6, <2>7, <2>8, NoEsc, Kept
<1> QED
    BY <1>4, <1>5

\* The wait for the radio ends when it is there.
LEMMA WaitStep ==
    ASSUME IInv, WaitEnds
    PROVE  IInv'
<1> DEFINE p == ToCall(op)
           r == [rig EXCEPT !.waitFor = NoFreq]
<1>1. op.place = "wait" /\ (rig.freq = rig.waitFor \/ setup.slow)
      /\ op' = Fresh(p) /\ rig' = r /\ escs' = 0 /\ setup' = setup
    BY DEF WaitEnds, At, DoBoth
<1>2. op \in Contact /\ rig \in Station /\ Sane(op) /\ FreqInv(op, rig) /\ GrabInv(rig)
    BY DEF IInv, TypeOK
<1>3. /\ p \in Contact /\ p.place = "call" /\ p.cqmode = op.cqmode /\ p.savedMode = op.savedMode
      /\ p.earlyStarted = op.earlyStarted /\ p.hiscallSent = op.hiscallSent
      /\ p.defer = op.defer /\ p.said = op.said /\ p.sentcall = op.sentcall /\ p.last = op.last
    BY <1>2 DEF ToCall, Contact, Places
<1>4. /\ r \in Station /\ r.want = rig.want /\ r.freq = rig.freq /\ r.mem = rig.mem
      /\ r.run = rig.run /\ r.grab = rig.grab
    BY <1>2 DEF Station
<1> HIDE DEF p, r
<1>5. Mode(p) = Mode(op)
    BY <1>1, <1>3 DEF Mode
<1>6. Sane(p)
    BY <1>1, <1>2, <1>3, <1>5 DEF Sane, ModeInv, LateInv, SentInv, HeardInv
<1>7. FreqInv(p, r) /\ GrabInv(r)
    BY <1>1, <1>2, <1>3, <1>4, <1>5 DEF FreqInv, GrabInv
<1> QED
    BY <1>1, <1>4, <1>6, <1>7, NoEsc, Kept

\* A spot is grabbed, and the frequency of the CQ remembered.
LEMMA GrabStep ==
    ASSUME IInv, Grab
    PROVE  IInv'
<1>1. PICK f \in Spotted : DoBoth(GrabOp(op, f), GrabRig(op, rig, f))
    BY DEF Grab
<1>a. op.place = "call" /\ op.place \in KeyPlaces /\ ~Steady
    BY DEF Grab, At, KeyPlaces, Has, Steady
<1>b. /\ Ready(op) /\ Sane(op) /\ op \in Contact /\ rig \in Station
      /\ FreqInv(op, rig) /\ op.cqmode \in Modes /\ Mode(op) = op.cqmode
    BY <1>a, AtKey, ReadyMode DEF Ready, IInv
<1> DEFINE c == SpotAt[f]
           p == GrabOp(op, f)
           r == GrabRig(op, rig, f)
           m == [freq |-> rig.freq, cqmode |-> op.cqmode, call |-> c]
<1>2. f \in Freqs /\ c \in Seq(Letters)
    BY SpotAssumption DEF Spotted
<1>3. op' = Fresh(p) /\ rig' = r /\ escs' = 0 /\ setup' = setup
    BY <1>1 DEF DoBoth
<1>4. /\ p \in Contact /\ p.place = "call" /\ p.cqmode = "S_P"
      /\ p.earlyStarted = op.earlyStarted /\ p.hiscallSent = op.hiscallSent
    BY <1>a, <1>b, <1>2, CallTypes DEF GrabOp, Contact, Modes
<1>5. Run(op, rig) \in Freqs
    BY <1>b DEF Run, Target, Station
<1>6. m \in Stored
    BY <1>b, <1>2 DEF Stored, Station
<1>7. /\ r \in Station /\ r.run = Run(op, rig)
      /\ r.mem = IF op.cqmode = "CQ" THEN m ELSE rig.mem
  <2>1. Store([op EXCEPT !.call = c], rig) = [rig EXCEPT !.mem = m]
      BY <1>b DEF Store, Contact
  <2>2. CASE op.cqmode = "CQ"
    <3>1. r = [[rig EXCEPT !.mem = m] EXCEPT !.want = f, !.grab = "IN_PROGRESS", !.spotfreq = f,
                                             !.typedAt = NoFreq, !.run = Run(op, rig)]
        BY <2>1, <2>2 DEF GrabRig
    <3> HIDE DEF m, r
    <3> QED
        BY <1>b, <1>2, <1>5, <1>6, <2>2, <3>1 DEF Station
  <2>3. CASE op.cqmode # "CQ"
    <3>1. r = [rig EXCEPT !.want = f, !.grab = "IN_PROGRESS", !.spotfreq = f,
                          !.typedAt = NoFreq, !.run = Run(op, rig)]
        BY <2>3 DEF GrabRig
    <3> HIDE DEF m, r
    <3> QED
        BY <1>b, <1>2, <1>5, <2>3, <3>1 DEF Station
  <2> QED
      BY <2>2, <2>3
<1> HIDE DEF p, r
<1>8. Mode(p) = "S_P" /\ ModeInv(p) /\ LateInv(p)
    BY <1>b, <1>4 DEF Mode, ModeInv, LateInv, Sane
<1>9. Sane(p)
    BY <1>a, <1>4, <1>8, Unsteady
<1>10. FreqInv(p, r)
  <2> SUFFICES ASSUME ~setup.slow, setup.keys \cap {"mode", "qsy"} = {}, ~setup.sprint,
                      r.mem.cqmode = "CQ"
               PROVE  r.mem.freq = r.run
      BY <1>8 DEF FreqInv
  <2>1. CASE op.cqmode = "CQ"
      BY <1>b, <1>4, <1>7, <2>1 DEF FreqInv, Run, Target, KeyPlaces, Ready
  <2>2. CASE op.cqmode # "CQ"
      BY <1>b, <1>7, <2>2 DEF FreqInv, Run, Modes
  <2> QED
      BY <2>1, <2>2
<1>11. GrabInv(r)
    BY <1>a DEF GrabInv
<1> QED
    BY <1>3, <1>7, <1>9, <1>10, <1>11, NoEsc, Kept

\* Ctrl-A, and calls that the tuning takes from the call field or puts there.
LEMMA SpotStep ==
    ASSUME IInv, Spot \/ AutoAdd \/ AutoGrab \/ GrabForgotten
    PROVE  IInv'
<1>a. op.place \in {"call", "exch"} /\ op.place \in KeyPlaces /\ ~Steady
    BY DEF Spot, AutoAdd, AutoGrab, GrabForgotten, At, KeyPlaces, Has, Steady, IInv, GrabInv
<1>b. /\ Ready(op) /\ Sane(op) /\ op \in Contact /\ rig \in Station /\ op.place # "wait"
      /\ rig.freq \in Freqs
    BY <1>a, AtKey DEF Ready
<1> DEFINE p(c) == [op EXCEPT !.call = c, !.said = Silence]
<1>1. ASSUME NEW c \in Seq(Letters)
      PROVE  Ready(p(c)) /\ Mode(p(c)) = Mode(op)
    BY <1>a, <1>b, EditHiscall, LooseSane DEF Loose, Ready
<1>2. <<>> \in Seq(Letters) /\ \A f \in Freqs : SpotAt[f] \in Seq(Letters)
    BY CallTypes, SpotAssumption
<1>3. ASSUME NEW q, Ready(q), Mode(q) = Mode(op), NEW r \in Station, r.want = rig.want,
             r.freq = rig.freq, r.mem = rig.mem, r.run = rig.run, DoBoth(q, r)
      PROVE  IInv'
  <2>1. op' = Fresh(q) /\ rig' = r /\ escs' = 0 /\ setup' = setup
      BY <1>3 DEF DoBoth
  <2>2. Sane(q) /\ SameMode(op, q) /\ q.place # "wait"
      BY <1>3, ReadySame
  <2> QED
      BY <1>a, <1>b, <1>3, <2>1, <2>2, NoEsc, KeyKept
<1>4. CASE Spot
  <2> DEFINE gone == IF IsCall(op.call) THEN p(<<>>) ELSE op
             r == [rig EXCEPT !.grab = "REACHED", !.spotfreq = rig.freq]
  <2>1. Ready(gone) /\ Mode(gone) = Mode(op)
      BY <1>b, <1>1, <1>2
  <2>2. DoBoth(gone, r) \/ Do(ToCall([gone EXCEPT !.comment = NoText]))
      BY <1>4 DEF Spot
  <2> HIDE DEF gone
  <2>3. CASE DoBoth(gone, r)
    <3>1. /\ r \in Station /\ r.want = rig.want /\ r.freq = rig.freq /\ r.mem = rig.mem
          /\ r.run = rig.run
        BY <1>b DEF Station
    <3> HIDE DEF r
    <3> QED
        BY <1>3, <2>1, <2>3, <3>1
  <2>4. CASE Do(ToCall([gone EXCEPT !.comment = NoText]))
    <3> DEFINE q == [gone EXCEPT !.comment = NoText]
    <3>1. NoText \in Comments
        BY DEF Comments
    <3>2. Ready(q) /\ Mode(q) = Mode(op)
        BY <2>1, <3>1, CommentReady
    <3> HIDE DEF q
    <3>3. Ready(ToCall(q)) /\ Mode(ToCall(q)) = Mode(op)
        BY <3>2, Moved DEF ToCall
    <3> QED
        BY <1>b, <2>4, <3>3, ReadySame, DoKept DEF q
  <2> QED
      BY <2>2, <2>3, <2>4
<1>5. CASE AutoAdd
  <2> DEFINE r == [rig EXCEPT !.typedAt = NoFreq]
  <2>1. DoBoth(p(<<>>), r)
      BY <1>5 DEF AutoAdd
  <2>2. /\ r \in Station /\ r.want = rig.want /\ r.freq = rig.freq /\ r.mem = rig.mem
        /\ r.run = rig.run
      BY <1>b DEF Station
  <2> HIDE DEF r, p
  <2> QED
      BY <1>1, <1>2, <1>3, <2>1, <2>2
<1>6. CASE AutoGrab
  <2> DEFINE r == [rig EXCEPT !.grab = "REACHED", !.spotfreq = rig.freq, !.typedAt = NoFreq]
  <2>1. DoBoth(p(SpotAt[rig.freq]), r)
      BY <1>6 DEF AutoGrab
  <2>2. /\ r \in Station /\ r.want = rig.want /\ r.freq = rig.freq /\ r.mem = rig.mem
        /\ r.run = rig.run
      BY <1>b DEF Station
  <2> HIDE DEF r, p
  <2> QED
      BY <1>b, <1>1, <1>2, <1>3, <2>1, <2>2
<1>7. CASE GrabForgotten
  <2> DEFINE r == [rig EXCEPT !.grab = "NONE"]
  <2>1. DoBoth(p(<<>>), r)
      BY <1>7 DEF GrabForgotten
  <2>2. /\ r \in Station /\ r.want = rig.want /\ r.freq = rig.freq /\ r.mem = rig.mem
        /\ r.run = rig.run
      BY <1>b DEF Station
  <2> HIDE DEF r, p
  <2> QED
      BY <1>1, <1>2, <1>3, <2>1, <2>2
<1> QED
    BY <1>4, <1>5, <1>6, <1>7

\* The radio answers, or is tuned, at any place of the loop.
LEMMA TuningStep ==
    ASSUME IInv, Radio \/ Knob \/ Qsy \/ GrabReached
    PROVE  IInv'
<1>a. /\ op \in Contact /\ rig \in Station /\ setup \in Setups /\ escs \in 0..3 /\ Sane(op)
      /\ FreqInv(op, rig) /\ GrabInv(rig) /\ EscInv(op, escs)
    BY DEF IInv, TypeOK
<1>1. CASE Radio \/ GrabReached
  <2>1. op' = op /\ escs' = escs /\ setup' = setup
      BY <1>1 DEF Radio, GrabReached
  <2>2. /\ rig' \in Station /\ rig'.mem = rig.mem /\ rig'.run = rig.run
        /\ \/ rig'.want = NoFreq
           \/ rig'.want = rig.want /\ rig'.freq = rig.freq /\ rig'.waitFor = rig.waitFor
        /\ rig'.grab = rig.grab \/ rig.grab # "NONE"
    <3>1. CASE Radio
      <4>1. rig.want \in Freqs /\ rig' = [rig EXCEPT !.freq = rig.want, !.want = NoFreq]
          BY <1>a, <3>1 DEF Radio, Station
      <4>2. /\ rig' \in Station /\ rig'.mem = rig.mem /\ rig'.run = rig.run
            /\ rig'.want = NoFreq /\ rig'.grab = rig.grab
          BY <1>a, <4>1 DEF Station
      <4> QED
          BY <4>2
    <3>2. CASE GrabReached
        BY <1>a, <3>2 DEF GrabReached, Station
    <3> QED
        BY <1>1, <3>1, <3>2
  <2>3. FreqInv(op, rig)' /\ GrabInv(rig)'
      BY <1>a, <2>1, <2>2 DEF FreqInv, GrabInv, Steady, Mode
  <2>4. Sane(op)' /\ EscInv(op, escs)' /\ TypeOK'
      BY <1>a, <2>1, <2>2
         DEF Sane, ModeInv, LateInv, SentInv, HeardInv, Repeats, Steady, Mode, EscInv, TypeOK
  <2> QED
      BY <2>3, <2>4 DEF IInv
<1>2. CASE Knob \/ Qsy
  <2>1. PICK r \in Station : /\ op' = Fresh(op) /\ rig' = r /\ escs' = 0 /\ setup' = setup
                             /\ r.grab = rig.grab /\ r.mem = rig.mem /\ r.run = rig.run
                             /\ r.want = NoFreq \/ "qsy" \in setup.keys
    <3>1. CASE Knob
      <4>1. PICK f \in Freqs \ {rig.freq} : DoBoth(op, [rig EXCEPT !.freq = f])
          BY <3>1 DEF Knob
      <4>2. rig.want = NoFreq
          BY <3>1 DEF Knob
      <4> DEFINE r == [rig EXCEPT !.freq = f]
      <4>3. /\ r \in Station /\ r.grab = rig.grab /\ r.mem = rig.mem /\ r.run = rig.run
            /\ r.want = NoFreq
          BY <1>a, <4>2 DEF Station
      <4> QED
          BY <4>1, <4>3 DEF DoBoth
    <3>2. CASE Qsy
      <4>1. PICK f \in Freqs : DoBoth(op, [rig EXCEPT !.want = f])
          BY <3>2 DEF Qsy
      <4> DEFINE r == [rig EXCEPT !.want = f]
      <4>2. r \in Station /\ r.grab = rig.grab /\ r.mem = rig.mem /\ r.run = rig.run
          BY <1>a DEF Station
      <4> QED
          BY <3>2, <4>1, <4>2 DEF DoBoth, Qsy, Has
    <3> QED
        BY <1>2, <3>1, <3>2
  <2>2. FreqInv(op, r) /\ GrabInv(r)
      BY <1>a, <2>1 DEF FreqInv, GrabInv
  <2> QED
      BY <1>a, <2>1, <2>2, NoEsc, Kept
<1> QED
    BY <1>1, <1>2

-----------------------------------------------------------------------------
(* The inductive invariant.                                                *)

LEMMA InitIInv == Init => IInv
<1> SUFFICES ASSUME Init PROVE IInv
    OBVIOUS
<1>1. setup \in Setup /\ setup.start \in Modes /\ setup.freq \in Freqs
    BY SetupType DEF Init, Setup
<1>2. /\ op \in Contact /\ op.place = "call" /\ op.cqmode = setup.start /\ op.earlyStarted = FALSE
      /\ op.hiscallSent = <<>> /\ op.defer = 0 /\ op.last.enter = FALSE
    BY <1>1, CallTypes DEF Init, Contact, Places, Comments, NoLog
<1>3. /\ rig \in Station /\ rig.want = NoFreq /\ rig.mem.cqmode = "NONE" /\ rig.grab = "NONE"
  <2>1. NoMem \in Stored /\ NoMem.cqmode = "NONE"
      BY DEF Stored, NoMem
  <2> QED
      BY <1>1, <2>1 DEF Init, Station
<1>4. Sane(op)
    BY <1>1, <1>2 DEF Sane, ModeInv, LateInv, SentInv, HeardInv, Modes
<1>5. FreqInv(op, rig) /\ GrabInv(rig)
    BY <1>3 DEF FreqInv, GrabInv
<1>6. EscInv(op, escs) /\ escs = 0
    BY NoEsc DEF Init
<1> QED
    BY <1>2, <1>3, <1>4, <1>5, <1>6 DEF IInv, TypeOK, Init

LEMMA Inductive == Spec => []IInv
<1>1. Init => IInv
    BY InitIInv
<1>2. ASSUME IInv, [Next]_vars PROVE IInv'
  <2>1. CASE CallKeys
      BY <1>2, <2>1, CallKeysStep, OtherCallKeysStep, EscapeStep DEF CallKeys
  <2>2. CASE AutoCqEnds \/ EarlyType \/ EarlyEnd \/ EarlyEscape
      BY <1>2, <2>2, CqStep, EscapeStep
  <2>3. CASE ExchangeKeys
      BY <1>2, <2>3, ExchangeKeysStep, EscapeStep DEF ExchangeKeys
  <2>4. CASE FrequencyKeys \/ Tuning
      BY <1>2, <2>4, MemoryStep, WaitStep, GrabStep, SpotStep, TuningStep
         DEF FrequencyKeys, Tuning
  <2>5. CASE UNCHANGED vars
      BY <1>2, <2>5
         DEF vars, IInv, TypeOK, Sane, ModeInv, LateInv, SentInv, HeardInv, Repeats, Steady, Mode,
             FreqInv, GrabInv, EscInv
  <2> QED
      BY <1>2, <2>1, <2>2, <2>3, <2>4, <2>5 DEF Next
<1> QED
    BY <1>1, <1>2, PTL DEF Spec

-----------------------------------------------------------------------------
(* Theorems.                                                               *)

\* Whatever keys are pressed, the fields hold calls and exchanges, the phase of
\* the contact is one of its two values, and what is in memory was stored in CQ
\* or in S&P mode.
THEOREM TypeCorrect == Spec => []TypeOK
BY Inductive, PTL DEF IInv

\* A contact logged with Enter was answered or called first, in every
\* configuration and after any sequence of keys that stays with the contact
\* (defer_store, logit.c).
THEOREM SentBeforeLogged == Spec => []ExchangeSent
<1>1. IInv => ExchangeSent
    BY DEF IInv, Sane, SentInv, ExchangeSent
<1> QED
    BY <1>1, Inductive, PTL

\* The call in the log is the one the other station heard last: corrections are
\* repeated before the contact is logged (resend_callsign in logit.c).
THEOREM LoggedAsHeard == Spec => []CallHeard
<1>1. IInv => CallHeard
    BY DEF IInv, Sane, HeardInv, Repeats, CallHeard
<1> QED
    BY <1>1, Inductive, PTL

\* The frequency of the last CQ survives search and pounce, for any number of
\* frequencies and spots (trx_memory.c, grabspot.c).
THEOREM CqFrequencyKept == Spec => []MemoryKept
<1>1. IInv => MemoryKept
    BY DEF IInv, TypeOK, FreqInv, MemoryKept, Sane, ModeInv, Mode
<1> QED
    BY <1>1, Inductive, PTL

\* Three presses of ESC lead to an empty call field and a new contact, from any
\* place (callinput.c, getexchange.c, cleanup.c).
THEOREM ThreeEscapes == Spec => []EscapeUndoes
<1>1. IInv => EscapeUndoes
    BY DEF IInv, TypeOK, EscInv, EscapeUndoes
<1> QED
    BY <1>1, Inductive, PTL
=============================================================================
