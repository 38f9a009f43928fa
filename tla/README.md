# Tlf in TLA+

Tlf is a contest logger for amateur radio: a curses program in C that logs QSOs, counts
multipliers and points, keys the transmitter, controls the radio, shows spots of the DX
cluster, and shares log, serial numbers and spots with other Tlf nodes in a LAN.  This
directory holds TLA+ models of its core, the TLC runs that check them, and TLAPS proofs.
Paths below are relative to `src/src/`; `PROJECT.json` maps every definition to the lines it
stands for.

## 1. The system

Tlf has two threads for its whole life.  The *main thread* (`main.c`, `logit.c`) reads the
configuration, waits for keys and executes commands; while it waits it calls `time_update()`
once a second.  The *background thread* (`background_process.c`) loops every 10 ms: it feeds
the keyer, reads the cluster, receives one LAN packet, handles it, and talks to the radio
(`gettxinfo.c`).  A voice message runs in a third, short-lived thread (`audio.c`).  They share
globals; a few mutexes exist (`pause_backgrnd_process_mutex`, `disk_mutex`, `bm_mutex`,
`spot_ptr_mutex`, the one of the keyer buffer), and most globals have none.

| Component | State | Operations | Interacts with | What makes it correct | Model |
|---|---|---|---|---|---|
| Background thread, pause handshake | `go`, `pause_backgrnd_process`, two conditions, `disk_mutex`, `lan_message` | loop body, pause, resume, quit; commands that rebuild the log | log, LAN, radio | a pause really parks the thread; nobody waits for ever | BackgroundProcess |
| Scoring and multipliers | `worked[]`, `countries[]`, `zones[]`, `multis[]`, `prefixes_worked[]`, counters | `addcall`, `addcall2`, `addmult`, `add_pfx`, `score`, `init_scoring` | log (QSO by QSO, or all of it again) | counters equal tables; the score is the one of the rules | Scoring |
| Log file | log file, `qso_array`, backups | log, LAN entry, note, edit, delete, rescore, backup, restart | scoring, both threads | array = file; nothing lost; rescoring reproduces the score | Logbook |
| LAN and serial numbers | `qsonum`, `highqsonr`, `lastqsonr`, `cl_send_inhibit`, `lan_message` | send and receive LOGENTRY, INCQSONUM, CLUSTERMSG; `get_next_serial` | log, cluster window | every QSO in every log once; numbers announced are not used again; no echo | LanNode |
| Radio control and PTT | `outfreq`, `freq`, `bandinx`, `trxmode`, `rigmode`, `bandfrequency[]`, `rigptt` | requests, poll, band and mode keys, frequency dialog, antenna switch, voice message | main, background and voice thread, Fldigi | Tlf, radio and antenna agree in the end; PTT is released | RigControl |
| Bandmap | `allspots`, `spots`, `.bmdata.dat`, `grab_up` | add, age, filter, save, read, grab | cluster and LAN (add), log (dupes), radio (grab) | spots apart, once per mode, nothing stale, grabbing reaches all | Bandmap |
| Main loop and call input; automatic CQ; CQ memory | `current_qso`, `cqmode`, `defer_store`, saved fields, `trxmem` | `logit`, `callinput`, `getexchange`, `autosend`, `auto_cq`, memory and grab keys | everything | nobody is logged unanswered; the call in the log is the one that was sent; the CQ frequency is kept; ESC undoes | OperatorLoop |
| Keyer | `wkeyerbuffer` (400 bytes), `data_ready`, connection to Fldigi | `keyer_append`, `keyer_flush`, `write_keyer`, `stoptx`, `fldigi_send_text`, `:FLDIGI` | both threads, Fldigi | text is sent in order, once, and not forgotten | Keyer |
| QTC traffic | QTC logs, flags per QSO, counters per call, `qtclist`, `qtcreclist` | generate, send, receive, mark, delete, read back; the window key by key | log, LAN, keyer | a QSO is given away once; the files say what memory says; blocks are complete and of one station | Qtc, QtcWindow |
| Export and import | the log and two QTC logs, positions of the merge | `write_cabrillo`, `write_adif`, `readcabrillo` | log, QTC | nothing lost or out of order; import finds the contact of each QTC | Cabrillo |
| Configuration and contest rules | all settings, rules file, Cabrillo header fields, sockets | `parse_logcfg`, `setcontest`, `read_rules`, checks at start, `:CFG`, header export | everything | order does not matter; rereading changes nothing; the header is the one configured | Config, CabrilloFields |
| Cluster and packet window | `tln_input_buffer`, `spot_ptr[]`, the window's log and view, `prsock`, `in_packetclient` | both readers, `addtext`, `addlog`, connect, login, loss, `:RECONNECT`, scrolling | LAN, bandmap | lines stay whole; the newest are shown; reading resumes | Cluster, ClusterText |
| Clock, country data, initial exchanges, log repair, display, propagation | - | - | - | parsing, look-ups, layout, I/O | not modelled (reasons in `PROJECT.json`) |

What is hard in this code: the two threads share the log arrays and most globals without a
lock, and only some commands park the background thread; globals of the foreground (band, mode,
prefix, dupe state) are used for QSOs that come from elsewhere or later; one-place mailboxes
(`lan_message`, `outfreq`) between parties of different speed; UDP; incremental statistics that
have to equal what a restart computes; a rewrite of the log file that may be interrupted; a phase
number (`defer_store`) that every key may have to reset; lines of the cluster cut anywhere and
assembled by two threads in one buffer; settings that depend on what was read before.
`PROJECT.json` lists the hazards line by line, with the property that covers each, or why none does.

## 2. Modules

`X.tla` models a component, `MCX.tla` holds its instances for TLC, `x*.cfg` are the runs and
`X_proofs.tla` the theorems; `Threads_proofs.tla` has those about the parts both threads work on
(BackgroundProcess, RigControl, Cluster), `Files_proofs.tla` those about the files read and written
(Cabrillo, Config).  All parameters are constants with named assumptions.  Where
several configurations are of interest, the model has a variable `setup` (`start` in Config, `station` in
Cluster) that is chosen once from the constant `Setups` (`Starts`, `Stations`): contest rules, LAN or not, what the operator does, and bounds.
One run then covers all of them.

**BackgroundProcess** has a program counter per thread (`bg`, `main`); every acquisition of a
mutex and every access to shared data between two is a step.  A log entry is only its origin
(own, LAN, note), which is enough to compare file and array.  `StartEdit`, `StartDelete`,
`StartRescore`, `StartLog`, `StartQuit` and notes are the commands; `PauseLock` ..
`Resume` the handshake; `ReadInit` .. `ReadEnd` is `readcalls()`, line by line; `Store`,
`Append` and their `Bg` twins are `log_to_disk()`.  A condition variable is the set of
threads that wait; a broadcast empties it.  `SpuriousSpec` adds wake-ups without a signal.

**Scoring** is what a QSO does to the statistics, as operators on one record `Stats`: for an
own QSO (`AddCall`, from `addcall()`), for a line of another node (`AddCall2`), `Score`.  A
bit mask of bands is a set of bands; a contest is a record of the switches `addcall.c`,
`addmult.c` and `score.c` look at.

**Logbook** EXTENDS Scoring: the operator's QSO in two steps (`CallInput` fixes the dupe state,
`LogQso` uses it), LAN entries between them, notes, editing, deleting and rescoring.
Reading the log is `StartReading`, then one step per line, then the question whether to write
the changed lines back, then the rename and one step per line again: `Crash` may come in between
any two.  `Restart` reads the log as `main()` does.

**LanNode** composes nodes: each has a log, `qsonum`, `highqsonr`, one `slot` for a packet, and a
FIFO channel from every peer.  `Lose` drops a packet.  `made` and `taken` are history variables.

**RigControl** has a step for each statement of `gettxinfo()` and `poll_rig_state()` that touches a
global the main thread touches, too.  The radio is a record `rig`, and the operator may turn its
knob.  PTT bits are a set.  `antenna` is the band last sent to the antenna switch: by the poll in
`BandChange`, and by the main thread after a request (`Outputs`, then `SendBandswitch`, so that the
poll may come in between).  `ChangeFreq` steps from the frequency last polled, `AutoQsy` is Fldigi
moving the radio, and with Fldigi in DIGI mode the mode of the radio is not polled (`FldigiReads`).

**Bandmap**: every operation on `allspots` is one step, since it holds `bm_mutex`.  The list is
sorted by frequency, so that a set and the order of frequencies stand for it.  `time_update()` is
`Age`, `Show`, and every so often `OpenFile` and `WriteFile`; a report can come between any two.
`heard` is a history field: when the spot was reported last.  The clock runs while Tlf is down.

**OperatorLoop**: one action per key, with all the program does before it waits for the next one.
`op` holds both fields, their backups, the mode, `defer` (= `defer_store`) and the place in the
code (`call`, `exch`, `early` keying, `autocq`, `wait` for the radio); `rig` the radio, the memory
and the grabbed spot.  What keys do is a set of functions from `op` to `op` (`Enter`, `Answer`,
`Finish`, `GetExchange`, `Cleanup`, ...), which the actions combine.  `said` is a history field: what the
other station heard since the contact was begun; `last` is the contact logged last with what was
said until then.  A call has two letters, an exchange is there or not.

**Keyer**: text is a sequence of numbered pieces.  The main thread appends (`Write`), flushes, stops
the device and changes the mode, the background thread takes the text out of the buffer (`Take`,
under the mutex) and sends it (`Send`, without).  `WriteBlock` is the QTC window, which calls
`write_keyer()` in the main thread, too.  With Fldigi, sending is five calls of another program
(`AskFldigi`, `StopFldigi`, `ClearFldigi`, `AddFldigi`, `StartFldigi`), each of which may fail or be refused
(`Query`), while ESC in the other thread makes two of them; Fldigi transmits on its own (`Transmit`), until
the `^r` that ends a message.  `keyed` and `gone` are histories of what the device got,
and of what was given up.

**Qtc** holds logs, files, counters and flags of the QTCs and the operations on them, with what
`readqtccalls()` makes of the files; **QtcWindow** EXTENDS it by the window, one action per key:
`activefield`, the list to send, the block being received, status and confirmation of each
line.  A received line is abstracted to four texts (nothing, incomplete, flawed, full).
**QtcLedger** is the abstract specification: contacts, and a sequence of gifts, each contact given once,
not to its own station, at most `Limit` to one station.

**Cabrillo** has the log with contacts, notes and deletions, two QTC logs whose lines refer to lines
of the log, then the merge one record at a time (`ExportQso`, `ExportQtc`), the ADIF export, and the
import with its search for the contact each QTC is about (`ImportSent`).

**Config**: a line is a record of keyword and parameter, and `Apply(s, line)` dispatches to one
operator per handler (`cfg_contest`, `cfg_bool`, ...).  One keyword stands for all that share a
handler and touch a variable of their own (`Flags`, `Texts`, `Selections`).  Lines of logcfg.dat are
chosen one by one; the rules file is read as a whole (`ReadRules`) as in `read_logcfg()`.  `s.ok` tells
if the last reading went without error; `rules`, a history, what the rules file said.  Then come the checks and devices of `main()`, `:CFG` (`RereadConfig`) with or without edited files, and
`WriteHeader`.  **CabrilloFields** is the table of header fields with templates and hints.

**ClusterText** has the pure part of the cluster window: what `addtext()` makes of characters (`Split`,
`Private`), the table of spots (`AddSpot`, `Selected`, `Shown`), the log of the window and the
movements in it.  A line makes several entries of the table if it is longer than one (`Entries`).
**Cluster** EXTENDS it by the two readers, the connection and the operator: a stream of characters cut
anywhere (`Fragments`), spots of the LAN and of the operator in three steps each as in
`background_process()` and `add_to_spots()`, the connection that breaks, `:RECONNECT`, and the window.
`tln_input_buffer` has no lock, so `addtext()` is two steps: the end of the buffer is taken (`Enters`,
kept in `end`), then the text is put there (`AddLines`).  If the other thread was in `addtext()` in
between, the end is stale, and the text overwrites what is there or comes to lie behind the terminator.
What begins with a printable character is passed on in the LAN (`Printable`).

How the modules relate: BackgroundProcess and Logbook model the same commands at two levels, the
first has both threads and entries without contents, the second has the contents, and rebuilding in
one thread.  That entries of other nodes arrive in Logbook only while the main thread waits for keys
is what `FreezesQsos` shows for the commands that pause.  OperatorLoop decides *when* a contact is
logged, Logbook and LanNode what logging does; Keyer takes the texts OperatorLoop and QtcWindow
send; the request slot of RigControl is what `GrabRig` and `RecallRig` of OperatorLoop write; Cluster
gives lines to the bandmap and the LAN, Bandmap and LanNode take them.

## 3. Runs

| Run | States | What it shows |
|---|---|---|
| `background` | 19 543 | Alone with every command, and in a LAN with the commands that lock. `FreezesQsos`: in a pause the background thread changes neither file nor array. `PauseReturns`, `MessageHandled`, `QuitCompletes`: nothing waits for ever. |
| `logbook` | 1 639 185 | Sixteen configurations of eleven kinds of contest. `BooksAgree`: each counter is the cardinality of its table, and the array is the file. `TotalIsSumOfLog`: the points shown are those in the log. `WorkedMatchesLog`: no false dupes. `RescoringChangesNothing`: a restart gives the same score and the same lines. `ScoreByTheRules`: the score equals a definition by sets, without counters. `NothingLost`: an interrupted rewrite leaves a backup. |
| `lan` | 80 782 | Eight configurations of two nodes, with loss, crashes, notes and deletions. `OnceInEveryLog`, `AboveAnnounced`, `EchoFree`, `Distributes` (without loss and crashes every QSO reaches every log). |
| `rig` | 950 825 | Nine stations. `PttKnown`: the bits say whether the radio transmits, also with voice messages that end at once. `PttReleased`. `Settles`: frequency, band and mode agree in the end, whatever was overwritten or failed. `AntennaFollows`: the antenna switch ends up on the band of the radio, if only the poll or only requests of the main thread change bands. |
| `bandmap` | 434 945 | Reports in every order, ageing, crashes, grabbing. `SpotsRight`: distance, one entry per mode, nothing stale. `ReportShown`, `GrabVisitsAll`. |
| `operator` | 1 123 440 | Fifteen configurations at the keyboard. `ExchangeSent`: no contact is logged with Enter before the other station got the exchange (CQ) or the call (S&P). `CallHeard`: with full resending the call in the log is the one heard last. `MemoryKept`: the CQ frequency is not lost. `EscapeUndoes`: three presses of ESC end in two empty fields and a new contact. |
| `keyer` | 210 270 | Radio, cwdaemon, TNC, changes of mode; Fldigi with QTC blocks, alone, and with failing calls. `InOrder`: text reaches the device once and in order. `Delivered`: none of it is forgotten in the buffer, or in the window of Fldigi. |
| `qtc` | 1 046 330 | Thirteen setups of sending, receiving, careless operators, LAN, restarts, deletions. `LedgerKept`: a careful sender implements QtcLedger. `ReadBackSame`: a restart reads what memory had. `OfferedUntilGiven`, `FromOneStation`, `ConfirmedIsStored`. |
| `cabrillo` | 1 199 482 | Contests of two to four minutes, written and read back. `Complete`: the file has all contacts and QTCs in order, with times that never fall, each of them once, and nothing else. `RoundTrip`: every QTC belongs to its contact again. |
| `config` | 328 690 | Any two of 62 lines over two rules files, and five lines about contest, station, LAN or header. `OrderFree`: two lines about different things commute. `RereadSame`: `:CFG` without edits changes nothing and finds no error. `HeaderAsGiven`: each header field has the value of the last line or template entry about it. |
| `cluster` | 117 561 | Telnet, TNC and FIFO, a LAN, a full table, a broken connection, both threads in `addtext()`. `LinesWhole`: lines come out whole however they were cut. `ClusterShowsNewest`: the window shows the newest spots selected. `LineShown`: every line is shown and passed on in the end. |
| `cluster_lan` | violation | `SpotsWhole`: a spot of another node is joined with the text after it. |

Each property of a passing run has a *mutant*: an operator next to the original, marked
"Mutant", with a plausible mistake (a dropped guard, a missing reset), for which TLC finds the
property violated.

### Bounds

- `background`: log of at most `MaxLog` = 3 entries, one packet in `lan_message` as in the code.
  Two threads and one entry suffice for every order of lock operations; three entries let the log
  differ in length and order before and after a reread.
- `logbook`: two calls at a time (one at home, one abroad, one of no known country), two bands, two
  exchanges, two modes, logs of two entries, three of one call for `UNIQUE_CALL`.  A multiplier can so be new, known on the band, or known on
  another band.  One lost-entry backup ends a history (`MaxBackups`), the clock stops at 3.
  Calls have fixed countries; bands and exchanges are symmetric.
- `lan`: two nodes, two QSOs in all, at most two packets on each channel; five notes in the
  configuration in which the last four lines hide all numbers.
- `rig`: two frequencies on 40 m, so that a step can stay in the band, one on 20 m and one out of band; two or three wishes of the operator and one
  failure, which is enough for a request to be overwritten, and then contradicted.
- `bandmap`: three frequencies each within TOLERANCE of the next, so that a report can have a close
  neighbour on each side and change mode, one WARC, one out of band; lifetime 3 s, saved every
  2 s, four seconds, one crash; four reports without clock.
- `operator`: two letters, calls of up to two (the program takes them for calls from two, and keys
  early from one: three and two in the code), exchange there or not, one to three frequencies with two
  spots.  There is no counter, so histories are of any length.
- `keyer`: messages of one or two pieces, a buffer of three, datagrams of two, five pieces, two stops
  (with Fldigi three pieces, and two refused calls instead of ten): a message can be cut off, a buffer need
  two datagrams, and a stop come before, in and after a send or between two calls of Fldigi.
- `qtc`: blocks of two lines and two QTCs per station (ten in the code), two stations, three QSOs,
  so that a station can be full with QSOs left.  `StartingWith` says which calls a text in the call field
  is the beginning of: `Partial` begins c1.  `MetaLines` is the part of QTC_meta.log the reader has in its
  buffer before the file is rewritten under it: one line of up to two, so that marks are lost.
- `cabrillo`: three lines in the log, two QTCs each way, up to four minutes: several lines in one minute,
  and every mixture of contacts and QTCs.
- `config`: two lines of everything, four or five of one topic, three nodes (eight in the code): the
  fourth is refused.  `OrderFree` needs two lines after any state, hence any prefix.
- `cluster`: lines of one to six characters in five columns (COLS), entries of two characters and the two
  that follow (80 and two), so that a line can make two entries, as on a screen wider than 80; a log of
  five lines, a table of six spots that drops two (MAX_SPOTS, ten), ten lines in the busy setup: it is
  full and shortened twice.

Every bound is in a guard and has a name: `MaxLog`, `setup.maxLog`, `MaxBackups`, `MaxTime`,
`MaxQsos`, `MaxChan`, `setup.top`, `notes`, `maxWishes`, `maxFails`, `maxReports`, `maxLogs`,
`maxCrashes`, `maxTime`, `maxQsos`, `maxLines`, `maxDeletes`, `MaxPieces`, `MaxStops`, `MaxQtcs`,
`minutes`, `max`, `spots`, `commands`.

Deadlock is checked in `logbook` and `rig`.  Elsewhere a history may end: Tlf quits, a bound is reached,
the file is written.

### Fairness

- The background thread never leaves its loop while Tlf runs, and its body has no unbounded wait
  but the pause and `disk_mutex`: weak fairness of its steps, also in LanNode, RigControl and Keyer.
- A thread that waits for a mutex gets it if it is free again and again: strong fairness of
  `MainLock`, `BgLock`, `BgWake`, `BgDiskLock`, and of the background's `Take` in Keyer, where the main
  thread holds the mutex for one append.  The holder sleeps 10 ms per cycle without it.
- What the main thread has begun, it ends: `Main` of RigControl; `Flush`, its `Take` and `Send`, and
  `ResumeBackground` of Keyer; `Opening` (`Greet`, `LogIn`, `OpenWindow`) and `Adding` (the second half of
  `addtext()`) of Cluster.
- `time_update()` runs while Tlf waits for keys: weak fairness of `TimeUpdate`; the radio tunes: `Tune`.
- A radio is polled every 200 ms if there is no request: strong fairness of `ReadFreq`.
- Somebody reads the cluster again and again: strong fairness of `Reading`, as both readers poll, and
  the one hands over to the other.
- Voice messages end.
- Nothing is assumed about the operator, other stations, crashes or restarts.  `GrabVisitsAll`
  speaks of an operator who keeps grabbing, as a premise of the property.

### What disagrees

`cluster_lan` is a run of its own: `background_process.c:127` takes the newline off a spot of another
node, so that `addtext()` keeps it in the input buffer until more text comes and joins the two
(`tlf.1.in:1194`).

The following disagreements were met while modelling.  Each is kept out of the passing properties by a
premise or a setup, and described here with the line that bites.

*Log, scoring, LAN.*
- `delete_qso` (`deleteqso.c:173`) rereads the log with no mutex and no pause while the background
  thread may store a LAN entry; `addcall.c:237` says that worked[] "needs mutex protection".  The setups
  in a LAN have the commands that lock (`LockedCommands`).
- `worked[].band` is set only if the country counts as multiplier (`addcall.c:183`), so W/VE stations are
  never dupes with `DX_&_SECTIONS`; `tlf.1.in:2800`.
- `addmult_lan()` uses the global band (`addmult.c:223`): the multiplier of a LAN entry is credited to
  the band of this node's radio; `tlf.1.in:2984`.
- "Highest used serial number" (`scroll_log.c:37`) is taken from announcements: a node may offer
  a number it has just stored.  The number logged is `qsonum` at the time of logging
  (`addcall.c:62`), not the one sent (`tlf.1.in:3445`).  Four notes at the end of the log and a
  restart: numbers start at 1 again.
- `exit()` inside a pause, or with `disk_mutex` held (`store_qso.c`), joins a thread that cannot run
  (`main.c:1042`): premise of `QuitCompletes`.
- With `PFX_MULT_MULTIBAND`, rescoring uses the `wpx_prefix` left by another call
  (`getctydata.c:188`); minitest periods are compared with the current time; QSOs of LAN nodes and a
  radio that moves during a QSO are scored with globals of the foreground: premise `Deterministic`.
- A packet of a node with the own letter stays in `lan_message` for ever
  (`background_process.c:144`); two nodes with a cluster inhibit each other; deletions and edits are
  not distributed, and a note followed by a deletion raises the number.
- `score2()` reads the points of a LAN entry one column early (`score.c:367`); worked[] and
  prefixes_worked[] are written without a check of their size.

*Radio.*
- A voice message that ends before the background thread has served its PTT request leaves the
  radio keyed (`audio.c:437`): `PttReleased` assumes `longMessages`.  If it ends between the two statements
  that clear ACTIVE and OFF (`gettxinfo.c:199`-`222`), OFF is set again without ACTIVE, and the next message
  never asks for PTT: a state the proof of `PttKnown` had to allow.
- `outfreq` has one place: a frequency can replace SETSSB and the radio stays in the wrong sideband;
  a mode read before a request can revert it (`gettxinfo.c:145`).
- A band key under the poll may leave `oldbandinx` wrong, and the antenna switch on the old band; a
  failed or replaced request does so, too: premises of `AntennaFollows`.
- `change_freq()` steps from the frequency last polled (`changefreq.c:101`): before the first answer it asks
  for 100 Hz, and just after a request for another band it takes the radio back.  The poll then
  finds the band it found last and sends nothing (`gettxinfo.c:166`), so that the antenna switch stays on
  the band of the request; the knob and an auto QSY of Fldigi can do the same.  `AntennaFollows` has
  therefore either requests of the main thread or the other ways to move the radio, not both.
- After ten failed calls Fldigi is given up for good, contrary to the comment at
  `fldigixmlrpc.c:355`; in DIGI mode the mode of the radio is not read, and an auto QSY may replace
  the request for it.

*Bandmap.*
- A crash between emptying and writing `.bmdata.dat` (`bandmap.c:96`) leaves an empty file, on which the
  next start exits (`NEWS:312`).
- Grabbing searches copies of the last display; while the bandmap is hidden they are not renewed:
  premise of `HeardLately`.  Spots age once per call of `time_update()`, hence `~setup.busy`.

*Operator and keyer.*
- `defer_store` survives grabs, wiping and other ways to another contact: Enter then logs without
  sending anything (`logit.c:104`, `tlf.1.in:886`).  `ExchangeSent` is about a `Steady` operator.
- `execute_grab()` stores the call of the spot, not the one in the field, in the CQ memory (`grabspot.c:92`),
  and pressing the memory key again before the radio answered loses the CQ frequency (premise `~slow`).
- The macro @ skips as many characters as were keyed early, whatever the call is now, and a stale start
  keeps ESC from clearing: premises `cwstart = 0`.
- ESC stops the device; text still in the buffer, or already taken out of it, is keyed afterwards
  (`write_keyer.c:86`, `tlf.1.in:914`).  Text that does not fit into 400 bytes is cut off silently, text
  for a radio in SSB waits for CW.  `WriteBlock` may swap two texts; `InOrder` excludes it.
- With Fldigi, a call that failed or was refused leaves text in its window; the next message is put behind
  it, and the `^r` between them keeps it there.  The same happens when both threads send at once
  (`qtcwin.c:756`).  Premises of `Delivered`.  ESC between `text.add_tx` and `main.tx` leaves Fldigi transmitting
  nothing (`fldigixmlrpc.c:472`).  An error is never cleared but by `:FLDIGI`, and after ten refused
  calls Fldigi is off, although the comment says "it will check again and again" (`fldigixmlrpc.c:324`).

*QTC and export.*
- Lines of a block that was sent and left unsaved go to the next station as well, which makes more than
  ten (`genqtclist.c:50`, manual: "maximum 10 QTC"): `Plain` in `LedgerKept`.
- `activefield` is shared by both directions: Enter may write outside of the list (`qtcwin.c:673`).
  In the field after a full block Enter takes what lies behind `qtcreclist` for a line (`qtcwin.c:600`);
  it is never counted, as no block announces it, and what it overwrites is not modelled.
- A call is left out of its own list by its beginning only (`genqtclist.c:67`): with a part of it in the
  field, QTCs of longer calls that begin with it are not offered, and an empty field leaves none out.
- QTC_meta.log is rewritten by each line read from it (`qtcutil.c:113`): what the reader has not in its
  buffer by then is lost if it is not in the counters yet (`MarksKept`).
- QTCs of other nodes are marked by line number, which is right only with equal logs: `OfferedUntilGiven`.
  A node that only receives QTCs does not read QTC_sent.log at a restart (`readqtccalls.c:52`), although it
  stores what sending nodes announce; the nodes of QtcWindow have the same direction.
- QTC lines carry line numbers and the merge counts contacts: after a note, a deletion or a QTC before
  the first contact all QTCs are dropped (`writecabrillo.c:613`).  A QTC on phone is exported as
  digital (`writecabrillo.c:169`).  A value that is too wide, in a contact or in a QTC, ends the export, and
  END-OF-LOG is written; the manual says that it is truncated.  Premises of `Complete` and `RoundTrip`.

*Configuration.*
- `CONTEST` resets what other lines have set, and some handlers write to the contest chosen so far
  (`setcontest.c:349`), although commands "can generally appear in any order" (`tlf.1.in:2404`): `Topics`
  has these lines together.  Of two `POWERMULT` the first one wins.
- `:CFG` ignores errors (`changepars.c:381`), adds `ADDNODE` nodes again, switches a failed radio control
  on again, and restores `QTC_RECV_LAZY` in digital modes (`main.c:787`).  Premises `Steady` and `Comparable`.
- The value of GRID-LOCATOR stays after `:CFG` with another `MYQRA`; a field given with
  a dash or without a value loses the value it had, which the manual says is kept (`tlf.1.in:3498`).
- `PFX_NUM_MULTIS` read again by `:CFG` clears the call areas worked but not the multiplier count
  (`parse_logcfg.c:998`): Config has the list of prefixes only.

*Cluster.*
- `addlog()` drops ten lines and clears eleven: the line that fills the table is lost
  (`splitscreen.c:126`; `Kept`).  After a loss of the connection `prsock` stays set and sending a spot
  writes to a window that is gone (`main = "crashed"`); `:RECONNECT` cuts a character off the port of a TNC each time
  (`splitscreen.c:807`), and logs in no more.  With a FIFO and no line yet, opening the window follows
  a null pointer.  The 80th character of a line is dropped; paging skips a line.
- Both threads may be in `addtext()` (`splitscreen.c:593`): a spot of the operator or a line typed in the
  window, and a message of the LAN or, while the window is closed, text of the cluster.  `tln_input_buffer`
  has no lock, so that one of the texts is overwritten, or lost behind the terminator.  `LinesWhole` and
  `LineShown` are about stations with one source of text (`OneSource`).
- `addlog()` cuts a line every 80 characters and copies 82 (`splitscreen.c:103`): on a wider screen a line
  takes two places of the table, the second one begins in the middle, and what fills the 82 has no
  terminator.

## 4. Proofs

The theorems are for every value of the constants: any calls, nodes, bands, frequencies, sizes and
setups.  Each ends in `Spec => []Inv`, from an invariant that is inductive; TLC
had checked that invariant on the run of the component before it was proved.

| Module | Theorems | Argument |
|---|---|---|
| Threads_proofs: background | `LoopTypeCorrect`, `Parking`, `Freezing`, `Assertions` | An invariant on who holds `pauseMutex` at which place and what `pause` is there: the main thread leaves `pausing` only after the broadcast, which the background thread sends with the mutex and before it waits.  For logs of any length and any set of commands.  `Assertions` holds under `SpuriousSpec`. |
| Threads_proofs: radio | `TypeCorrect`, `PttKnownAlways` | At each statement of `gettxinfo()` between a command to the radio and its bit, which bits are possible and whether the radio transmits (`PttInv`); elsewhere it transmits iff ACTIVE is set.  The thread of the voice message may set OFF at any of these statements. |
| Threads_proofs: cluster | `ShowsNewest`, `WholeLines` | For lines, fragments and tables of any size.  `ShowsNewest`: the count of the table is the one of `Count` for the lines added, and its places hold the last of them (`TableHolds`), so that the lines selected from the table are the last ones selected from all.  `WholeLines`: what was read is whole lines and the beginning of the next; what is to come is the rest of it and whole lines; nothing waits in the buffer before the first text of Tlf itself (`FlowInv`).  That needs that with one source of text the two threads are never in `addtext()` together, so that the end taken is the end of the buffer when the text is put (`Apart`, which follows from `in_packetclient` and the second that `packet()` waits).  Lists picked from a sequence are handled by lemmas about `Picked`. |
| Logbook_proofs | `AddCallGood`, `AddCall2Good`, `TypeCorrect`, `CounterValues`, `PrefixCount`, `ArrayIsFile`, `Books`, `Durable` | A QSO keeps each counter equal to the cardinality of its table: a new element adds one to both.  For `ArrayIsFile` an invariant for the time of reading and rewriting: the entries of the array are the first `pos` entries of the file, or the file is the first `pos` of the array.  For `Durable`, a step that does not delete or edit leaves the file, appends to it, or moves all of it to the backups. |
| | `WorkedIsLog`, `TotalIsSum`, `RescoringIsIdle` | `worked[]` has the times of the lines, which are never 0 (`WorkedInv`).  The sum of the points of a log is a fold, about which the lemmas say what a line adds to it.  For rescoring, `RereadInv` says that statistics and lines are those that reading gives, and that between call and exchange the dupe state stays what it was: so a line read again is scored as it was when logged. |
| | `ScoreIsByRules` | `RulesInv`: the tables hold, for each call, country, zone, prefix and section, the bands and modes of the lines of the log that bring it (`TablesAre`), and the points of a line are those that the lines *before* it leave to it (`PointsAre`).  So the number of multipliers, a sum over bands and tables, is the cardinality of a set of pairs, and the total is the sum over the lines that are no dupe.  Two premises of the property are needed: `DupesAsInRules`, as `worked[]` leaves out stations that `addcall()` does not add, and `OneKindOfMult`, as two kinds are counted in the same place. |
| LanNode_proofs | `TypeCorrect`, `NeverEchoed`, `OfferAboveAnnounced`, `LoggedOnce` | A line of the cluster that waits in a slot has taken the sender down (`EchoInv`).  Numbers heard are below the offer *and* not above `highqsonr`, from which the next offer is made (`SerialInv`).  A QSO is in one place only: under way, waiting, or logged (`OnePlace`), which takes that packets name their maker (`Made`), since nodes with the same letter refuse each other's.  With losses, crashes, restarts and deletions. |
| Bandmap_proofs | `Inductive`, `TypeCorrect`, `KeepsDistance`, `ListedOnce`, `ReportsAreShown`, `NothingStale`, `SpotsAreRight` | The spots in the file must be good as well as those in the list, and the file not be from the future.  A spot too close to a report is a direct neighbour of it, as all others are at least TOLERANCE apart; a spot that keeps its old frequency has its distance already.  For `NothingStale`: time since the report plus time left is at most the lifetime, or one second more while an ageing is due.  `SpotsAreRight` is the property `SpotsRight` of the run. |
| OperatorLoop_proofs | `TypeCorrect`, `SentBeforeLogged`, `LoggedAsHeard`, `CqFrequencyKept`, `ThreeEscapes` | `defer_store` other than 0 means that the exchange (CQ) or the call (S&P) was sent (`SentInv`), and that `sentcall` has the call the other station heard (`HeardInv`); automatic CQ counts as the mode it was started in.  The memory has the frequency of the CQ, because CQ is only called when the radio has arrived (`FreqInv`).  What each ESC undoes stays undone until the next one (`EscInv`).  A lemma for each routine (`Answer`, `Finish`, `Cleanup`, ...), then a step for each key. |
| Keyer_proofs | `TypeCorrect`, `KeyedInOrder` | The pieces keyed, those in the window of Fldigi, those the background thread has taken out and those in the buffer are one rising line (`InLine`); every action moves pieces from one part to the one before it, cuts a part, or appends a piece younger than all.  `Roles`: without QTC blocks the main thread never sends. |
| QtcWindow_proofs | `TypeCorrect`, `ReadBack`, `OnOffer`, `ReceivedFromOne`, `StoredAsConfirmed` | `Agreed`: flags, counters and serial are those of the lines in the two logs, one line at a time, and all lines below `next_qtc_qso` are used.  `OnOffer` from `OfferInv`: line numbers are QSO numbers, in the list as in the log.  `ReceivedFromOne` from `FromInv`: lines are of the station in the call field, which is the one seen last.  `StoredAsConfirmed` from `ConfirmInv`: the count of confirmed lines is their number, each is long enough to be written, and with RTTY none is accepted twice. |
| | `Refinement` | `QtcWindow` implements `QtcLedger` under the mapping `Qsos`, `Given`: `LogQso` is `Log`, saving a block is `Give`, each other step leaves both alone.  `LedgerInv` says why `Give` is possible: the lines of the list are in rising order, unused and of other stations, and not more than their station may still get (`Allowed`), also when the window is left and opened again; what is marked as sent is of this block (`Marked`). |
| Files_proofs: Cabrillo | `CompleteFile`, `RoundTrips` | `OrderInv`: times in each log never fall, and a QTC sent quotes a contact before it that no other QTC quotes.  `MergeInv`, while the file is written: the contacts up to the reader's line are in the file (`CopyInv`); a QTC at hand has the number of the contact just written or of a later one, so none is passed over (`HeadsInv`); what is written is in order and not younger than what is to come (`SortedInv`); with a minute for each record a QTC follows the contact with its number (`PlaceInv`).  `ImportInv`: the lines read so far give the contacts as they were and each QTC with its number, and all contacts before the first one that the search for the next QTC looks at are in use. |
| Files_proofs: Config | `AnyOrder`, `HeaderFields`, `RereadIsIdle` | `AnyOrder`: a line is confined to its topic (`LineConfined`, handler by handler of the table of keywords): it changes nothing else and what it does depends on nothing else, so two lines of different topics commute.  `HeaderFields`: after each line, template or file read without error, a field that was given has the meaning of the last entry about it (`SetTo`), by induction over templates and files; `LineConfined` says that all other lines leave the fields alone, and `write_cabrillo_header()` fills other fields only.  `RereadIsIdle`: a file read over the settings it made is compared, line by line, with the first reading (`Again`).  After each line a setting is what it was there the first time, or what it was at the end, with exceptions that later lines remove: while a `CONTEST` line is still to come the settings that it resets may belong to the contest named further down, and messages for digital modes left unset have been copied.  `FileAgain` and `RulesAgain` carry this through both files; after the rules only equal settings are left. |

Assumptions: only those of the modules (`ConstAssumption`, `ScoringAssumption`, `FiniteAssumption`,
`LogbookAssumption`, `UniqueCallAssumption`, `BandmapAssumption`, `LanAssumption`, `RigAssumption`,
`SpotAssumption`, `QueryAssumption`, `SetupAssumption`, `SizeAssumption`, `QtcAssumption`,
`WindowAssumption`, `BoundAssumption`, `NodesAssumption`, `StartsAssumption`, `StationAssumption`,
`TextAssumption`), which TLC evaluates in the passing runs.  Most of them say of which type a constant
is.  `UniqueCallAssumption` is needed: with `UNIQUE_CALL` and prefixes in one contest, a mark in the log
could be a call or a prefix.

*Induction.*  Sums over the log, reading of the log and storing line by line are folds or recursive
functions.  The induction rules of the library take an operator and cannot be used here, but a rule on
*sets* can: a set with 0, and with each number its successor, has all numbers (`SetInduction`,
`NumbersInduction`; the least number it lacks would have a predecessor, by `WFMin`).  The statement to be
proved is made the set of numbers for which it holds.

Proved for all values of the constants and checked on a small instance are so

- background: `FreezesQsos`; logbook: `BooksAgree`, `NothingLost`, `WorkedMatchesLog`,
  `TotalIsSumOfLog`, `RescoringChangesNothing`, `ScoreByTheRules`
- lan: `EchoFree`, `AboveAnnounced`, `OnceInEveryLog`; rig: `PttKnown`; bandmap: `SpotsRight`,
  `ReportShown`
- operator: `ExchangeSent`, `CallHeard`, `MemoryKept`, `EscapeUndoes`; keyer: `InOrder`
- qtc: `LedgerKept`, `ReadBackSame`, `OfferedUntilGiven`, `FromOneStation`, `ConfirmedIsStored`
- cabrillo: `Complete`, `RoundTrip`; config: `OrderFree`, `HeaderAsGiven`, `RereadSame`; cluster: `LinesWhole`,
  `ClusterShowsNewest`

`PausedMeansParked` and `AssertsHold` are proved only.  Proofs that failed first found faults of the
models and of properties: `gettxinfo()` in RigControl could not meet a voice message that ends between two
statements, and the pieces after a refused call of Fldigi were counted by guards that overlapped.  `HeaderAsGiven` had to take
templates into account, and the reading that stops at an error (after `:CFG` with one `ADDNODE` too many, header
fields have values that a line further down should have replaced); `LinesWhole` is about lines shorter than the
window is wide, since `addtext()` cuts longer ones; `RereadSame` about rules files none of which names another
contest.  (Its premise looked at the file read last only: then a first rules file could lead to a second one, which
`:CFG` reads in its place.)

Checked by TLC only: liveness (`PauseReturns`, `MessageHandled`, `QuitCompletes`, `Distributes`,
`PttReleased`, `Settles`, `AntennaFollows`, `GrabVisitsAll`, `Delivered`, `LineShown`), which is beyond
the prover.  Every safety property that a passing run checks has a theorem.

## 5. What the models leave out

- BackgroundProcess: keyer and cluster parts of the loop; they touch no lock modelled here.
- Scoring: prefix numbers as multipliers (`pfxnummulti`), PACC, generic and grid multipliers, points
  by continent or band (a QSO scores a given number per mode).  Tables are unbounded
  (`MAX_CALLS`, `MAX_MULTS` are not checked in the code).
- Logbook: a line is stored in one piece; repair of short lines (`checklogfile.c`) and external
  editors.  Columns of a line are fields.
- LanNode: TIMESYNC, FREQMSG, talk, spots (in Cluster) and QTC packets (in QtcWindow).
- RigControl: commands that key PTT never fail, CW speed, the RIT as a state, the lost update of two
  `|=` in the same instant.  Frequencies are three.
- Bandmap: filters for own mode and multipliers, grabbing by partial call, dupes of the QTC rules,
  node letters, the layout of the window.
- OperatorLoop: menus, displays, speed and report keys, partial calls, commands behind ":", times.
- Keyer: macros, speed, tone and weight, tuning, the keyer window with Fldigi, reception (`rtty.c`), the CW
  simulator (a training aid, which shares its buffer between both threads without a lock).
- QTC: message keys, recording, what is in the RTTY buffer, band and mode of a line.
- Cabrillo: columns, widths and formats, the questions for the header, LAN entries during an export, and
  the serials that the import numbers anew.
- Config: command line, signals, colours, Python plugins, stored macros; nearly all strings.
- Cluster: the two threads change places before and after the loop of `addtext()`, not within it;
  `:RECONNECT` comes while nothing is read; editing within the entry line, `:exit`, colours, `talkarray`, the cluster log file,
  `show_xplanet()`, propagation numbers, and the server half of `sockserv.c`, which nothing calls.
- Not modelled at all: the clock correction (a few lines of arithmetic), serial and XML-RPC I/O, country
  and zone look-up, recalled exchanges, log repair, display and help, propagation.  They keep no state
  that another step could find changed, are text matching or floating point, or only draw.

## 6. Plan

What is built so far is every component with state of its own.  Left are, in this order:

1. Abstract specifications: a log as a set of QSOs with one action per operation, implemented by
   Logbook; a FIFO with a flush, implemented by Keyer while nothing overflows.
2. Scoring: `pfxnummulti`, generic multipliers, PACC, point rules.
3. Bandmap: the filters left out.
