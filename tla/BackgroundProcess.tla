-------------------------- MODULE BackgroundProcess --------------------------
(***************************************************************************)
(* The two threads of Tlf and the handshake between them.                  *)
(*                                                                         *)
(* The main thread runs logit(): it waits for keys and executes commands.  *)
(* The background thread runs background_process(): it receives LAN        *)
(* packets, stores the QSOs they carry and talks to the radio.  Both       *)
(* change the log, which exists twice: as a file and as the array          *)
(* qso_array.  A command that rebuilds the array from the file parks the   *)
(* background thread first (pause_background_process), or does not.        *)
(*                                                                         *)
(* A log entry is represented by its origin.  The slot lan_message holds   *)
(* at most one received packet.                                            *)
(***************************************************************************)
EXTENDS Naturals, Sequences, FiniteSets, SequencesExt

CONSTANTS Commands,     \* what the operator does when Tlf runs alone
          LanCommands,  \* what the operator does when other nodes send entries
          MaxLog        \* bound: no new entries once the file has this many

PausingCommands  == {"edit_last", "logedit"}
RescoreCommands  == {"delete_qso", "rescore"}
Origin           == {"own", "lan", "note"}

AllCommands == PausingCommands \cup RescoreCommands
               \cup {"log_qso", "include_note", "quit"}

ASSUME ConstAssumption ==
    /\ Commands \subseteq AllCommands /\ LanCommands \subseteq AllCommands
    /\ MaxLog \in Nat

VARIABLES
    lanActive,       \* lan_active, from the configuration
    go,              \* the background loop continues
    pause,           \* pause_backgrnd_process
    pauseMutex,      \* holder of pause_backgrnd_process_mutex
    resumeWaiters,   \* threads blocked on resume_backgrnd_process_cond
    pausedWaiters,   \* threads blocked on backgrnd_process_paused_cond
    diskMutex,       \* holder of disk_mutex
    bg,              \* where the background thread is
    main,            \* where the main thread is
    task,            \* the command the main thread executes
    lanMessage,      \* a log entry waits in lan_message
    file,            \* the entries of the log file
    qsoArray,        \* the entries of qso_array
    readPos          \* lines readcalls() has read from the file

threadVars == <<go, pause, pauseMutex, resumeWaiters, pausedWaiters, diskMutex>>
logVars    == <<file, qsoArray, readPos>>
vars       == <<lanActive, threadVars, bg, main, task, lanMessage, logVars>>

Nobody == "nobody"

BgPlaces == {"top", "lock", "check", "waiting", "body", "handle", "diskLock",
             "store", "append", "unlock", "txinfo", "exited"}
MainPlaces == {"resumeLock", "resume", "idle", "pauseLock", "pauseSet",
               "pausing", "edit", "init", "read", "scroll", "diskLock",
               "store", "append", "unlock", "noteStore", "noteAppend",
               "join", "done"}

Alive == main # "done"

\* logit() starts with the background thread created but parked by the
\* initial value of pause; the log has been read by readcalls() in main().
Init ==
    /\ lanActive \in BOOLEAN
    /\ go = TRUE /\ pause = TRUE
    /\ pauseMutex = Nobody /\ diskMutex = Nobody
    /\ resumeWaiters = {} /\ pausedWaiters = {}
    /\ bg = "top" /\ main = "resumeLock" /\ task = "boot"
    /\ lanMessage = FALSE
    /\ file \in {<<>>, <<"own">>} /\ qsoArray = file /\ readPos = Len(file)

-----------------------------------------------------------------------------
(* The background thread: background_process().                            *)

BgGoto(from, to) == Alive /\ bg = from /\ bg' = to /\ UNCHANGED lanActive

\* Mutant: the loop does not test go.
BgTop_IgnoresGo ==
    /\ BgGoto("top", "lock")
    /\ UNCHANGED <<threadVars, main, task, lanMessage, logVars>>

BgTop ==
    /\ BgGoto("top", IF go THEN "lock" ELSE "exited")
    /\ UNCHANGED <<threadVars, main, task, lanMessage, logVars>>

\* background_process_wait() takes the mutex ...
BgLock ==
    /\ BgGoto("lock", "check")
    /\ pauseMutex = Nobody /\ pauseMutex' = "bg"
    /\ UNCHANGED <<go, pause, resumeWaiters, pausedWaiters, diskMutex,
                   main, task, lanMessage, logVars>>

\* Mutant: the broadcast is forgotten.
BgPark_Silent ==
    /\ pause
    /\ BgGoto("check", "waiting")
    /\ resumeWaiters' = resumeWaiters \cup {"bg"}
    /\ pauseMutex' = Nobody
    /\ UNCHANGED <<go, pause, pausedWaiters, diskMutex, main, task,
                   lanMessage, logVars>>

\* ... and, when a pause is wanted, tells the main thread and waits.  There is
\* no loop around pthread_cond_wait: the wait ends with the first wake-up.
BgPark ==
    /\ pause
    /\ BgGoto("check", "waiting")
    /\ pausedWaiters' = {}
    /\ resumeWaiters' = resumeWaiters \cup {"bg"}
    /\ pauseMutex' = Nobody
    /\ UNCHANGED <<go, pause, diskMutex, main, task, lanMessage, logVars>>

BgPass ==
    /\ ~pause
    /\ BgGoto("check", "body")
    /\ pauseMutex' = Nobody
    /\ UNCHANGED <<go, pause, resumeWaiters, pausedWaiters, diskMutex,
                   main, task, lanMessage, logVars>>

\* The woken thread gets the mutex back and releases it at once.
BgWake ==
    /\ BgGoto("waiting", "body")
    /\ "bg" \notin resumeWaiters /\ pauseMutex = Nobody
    /\ UNCHANGED <<threadVars, main, task, lanMessage, logVars>>

\* lan_recv() fills the empty slot, or finds no packet.
BgReceive ==
    /\ BgGoto("body", "handle")
    /\ \/ /\ lanActive /\ ~lanMessage /\ Len(file) < MaxLog
          /\ lanMessage' = TRUE
       \/ UNCHANGED lanMessage
    /\ UNCHANGED <<threadVars, main, task, logVars>>

\* Mutant: messages are taken during a pause only.
BgDispatch_Inverted ==
    /\ BgGoto("handle", IF lanMessage /\ pause THEN "diskLock" ELSE "txinfo")
    /\ UNCHANGED <<threadVars, main, task, lanMessage, logVars>>

\* The message is taken only when no pause is wanted; the flag is read here
\* without its mutex.
BgDispatch ==
    /\ BgGoto("handle", IF lanMessage /\ ~pause THEN "diskLock" ELSE "txinfo")
    /\ UNCHANGED <<threadVars, main, task, lanMessage, logVars>>

\* log_to_disk(true): lock, append to the file, append to qso_array, unlock.
BgDiskLock ==
    /\ BgGoto("diskLock", "store")
    /\ diskMutex = Nobody /\ diskMutex' = "bg"
    /\ UNCHANGED <<go, pause, pauseMutex, resumeWaiters, pausedWaiters,
                   main, task, lanMessage, logVars>>

BgStore ==
    /\ BgGoto("store", "append")
    /\ file' = Append(file, "lan")
    /\ UNCHANGED <<threadVars, main, task, lanMessage, qsoArray, readPos>>

\* store_qso() cannot open the file: exit() runs tlf_cleanup() in this thread,
\* which does not join itself, and the process ends.
BgStoreFails ==
    /\ BgGoto("store", "exited")
    /\ main' = "done"
    /\ UNCHANGED <<threadVars, task, lanMessage, logVars>>

BgAppend ==
    /\ BgGoto("append", "unlock")
    /\ qsoArray' = Append(qsoArray, "lan")
    /\ UNCHANGED <<threadVars, main, task, lanMessage, file, readPos>>

BgUnlock ==
    /\ BgGoto("unlock", "txinfo")
    /\ diskMutex' = Nobody
    /\ lanMessage' = FALSE
    /\ UNCHANGED <<go, pause, pauseMutex, resumeWaiters, pausedWaiters,
                   main, task, logVars>>

BgTxInfo ==
    /\ BgGoto("txinfo", "top")
    /\ UNCHANGED <<threadVars, main, task, lanMessage, logVars>>

BgNext == \/ BgTop \/ BgLock \/ BgPark \/ BgPass \/ BgWake \/ BgReceive
          \/ BgDispatch \/ BgDiskLock \/ BgStore \/ BgStoreFails \/ BgAppend
          \/ BgUnlock \/ BgTxInfo

-----------------------------------------------------------------------------
(* The main thread: commands typed by the operator.                        *)

Goto(from, to) == main = from /\ main' = to /\ UNCHANGED lanActive

Start(command, to) ==
    /\ Goto("idle", to)
    /\ command \in IF lanActive THEN LanCommands ELSE Commands
    /\ task' = command
    /\ UNCHANGED <<threadVars, bg, lanMessage>>

\* edit_last() returns at once when there is nothing to edit.
StartEdit ==
    /\ \/ qsoArray # <<>> /\ Start("edit_last", "pauseLock")
       \/ Start("logedit", "pauseLock")
    /\ UNCHANGED logVars

\* delete_qso() cuts the last line off the file before it rereads it.
StartDelete ==
    /\ Start("delete_qso", "init")
    /\ file' = IF file = <<>> THEN file ELSE Front(file)
    /\ UNCHANGED <<qsoArray, readPos>>

StartRescore == Start("rescore", "init") /\ UNCHANGED logVars

StartLog ==
    /\ Len(file) < MaxLog
    /\ \/ Start("log_qso", "diskLock")
       \/ Start("include_note", "noteStore")
    /\ UNCHANGED logVars

StartQuit ==
    /\ Goto("idle", "join")
    /\ "quit" \in IF lanActive THEN LanCommands ELSE Commands
    /\ task' = "quit" /\ go' = FALSE
    /\ UNCHANGED <<pause, pauseMutex, resumeWaiters, pausedWaiters, diskMutex,
                   bg, lanMessage, logVars>>

-----------------------------------------------------------------------------
(* pause_background_process() and resume_background_process().             *)

PauseLock ==
    /\ Goto("pauseLock", "pauseSet")
    /\ pauseMutex = Nobody /\ pauseMutex' = "main"
    /\ UNCHANGED <<go, pause, resumeWaiters, pausedWaiters, diskMutex,
                   bg, task, lanMessage, logVars>>

\* Mutant: the flag is set but the main thread does not wait.
PauseSet_NoWait ==
    /\ Goto("pauseSet", "edit")
    /\ pause' = TRUE
    /\ pauseMutex' = Nobody
    /\ UNCHANGED <<go, resumeWaiters, pausedWaiters, diskMutex, bg, task,
                   lanMessage, logVars>>

PauseSet ==
    /\ Goto("pauseSet", "pausing")
    /\ pause' = TRUE
    /\ pausedWaiters' = pausedWaiters \cup {"main"}
    /\ pauseMutex' = Nobody
    /\ UNCHANGED <<go, resumeWaiters, diskMutex, bg, task, lanMessage, logVars>>

PauseReturn ==
    /\ Goto("pausing", "edit")
    /\ "main" \notin pausedWaiters /\ pauseMutex = Nobody
    /\ UNCHANGED <<threadVars, bg, task, lanMessage, logVars>>

ResumeLock ==
    /\ Goto("resumeLock", "resume")
    /\ pauseMutex = Nobody /\ pauseMutex' = "main"
    /\ UNCHANGED <<go, pause, resumeWaiters, pausedWaiters, diskMutex,
                   bg, task, lanMessage, logVars>>

Resume ==
    /\ Goto("resume", IF task = "logedit" THEN "scroll" ELSE "idle")
    /\ pause' = FALSE
    /\ resumeWaiters' = {}
    /\ pauseMutex' = Nobody
    /\ UNCHANGED <<go, pausedWaiters, diskMutex, bg, task, lanMessage, logVars>>

-----------------------------------------------------------------------------
(* Editing and log_read_n_score().                                         *)

\* The operator leaves the editor.  An external editor may have cut lines;
\* edit_last() rewrites lines in place and rescores only when one changed.
EditEnd ==
    /\ \/ /\ task = "logedit"
          /\ Goto("edit", "init")
          /\ \E n \in 0 .. Len(file) : file' = SubSeq(file, 1, n)
       \/ /\ task = "edit_last"
          /\ \E to \in {"init", "scroll"} : Goto("edit", to)
          /\ UNCHANGED file
    /\ UNCHANGED <<threadVars, bg, task, lanMessage, qsoArray, readPos>>

\* init_scoring() empties the array, then the file is read line by line.
ReadInit ==
    /\ Goto("init", "read")
    /\ qsoArray' = <<>> /\ readPos' = 0
    /\ UNCHANGED <<threadVars, bg, task, lanMessage, file>>

ReadLine ==
    /\ Goto("read", "read")
    /\ readPos < Len(file)
    /\ readPos' = readPos + 1
    /\ qsoArray' = Append(qsoArray, file[readPos + 1])
    /\ UNCHANGED <<threadVars, bg, task, lanMessage, file>>

ReadEnd ==
    /\ Goto("read", IF task = "logedit" THEN "resumeLock" ELSE "scroll")
    /\ readPos >= Len(file)
    /\ UNCHANGED <<threadVars, bg, task, lanMessage, logVars>>

\* readcalls() cannot open the log: exit(), with or without a pause.
ReadFails ==
    /\ Goto("init", "join")
    /\ go' = FALSE
    /\ UNCHANGED <<pause, pauseMutex, resumeWaiters, pausedWaiters, diskMutex,
                   bg, task, lanMessage, logVars>>

\* scroll_log() reads the last entries of qso_array.
Scroll ==
    /\ Goto("scroll", IF task = "edit_last" THEN "resumeLock" ELSE "idle")
    /\ UNCHANGED <<threadVars, bg, task, lanMessage, logVars>>

-----------------------------------------------------------------------------
(* Logging a QSO (log_to_disk(false)) and a note (include_note()).         *)

DiskLock ==
    /\ Goto("diskLock", "store")
    /\ diskMutex = Nobody /\ diskMutex' = "main"
    /\ UNCHANGED <<go, pause, pauseMutex, resumeWaiters, pausedWaiters,
                   bg, task, lanMessage, logVars>>

Store ==
    /\ \/ Goto("store", "append") /\ file' = Append(file, "own")
       \/ Goto("noteStore", "noteAppend") /\ file' = Append(file, "note")
    /\ UNCHANGED <<threadVars, bg, task, lanMessage, qsoArray, readPos>>

\* store_qso() cannot open the file: exit() with disk_mutex still held.
StoreFails ==
    /\ Goto("store", "join") \/ Goto("noteStore", "join")
    /\ go' = FALSE
    /\ UNCHANGED <<pause, pauseMutex, resumeWaiters, pausedWaiters, diskMutex,
                   bg, task, lanMessage, logVars>>

AppendQso ==
    /\ \/ Goto("append", "unlock") /\ qsoArray' = Append(qsoArray, "own")
       \/ Goto("noteAppend", "scroll") /\ qsoArray' = Append(qsoArray, "note")
    /\ UNCHANGED <<threadVars, bg, task, lanMessage, file, readPos>>

DiskUnlock ==
    /\ Goto("unlock", "idle")
    /\ diskMutex' = Nobody
    /\ UNCHANGED <<go, pause, pauseMutex, resumeWaiters, pausedWaiters,
                   bg, task, lanMessage, logVars>>

\* tlf_cleanup() joins the background thread, then the process ends.
Join ==
    /\ Goto("join", "done")
    /\ bg = "exited"
    /\ UNCHANGED <<threadVars, bg, task, lanMessage, logVars>>

\* Steps that wait for the operator, and those that do not.
Operator == StartEdit \/ StartDelete \/ StartRescore \/ StartLog \/ StartQuit
            \/ EditEnd
MainStep == \/ PauseSet \/ Resume \/ ReadInit \/ ReadLine \/ ReadEnd
            \/ ReadFails \/ Scroll \/ Store \/ StoreFails \/ AppendQso
            \/ DiskUnlock \/ Join
MainLock == PauseLock \/ PauseReturn \/ ResumeLock \/ DiskLock

Next == BgNext \/ Operator \/ MainStep \/ MainLock

\* Neither thread stops running; a thread blocked on a mutex gets it if it is
\* free again and again (the background thread sleeps 10 ms in every cycle).
\* Nothing is assumed about the operator.
Fairness ==
    /\ WF_vars(BgNext) /\ WF_vars(MainStep)
    /\ SF_vars(MainLock) /\ SF_vars(BgLock \/ BgWake) /\ SF_vars(BgDiskLock)

Spec == Init /\ [][Next]_vars /\ Fairness

\* POSIX lets pthread_cond_wait return without a signal.
SpuriousWakeup ==
    /\ Alive
    /\ \/ resumeWaiters # {} /\ resumeWaiters' = {} /\ UNCHANGED pausedWaiters
       \/ pausedWaiters # {} /\ pausedWaiters' = {} /\ UNCHANGED resumeWaiters
    /\ UNCHANGED <<lanActive, go, pause, pauseMutex, diskMutex, bg, main,
                   task, lanMessage, logVars>>

SpuriousSpec == Init /\ [][Next \/ SpuriousWakeup]_vars /\ Fairness

-----------------------------------------------------------------------------
(* Properties.                                                             *)

ThreadTypeOK ==
    /\ lanActive \in BOOLEAN /\ go \in BOOLEAN
    /\ pause \in BOOLEAN /\ lanMessage \in BOOLEAN
    /\ pauseMutex \in {"main", "bg", Nobody}
    /\ diskMutex \in {"main", "bg", Nobody}
    /\ resumeWaiters \subseteq {"bg"} /\ pausedWaiters \subseteq {"main"}
    /\ bg \in BgPlaces /\ main \in MainPlaces
    /\ task \in {"boot"} \cup AllCommands

LogTypeOK ==
    file \in Seq(Origin) /\ qsoArray \in Seq(Origin) /\ readPos \in Nat

\* The type invariant; nothing but log entries gets into the file.
TypeOK == ThreadTypeOK /\ LogTypeOK

\* The main thread has parked the background thread and not yet resumed it.
Paused ==
    \/ main \in {"edit", "resumeLock", "resume"}
    \/ task \in PausingCommands /\ main \in {"init", "read"}
    \/ task = "edit_last" /\ main = "scroll"

\* While an editing command is between pause_background_process() and
\* resume_background_process(), the background thread sits in
\* background_process_wait() and nowhere near the log.
PausedMeansParked ==
    Paused /\ task \in PausingCommands => bg = "waiting"

\* edit_last.c:279: the pause freezes the number of QSOs, so the line numbers
\* edit_last() computes from it stay valid: no step of the background thread
\* changes the log or its file while an editing command is in its pause.
FreezesQsos ==
    [][Paused /\ bg' # bg => UNCHANGED <<file, qsoArray>>]_vars

\* The assertions of background_process.c hold: the flag is clear when
\* pause_background_process() sets it and set when it is cleared.
AssertsHold ==
    /\ main = "pauseSet" => ~pause
    /\ main = "resume" => pause

\* pause_background_process() returns: the broadcast of the background thread
\* cannot be missed, whatever the thread was doing when the flag was set.
PauseReturns ==
    main = "pauseLock" ~> main \in {"edit", "done"}

\* A log entry received from the LAN is stored, unless the operator starts an
\* editing command or the program ends first.
MessageHandled ==
    lanMessage ~> (~lanMessage \/ pause \/ main \in {"join", "done"})

\* After exit() the cleanup runs to its end and Tlf terminates (main.c:1034),
\* when exit() is called while the background thread is not parked and
\* disk_mutex is not held.  (Inside a pause, or in store_qso() with the mutex,
\* it is not so: the thread that is joined cannot run.)
QuitCompletes ==
    (main = "join" /\ ~pause /\ diskMutex # "main") ~> main = "done"
=============================================================================
