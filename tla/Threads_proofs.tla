---------------------------- MODULE Threads_proofs ----------------------------
(***************************************************************************)
(* What the two threads of one node may do to each other, for every choice *)
(* of commands and radios: the handshake by which the main thread parks    *)
(* the background thread, with and without a LAN and for logs of every     *)
(* length, the globals of the radio that both write without a lock, and    *)
(* the text of the cluster that both read, for lines and fragments of any  *)
(* length and tables of any size.                                          *)
(***************************************************************************)
EXTENDS BackgroundProcess, RigControl, Cluster, SequenceTheorems, FiniteSetTheorems,
        WellFoundedInduction, TLAPS

-----------------------------------------------------------------------------
(* The handshake.                                                          *)

\* The flag is set exactly where the main thread has set it and not yet
\* cleared it, and the loop is told to end only by exit().
FlagInv ==
    /\ main \in {"noteStore", "noteAppend"} => task = "include_note"
    /\ main \in {"pauseLock", "pauseSet", "pausing", "edit"}
          => task \in PausingCommands
    /\ main \in {"resumeLock", "resume"} => task \in PausingCommands \cup {"boot"}
    /\ main \notin {"join", "done"}
          => go /\ (pause <=> Paused \/ main = "pausing")

\* Who holds the mutex of the handshake and who waits on its conditions.
WaitInv ==
    /\ pauseMutex = "main" <=> main \in {"pauseSet", "resume"}
    /\ pauseMutex = "bg" <=> bg = "check"
    /\ pausedWaiters # {} => main = "pausing"
    /\ "bg" \in resumeWaiters => bg = "waiting" /\ pause

\* From the moment the main thread is told, the background thread waits for a
\* broadcast that only resume_background_process() makes.
ParkInv ==
    /\ main = "pausing" /\ "main" \notin pausedWaiters
          => bg = "waiting" /\ "bg" \in resumeWaiters
    /\ Paused => /\ bg \in {"top", "lock", "check", "waiting"}
                 /\ bg = "waiting" => "bg" \in resumeWaiters
                 /\ task \in PausingCommands => bg = "waiting"

LoopInv == TypeOK /\ FlagInv /\ (Alive => WaitInv /\ ParkInv)

-----------------------------------------------------------------------------
(* Types.                                                                  *)

\* Appending an entry to a log, or cutting lines off its end, leaves a log.
LEMMA LogOperations ==
    ASSUME NEW entries \in Seq(Origin)
    PROVE  /\ \A e \in Origin : Append(entries, e) \in Seq(Origin)
           /\ \A n \in 0 .. Len(entries) : SubSeq(entries, 1, n) \in Seq(Origin)
           /\ entries # <<>> => Front(entries) \in Seq(Origin)
<1>1. \A n \in 0 .. Len(entries) : \A i \in 1 .. n : entries[i] \in Origin
  BY ElementOfSeq
<1>2. \A n \in 0 .. Len(entries) : SubSeq(entries, 1, n) \in Seq(Origin)
  BY <1>1, LenProperties, SubSeqProperties
<1>3. entries # <<>> => Len(entries) - 1 \in 0 .. Len(entries)
  BY EmptySeq, LenProperties
<1> QED
  BY <1>2, <1>3, AppendProperties DEF Front

LEMMA LoopInitTypeOK == Init => TypeOK
<1> SUFFICES ASSUME Init
             PROVE  TypeOK
  OBVIOUS
<1>1. <<>> \in Seq(Origin) /\ <<"own">> \in Seq(Origin)
  BY DEF Origin
<1>2. file \in Seq(Origin) /\ qsoArray \in Seq(Origin) /\ readPos \in Nat
  BY <1>1, LenProperties DEF Init
<1> QED
  BY <1>2 DEF Init, TypeOK, ThreadTypeOK, LogTypeOK, BgPlaces, MainPlaces, Nobody

LEMMA NextThreadTypeOK ==
    ThreadTypeOK /\ [Next \/ SpuriousWakeup]_vars => ThreadTypeOK'
<1> SUFFICES ASSUME ThreadTypeOK, [Next \/ SpuriousWakeup]_vars
             PROVE  ThreadTypeOK'
  OBVIOUS
<1> USE DEF ThreadTypeOK, threadVars
<1>1. CASE BgTop
  BY <1>1 DEF BgTop, BgGoto, BgPlaces
<1>2. CASE BgLock
  BY <1>2 DEF BgLock, BgGoto, BgPlaces, Nobody
<1>3. CASE BgPark
  BY <1>3 DEF BgPark, BgGoto, BgPlaces, Nobody
<1>4. CASE BgPass
  BY <1>4 DEF BgPass, BgGoto, BgPlaces, Nobody
<1>5. CASE BgWake
  BY <1>5 DEF BgWake, BgGoto, BgPlaces
<1>6. CASE BgReceive
  BY <1>6 DEF BgReceive, BgGoto, BgPlaces
<1>7. CASE BgDispatch
  BY <1>7 DEF BgDispatch, BgGoto, BgPlaces
<1>8. CASE BgDiskLock
  BY <1>8 DEF BgDiskLock, BgGoto, BgPlaces, Nobody
<1>9. CASE BgStore
  BY <1>9 DEF BgStore, BgGoto, BgPlaces
<1>10. CASE BgStoreFails
  BY <1>10 DEF BgStoreFails, BgGoto, BgPlaces, MainPlaces
<1>11. CASE BgAppend
  BY <1>11 DEF BgAppend, BgGoto, BgPlaces
<1>12. CASE BgUnlock
  BY <1>12 DEF BgUnlock, BgGoto, BgPlaces, Nobody
<1>13. CASE BgTxInfo
  BY <1>13 DEF BgTxInfo, BgGoto, BgPlaces
<1>14. CASE StartEdit
  BY <1>14 DEF StartEdit, Goto, Start, MainPlaces, AllCommands,
     PausingCommands, RescoreCommands
<1>15. CASE StartDelete
  BY <1>15 DEF StartDelete, Goto, Start, MainPlaces, AllCommands,
     PausingCommands, RescoreCommands
<1>16. CASE StartRescore
  BY <1>16 DEF StartRescore, Goto, Start, MainPlaces, AllCommands,
     PausingCommands, RescoreCommands
<1>17. CASE StartLog
  BY <1>17 DEF StartLog, Goto, Start, MainPlaces, AllCommands,
     PausingCommands, RescoreCommands
<1>18. CASE StartQuit
  BY <1>18 DEF StartQuit, Goto, MainPlaces, AllCommands, PausingCommands,
     RescoreCommands
<1>19. CASE EditEnd
  BY <1>19 DEF EditEnd, Goto, MainPlaces
<1>20. CASE PauseSet
  BY <1>20 DEF PauseSet, Goto, MainPlaces, Nobody
<1>21. CASE Resume
  BY <1>21 DEF Resume, Goto, MainPlaces, Nobody
<1>22. CASE ReadInit
  BY <1>22 DEF ReadInit, Goto, MainPlaces
<1>23. CASE ReadLine
  BY <1>23 DEF ReadLine, Goto, MainPlaces
<1>24. CASE ReadEnd
  BY <1>24 DEF ReadEnd, Goto, MainPlaces
<1>25. CASE ReadFails
  BY <1>25 DEF ReadFails, Goto, MainPlaces
<1>26. CASE Scroll
  BY <1>26 DEF Scroll, Goto, MainPlaces
<1>27. CASE Store
  BY <1>27 DEF Store, Goto, MainPlaces
<1>28. CASE StoreFails
  BY <1>28 DEF StoreFails, Goto, MainPlaces
<1>29. CASE AppendQso
  BY <1>29 DEF AppendQso, Goto, MainPlaces
<1>30. CASE DiskUnlock
  BY <1>30 DEF DiskUnlock, Goto, MainPlaces, Nobody
<1>31. CASE Join
  BY <1>31 DEF Join, Goto, MainPlaces
<1>32. CASE PauseLock
  BY <1>32 DEF PauseLock, Goto, MainPlaces, Nobody
<1>33. CASE PauseReturn
  BY <1>33 DEF PauseReturn, Goto, MainPlaces
<1>34. CASE ResumeLock
  BY <1>34 DEF ResumeLock, Goto, MainPlaces, Nobody
<1>35. CASE DiskLock
  BY <1>35 DEF DiskLock, Goto, MainPlaces, Nobody
<1>36. CASE SpuriousWakeup
  BY <1>36 DEF SpuriousWakeup
<1>37. CASE UNCHANGED vars
  BY <1>37 DEF vars
<1> QED
  BY <1>1, <1>2, <1>3, <1>4, <1>5, <1>6, <1>7, <1>8, <1>9, <1>10, <1>11,
     <1>12, <1>13, <1>14, <1>15, <1>16, <1>17, <1>18, <1>19, <1>20,
     <1>21, <1>22, <1>23, <1>24, <1>25, <1>26, <1>27, <1>28, <1>29,
     <1>30, <1>31, <1>32, <1>33, <1>34, <1>35, <1>36, <1>37
     DEF Next, BgNext, Operator, MainStep, MainLock

LEMMA NextLogTypeOK ==
    LogTypeOK /\ [Next \/ SpuriousWakeup]_vars => LogTypeOK'
<1> SUFFICES ASSUME LogTypeOK, [Next \/ SpuriousWakeup]_vars
             PROVE  LogTypeOK'
  OBVIOUS
<1> USE DEF LogTypeOK
<1>1. CASE BgStore
  BY <1>1, LogOperations DEF BgStore, Origin
<1>2. CASE BgAppend
  BY <1>2, LogOperations DEF BgAppend, Origin
<1>3. CASE StartDelete
  BY <1>3, LogOperations DEF StartDelete
<1>4. CASE EditEnd
  BY <1>4, LogOperations DEF EditEnd
<1>5. CASE Store
  BY <1>5, LogOperations DEF Store, Origin
<1>6. CASE AppendQso
  BY <1>6, LogOperations DEF AppendQso, Origin
<1>7. CASE ReadInit
  BY <1>7, EmptySeq DEF ReadInit
<1>8. CASE ReadLine
  <2>1. file[readPos + 1] \in Origin
    BY <1>8, ElementOfSeq, LenProperties DEF ReadLine
  <2> QED
    BY <1>8, <2>1, LogOperations DEF ReadLine
<1>9. CASE BgTop \/ BgLock \/ BgPark \/ BgPass \/ BgWake \/ BgReceive \/
                  BgDispatch \/ BgDiskLock \/ BgStoreFails \/
                  BgUnlock \/ BgTxInfo
  BY <1>9 DEF BgTop, BgLock, BgPark, BgPass, BgWake, BgReceive,
     BgDispatch, BgDiskLock, BgStoreFails, BgUnlock, BgTxInfo, logVars
<1>10. CASE StartEdit \/ StartRescore \/ StartLog \/ StartQuit \/ PauseSet \/
                  Resume \/ ReadEnd \/ ReadFails \/ Scroll \/
                  StoreFails \/ DiskUnlock \/ Join \/ PauseLock \/
                  PauseReturn \/ ResumeLock \/ DiskLock \/
                  SpuriousWakeup
  BY <1>10 DEF StartEdit, StartRescore, StartLog, StartQuit, PauseSet,
     Resume, ReadEnd, ReadFails, Scroll, StoreFails, DiskUnlock, Join,
     PauseLock, PauseReturn, ResumeLock, DiskLock, SpuriousWakeup, Start,
     logVars
<1>11. CASE UNCHANGED vars
  BY <1>11 DEF vars, logVars
<1> QED
  BY <1>1, <1>2, <1>3, <1>4, <1>5, <1>6, <1>7, <1>8, <1>9, <1>10, <1>11
     DEF Next, BgNext, Operator, MainStep, MainLock

-----------------------------------------------------------------------------
(* The flag.                                                               *)

LEMMA InitFlagInv == Init => FlagInv
  BY DEF Init, FlagInv, Paused, PausingCommands

LEMMA NextFlagInv ==
    ThreadTypeOK /\ FlagInv /\ [Next \/ SpuriousWakeup]_vars => FlagInv'
<1> SUFFICES ASSUME ThreadTypeOK, FlagInv, [Next \/ SpuriousWakeup]_vars
             PROVE  FlagInv'
  OBVIOUS
<1> USE DEF FlagInv, Paused, PausingCommands, vars, threadVars
<1>1. CASE BgTop
  BY <1>1 DEF BgTop, BgGoto, Alive
<1>2. CASE BgLock
  BY <1>2 DEF BgLock, BgGoto, Alive
<1>3. CASE BgPark
  BY <1>3 DEF BgPark, BgGoto, Alive
<1>4. CASE BgPass
  BY <1>4 DEF BgPass, BgGoto, Alive
<1>5. CASE BgWake
  BY <1>5 DEF BgWake, BgGoto, Alive
<1>6. CASE BgReceive
  BY <1>6 DEF BgReceive, BgGoto, Alive
<1>7. CASE BgDispatch
  BY <1>7 DEF BgDispatch, BgGoto, Alive
<1>8. CASE BgDiskLock
  BY <1>8 DEF BgDiskLock, BgGoto, Alive
<1>9. CASE BgStore
  BY <1>9 DEF BgStore, BgGoto, Alive
<1>10. CASE BgStoreFails
  BY <1>10 DEF BgStoreFails, BgGoto, Alive
<1>11. CASE BgAppend
  BY <1>11 DEF BgAppend, BgGoto, Alive
<1>12. CASE BgUnlock
  BY <1>12 DEF BgUnlock, BgGoto, Alive
<1>13. CASE BgTxInfo
  BY <1>13 DEF BgTxInfo, BgGoto, Alive
<1>14. CASE StartEdit
  BY <1>14 DEF StartEdit, Goto, Start
<1>15. CASE StartDelete
  BY <1>15 DEF StartDelete, Goto, Start
<1>16. CASE StartRescore
  BY <1>16 DEF StartRescore, Goto, Start
<1>17. CASE StartLog
  BY <1>17 DEF StartLog, Goto, Start
<1>18. CASE StartQuit
  BY <1>18 DEF StartQuit, Goto
<1>19. CASE EditEnd
  BY <1>19 DEF EditEnd, Goto
<1>20. CASE PauseSet
  BY <1>20 DEF PauseSet, Goto, ThreadTypeOK
<1>21. CASE Resume
  BY <1>21 DEF Resume, Goto, ThreadTypeOK
<1>22. CASE ReadInit
  BY <1>22 DEF ReadInit, Goto
<1>23. CASE ReadLine
  BY <1>23 DEF ReadLine, Goto
<1>24. CASE ReadEnd
  BY <1>24 DEF ReadEnd, Goto
<1>25. CASE ReadFails
  BY <1>25 DEF ReadFails, Goto
<1>26. CASE Scroll
  BY <1>26 DEF Scroll, Goto
<1>27. CASE Store
  <2>1. CASE main = "store"
    BY <1>27, <2>1 DEF Store, Goto
  <2>2. CASE main = "noteStore"
    BY <1>27, <2>2 DEF Store, Goto
  <2> QED
    BY <1>27, <2>1, <2>2 DEF Store, Goto
<1>28. CASE StoreFails
  <2>1. CASE main = "store"
    BY <1>28, <2>1 DEF StoreFails, Goto
  <2>2. CASE main = "noteStore"
    BY <1>28, <2>2 DEF StoreFails, Goto
  <2> QED
    BY <1>28, <2>1, <2>2 DEF StoreFails, Goto
<1>29. CASE AppendQso
  <2>1. CASE main = "append"
    BY <1>29, <2>1 DEF AppendQso, Goto
  <2>2. CASE main = "noteAppend"
    BY <1>29, <2>2 DEF AppendQso, Goto
  <2> QED
    BY <1>29, <2>1, <2>2 DEF AppendQso, Goto
<1>30. CASE DiskUnlock
  BY <1>30 DEF DiskUnlock, Goto
<1>31. CASE Join
  BY <1>31 DEF Join, Goto
<1>32. CASE PauseLock
  BY <1>32 DEF PauseLock, Goto
<1>33. CASE PauseReturn
  BY <1>33 DEF PauseReturn, Goto
<1>34. CASE ResumeLock
  BY <1>34 DEF ResumeLock, Goto
<1>35. CASE DiskLock
  BY <1>35 DEF DiskLock, Goto
<1>36. CASE SpuriousWakeup
  <2>1. CASE UNCHANGED pausedWaiters
    BY <1>36, <2>1 DEF SpuriousWakeup
  <2>2. CASE UNCHANGED resumeWaiters
    BY <1>36, <2>2 DEF SpuriousWakeup
  <2> QED
    BY <1>36, <2>1, <2>2 DEF SpuriousWakeup
<1>37. CASE UNCHANGED vars
  BY <1>37
<1> QED
  BY <1>1, <1>2, <1>3, <1>4, <1>5, <1>6, <1>7, <1>8, <1>9, <1>10, <1>11,
     <1>12, <1>13, <1>14, <1>15, <1>16, <1>17, <1>18, <1>19, <1>20,
     <1>21, <1>22, <1>23, <1>24, <1>25, <1>26, <1>27, <1>28, <1>29,
     <1>30, <1>31, <1>32, <1>33, <1>34, <1>35, <1>36, <1>37
     DEF Next, BgNext, Operator, MainStep, MainLock

-----------------------------------------------------------------------------
(* The handshake.                                                          *)

LEMMA InitHandshake == Init => WaitInv /\ ParkInv
  BY DEF Init, WaitInv, ParkInv, Paused, PausingCommands, Nobody

LEMMA NextHandshake ==
    LoopInv /\ [Next]_vars => (Alive => WaitInv /\ ParkInv)'
<1> SUFFICES ASSUME FlagInv, Alive => WaitInv /\ ParkInv, [Next]_vars,
                    Alive', pause \in BOOLEAN,
                    resumeWaiters \subseteq {"bg"},
                    pausedWaiters \subseteq {"main"}
             PROVE  WaitInv' /\ ParkInv'
  BY DEF LoopInv, TypeOK, ThreadTypeOK
<1> USE DEF WaitInv, ParkInv, Paused, PausingCommands, Alive, vars, threadVars,
            Nobody
<1>1. CASE BgTop
  <2>1. CASE go
    BY <1>1, <2>1 DEF BgTop, BgGoto, FlagInv
  <2>2. CASE ~go
    BY <1>1, <2>2 DEF BgTop, BgGoto, FlagInv
  <2> QED
    BY <1>1, <2>1, <2>2 DEF BgTop, BgGoto, FlagInv
<1>2. CASE BgLock
  BY <1>2 DEF BgLock, BgGoto, FlagInv
<1>3. CASE BgPark
  BY <1>3 DEF BgPark, BgGoto, FlagInv
<1>4. CASE BgPass
  BY <1>4 DEF BgPass, BgGoto, FlagInv
<1>5. CASE BgWake
  BY <1>5 DEF BgWake, BgGoto, FlagInv
<1>6. CASE BgReceive
  BY <1>6 DEF BgReceive, BgGoto, FlagInv
<1>7. CASE BgDispatch
  BY <1>7 DEF BgDispatch, BgGoto, FlagInv
<1>8. CASE BgDiskLock
  BY <1>8 DEF BgDiskLock, BgGoto, FlagInv
<1>9. CASE BgStore
  BY <1>9 DEF BgStore, BgGoto, FlagInv
<1>10. CASE BgStoreFails
  BY <1>10 DEF BgStoreFails, BgGoto, FlagInv
<1>11. CASE BgAppend
  BY <1>11 DEF BgAppend, BgGoto, FlagInv
<1>12. CASE BgUnlock
  BY <1>12 DEF BgUnlock, BgGoto, FlagInv
<1>13. CASE BgTxInfo
  BY <1>13 DEF BgTxInfo, BgGoto, FlagInv
<1>14. CASE StartEdit
  BY <1>14 DEF StartEdit, Goto, Start, FlagInv
<1>15. CASE StartDelete
  BY <1>15 DEF StartDelete, Goto, Start, FlagInv
<1>16. CASE StartRescore
  BY <1>16 DEF StartRescore, Goto, Start, FlagInv
<1>17. CASE StartLog
  BY <1>17 DEF StartLog, Goto, Start, FlagInv
<1>18. CASE StartQuit
  BY <1>18 DEF StartQuit, Goto, FlagInv
<1>19. CASE EditEnd
  BY <1>19 DEF EditEnd, Goto, FlagInv
<1>20. CASE PauseSet
  BY <1>20 DEF PauseSet, Goto, FlagInv
<1>21. CASE Resume
  BY <1>21 DEF Resume, Goto, FlagInv
<1>22. CASE ReadInit
  BY <1>22 DEF ReadInit, Goto, FlagInv
<1>23. CASE ReadLine
  BY <1>23 DEF ReadLine, Goto, FlagInv
<1>24. CASE ReadEnd
  BY <1>24 DEF ReadEnd, Goto, FlagInv
<1>25. CASE ReadFails
  BY <1>25 DEF ReadFails, Goto, FlagInv
<1>26. CASE Scroll
  BY <1>26 DEF Scroll, Goto, FlagInv
<1>27. CASE Store
  <2>1. CASE main = "store"
    BY <1>27, <2>1 DEF Store, Goto, FlagInv
  <2>2. CASE main = "noteStore"
    BY <1>27, <2>2 DEF Store, Goto, FlagInv
  <2> QED
    BY <1>27, <2>1, <2>2 DEF Store, Goto, FlagInv
<1>28. CASE StoreFails
  <2>1. CASE main = "store"
    BY <1>28, <2>1 DEF StoreFails, Goto, FlagInv
  <2>2. CASE main = "noteStore"
    BY <1>28, <2>2 DEF StoreFails, Goto, FlagInv
  <2> QED
    BY <1>28, <2>1, <2>2 DEF StoreFails, Goto, FlagInv
<1>29. CASE AppendQso
  <2>1. CASE main = "append"
    BY <1>29, <2>1 DEF AppendQso, Goto, FlagInv
  <2>2. CASE main = "noteAppend"
    BY <1>29, <2>2 DEF AppendQso, Goto, FlagInv
  <2> QED
    BY <1>29, <2>1, <2>2 DEF AppendQso, Goto, FlagInv
<1>30. CASE DiskUnlock
  BY <1>30 DEF DiskUnlock, Goto, FlagInv
<1>31. CASE Join
  BY <1>31 DEF Join, Goto, FlagInv
<1>32. CASE PauseLock
  BY <1>32 DEF PauseLock, Goto, FlagInv
<1>33. CASE PauseReturn
  BY <1>33 DEF PauseReturn, Goto, FlagInv
<1>34. CASE ResumeLock
  BY <1>34 DEF ResumeLock, Goto, FlagInv
<1>35. CASE DiskLock
  BY <1>35 DEF DiskLock, Goto, FlagInv
<1>36. CASE UNCHANGED vars
  BY <1>36
<1> QED
  BY <1>1, <1>2, <1>3, <1>4, <1>5, <1>6, <1>7, <1>8, <1>9, <1>10, <1>11,
     <1>12, <1>13, <1>14, <1>15, <1>16, <1>17, <1>18, <1>19, <1>20,
     <1>21, <1>22, <1>23, <1>24, <1>25, <1>26, <1>27, <1>28, <1>29,
     <1>30, <1>31, <1>32, <1>33, <1>34, <1>35, <1>36
     DEF Next, BgNext, Operator, MainStep, MainLock

-----------------------------------------------------------------------------
(* Theorems.                                                               *)

LEMMA LoopInductive == Spec => []LoopInv
<1>1. Init => LoopInv
  BY LoopInitTypeOK, InitFlagInv, InitHandshake DEF LoopInv
<1>2. LoopInv /\ [Next]_vars => LoopInv'
  BY NextThreadTypeOK, NextLogTypeOK, NextFlagInv, NextHandshake
     DEF LoopInv, TypeOK
<1> QED
  BY <1>1, <1>2, PTL DEF Spec

\* Every variable keeps its type, however long the log grows.
THEOREM LoopTypeCorrect == Spec => []TypeOK
<1>1. LoopInv => TypeOK
  BY DEF LoopInv
<1> QED
  BY LoopInductive, <1>1, PTL

\* edit_last() and logedit() work only while the background thread sits in
\* background_process_wait().
THEOREM Parking == Spec => []PausedMeansParked
<1>1. LoopInv => PausedMeansParked
  BY DEF LoopInv, ParkInv, Paused, Alive, PausedMeansParked, PausingCommands
<1> QED
  BY LoopInductive, <1>1, PTL

\* In a pause no step of the background thread changes the log.
THEOREM Freezing == Spec => FreezesQsos
<1>1. LoopInv /\ [Next]_vars
         => [Paused /\ bg' # bg => UNCHANGED <<file, qsoArray>>]_vars
  <2> SUFFICES ASSUME LoopInv, Next, Paused, bg' # bg
               PROVE  UNCHANGED <<file, qsoArray>>
    BY DEF vars
  <2>1. bg \in {"top", "lock", "check", "waiting"}
    BY DEF LoopInv, ParkInv, Paused, Alive
  <2>2. CASE BgNext
    BY <2>1, <2>2 DEF BgNext, BgGoto, logVars, BgTop, BgLock, BgPark, BgPass,
       BgWake, BgReceive, BgDispatch, BgDiskLock, BgStore, BgStoreFails,
       BgAppend, BgUnlock, BgTxInfo
  <2>3. CASE Operator
    BY <2>3 DEF Operator, Start, StartEdit, StartDelete, StartRescore,
       StartLog, StartQuit, EditEnd
  <2>4. CASE MainStep
    BY <2>4 DEF MainStep, PauseSet, Resume, ReadInit, ReadLine, ReadEnd,
       ReadFails, Scroll, Store, StoreFails, AppendQso, DiskUnlock, Join
  <2>5. CASE MainLock
    BY <2>5 DEF MainLock, PauseLock, PauseReturn, ResumeLock, DiskLock
  <2> QED
    BY <2>2, <2>3, <2>4, <2>5 DEF Next
<1> QED
  BY LoopInductive, <1>1, PTL DEF Spec, FreezesQsos

\* The assertions on the flag hold even if pthread_cond_wait() returns without
\* a signal: they do not depend on the background thread at all.
THEOREM Assertions == SpuriousSpec => []AssertsHold
<1>1. Init => ThreadTypeOK /\ FlagInv
  BY LoopInitTypeOK, InitFlagInv DEF TypeOK
<1>2. ThreadTypeOK /\ FlagInv /\ [Next \/ SpuriousWakeup]_vars => (ThreadTypeOK /\ FlagInv)'
  BY NextThreadTypeOK, NextFlagInv
<1>3. ThreadTypeOK /\ FlagInv => AssertsHold
  BY DEF FlagInv, Paused, AssertsHold, ThreadTypeOK, PausingCommands
<1> QED
  BY <1>1, <1>2, <1>3, PTL DEF SpuriousSpec

-----------------------------------------------------------------------------
(* The radio.                                                              *)

\* What gettxinfo() has in its locals at each of its statements.
Locals ==
    /\ poller.pc = "execute" => poller.arg \in Requests
    /\ poller.pc = "follow" => poller.arg \in {"CW", "SSB"}
    /\ poller.pc \in {"remember", "changed", "switch"} => freq \in Freqs

\* The bits between two calls of gettxinfo(), and while it does not work on PTT.
Bits == {{"USE"}, {"USE", "ON"}, {"USE", "ACTIVE"}, {"USE", "ACTIVE", "OFF"},
         {"USE", "OFF"}}

\* The bits and the radio at every statement of gettxinfo(). OFF may come back
\* while gettxinfo() clears ACTIVE: when one message ends then.
PttInv ==
    /\ poller.pc = "on"       => rigptt = {"USE", "ON"} /\ rig.ptt
    /\ poller.pc = "keyed"    => rigptt = {"USE", "ON", "ACTIVE"} /\ rig.ptt
    /\ poller.pc = "released" => rigptt = {"USE", "ACTIVE", "OFF"} /\ ~rig.ptt
    /\ poller.pc = "silent"   => rigptt \in {{"USE", "ACTIVE"}, {"USE", "ACTIVE", "OFF"}} /\ ~rig.ptt
    /\ poller.pc \notin {"on", "keyed", "released", "silent"} =>
           rigptt \in Bits /\ (rig.ptt <=> "ACTIVE" \in rigptt)

IInv == RigTypeOK /\ Locals /\ PttInv

-----------------------------------------------------------------------------
(* Each action leaves alone what the others need.                          *)

\* What stays the same when neither PTT nor the background thread moves.
LEMMA PttUntouched ==
    ASSUME PttInv, UNCHANGED <<poller, rigptt>>, rig'.ptt = rig.ptt
    PROVE  PttInv'
BY DEF PttInv

\* The globals of the wrong type: none, at the start.
LEMMA InitIInv == RigInit => IInv
<1> SUFFICES ASSUME RigInit PROVE IInv
    OBVIOUS
<1> USE RigAssumption DEF RigInit
<1>1. RigTypeOK
  <2>1. outfreq \in Requests \cup {NoRequest}
      BY DEF Requests, ModeRequest, TrxModes, NoRequest
  <2>2. antenna \in [set : 0..NBands, next : 0..NBands]
      BY DEF OOB
  <2>3. poller \in [pc : Pcs, freq : Freqs \cup {NoFreq}, arg : Requests \cup {NoRequest, "CW", "SSB"}]
      BY DEF Pcs
  <2>4. setup \in Setup /\ freq \in Freqs \cup {NoFreq}
        /\ rigmode \in RigModes \cup {"none"} /\ operation \in {"idle", "mode", "band", "antenna"}
        /\ bandinx \in 0..NBands /\ oldbandinx \in 0..NBands + 1
      OBVIOUS
  <2>5. bandfrequency \in [0..NBands -> Freqs \cup {NoFreq}]
      OBVIOUS
  <2>6. rig \in [freq : Freqs, mode : RigModes, ptt : BOOLEAN]
      OBVIOUS
  <2>7. rigptt \subseteq {"USE", "ON", "ACTIVE", "OFF"} /\ vk \in {"idle", "playing"}
        /\ passes \in 0..2 /\ wishes \in Nat /\ fails \in Nat
      OBVIOUS
  <2> QED
      BY <2>1, <2>2, <2>3, <2>4, <2>5, <2>6, <2>7 DEF RigTypeOK
<1>2. Locals
    BY DEF Locals
<1>3. PttInv
    BY DEF PttInv, Bits
<1> QED
    BY <1>1, <1>2, <1>3 DEF IInv
-----------------------------------------------------------------------------
(* Steps.                                                                  *)

\* A request leaves a request or none.
LEMMA RequestType ==
    ASSUME NEW r \in Requests \cup {NoFreq}, Request(r)
    PROVE  outfreq' \in Requests \cup {NoRequest}
BY DEF Request

\* Every frequency has a band, out of band included.
LEMMA BandType == \A f \in Freqs : Band[f] \in 0..NBands
BY RigAssumption

\* The radio has a frequency and a mode after every request.
LEMMA TunedType ==
    ASSUME RigTypeOK, poller.arg \in Requests
    PROVE  Tuned(poller.arg) \in [freq : Freqs, mode : RigModes, ptt : BOOLEAN]
BY RigAssumption DEF RigTypeOK, Tuned, Requests, RigModes, SsbMode, DigiMode

\* The next statement of gettxinfo(), with the same locals.
LEMMA BgToType ==
    ASSUME RigTypeOK, NEW to \in Pcs, BgTo(to)
    PROVE  /\ poller' \in [pc : Pcs, freq : Freqs \cup {NoFreq}, arg : Requests \cup {NoRequest, "CW", "SSB"}]
           /\ poller'.pc = to /\ poller'.arg = poller.arg /\ poller'.freq = poller.freq
BY DEF RigTypeOK, BgTo

LEMMA SetupType == RigTypeOK => setup.modes \subseteq TrxModes
BY DEF RigTypeOK, Setup

\* Every step leaves values of the right kind in the globals, although a
\* request or a band is read long after it was chosen.
LEMMA TypeStep ==
    ASSUME RigTypeOK, Locals, RigNext
    PROVE  RigTypeOK'
<1> USE DEF RigTypeOK, Locals
<1>1. CASE PttOn
    BY <1>1, BgToType DEF PttOn, BgAt, Pcs
<1>2. CASE PttOff
  <2>1. rig' \in [freq : Freqs, mode : RigModes, ptt : BOOLEAN]
      BY <1>2 DEF PttOff
  <2>2. BgTo("released") \/ BgTo("take")
      BY <1>2 DEF PttOff
  <2> QED
      BY <1>2, <2>1, <2>2, BgToType DEF PttOff, Pcs
<1>3. CASE PttBits
    BY <1>3 DEF PttBits, BgAt, BgTo, Pcs
<1>4. CASE Take
    BY <1>4 DEF Take, BgAt, BgTo, Pcs
<1>5. CASE Execute
  <2>1. rig' \in [freq : Freqs, mode : RigModes, ptt : BOOLEAN]
      BY <1>5, TunedType DEF Execute, BgAt
  <2>2. rigmode' \in RigModes \cup {"none"}
      BY <1>5 DEF Execute, DigiMode, RigModes
  <2>3. poller' \in [pc : Pcs, freq : Freqs \cup {NoFreq}, arg : Requests \cup {NoRequest, "CW", "SSB"}]
      BY <1>5 DEF Execute, Pcs
  <2>4. passes' \in 0..2 /\ fails' \in Nat
      BY <1>5 DEF Execute, Pass, Fail
  <2> QED
      BY <1>5, <2>1, <2>2, <2>3, <2>4 DEF Execute
<1>6. CASE ReadFreq
  <2>1. poller' \in [pc : Pcs, freq : Freqs \cup {NoFreq}, arg : Requests \cup {NoRequest, "CW", "SSB"}]
      BY <1>6, ZenonT(30) DEF ReadFreq, Pcs
  <2>2. fails' \in Nat
      BY <1>6 DEF ReadFreq, Fail
  <2> QED
      BY <1>6, <2>1, <2>2 DEF ReadFreq
<1>7. CASE ReadMode
    BY <1>7 DEF ReadMode, BgAt, BgTo, Pcs, Fail
<1>8. CASE CompareMode
    BY <1>8, ZenonT(30) DEF CompareMode, BgAt, Pcs
<1>9. CASE FollowMode
    BY <1>9 DEF FollowMode, BgAt, Pcs, TrxModes
<1>10. CASE StoreFreq
    BY <1>10, BandType DEF StoreFreq, BgAt, BgTo, Pcs, Pass
<1>11. CASE RememberFreq
    BY <1>11, BandType DEF RememberFreq, BgAt, BgTo, Pcs, BandSeen
<1>12. CASE BandChange
  <2>1. Band[freq] \in 0..NBands /\ oldbandinx' \in 0..NBands + 1
    <3>1. Band[freq] \in 0..NBands /\ oldbandinx' \in 0..NBands
        BY <1>12, BandType DEF BandChange, BgAt, BandSeen
    <3> QED
        BY <3>1, RigAssumption
  <2>2. antenna' \in [set : 0..NBands, next : 0..NBands]
      BY <1>12, <2>1 DEF BandChange
  <2>3. (BgTo("switch") \/ BgTo("idle")) /\ passes' \in 0..2
      BY <1>12 DEF BandChange, Pass
  <2> QED
      BY <1>12, <2>1, <2>2, <2>3, BgToType DEF BandChange, Pcs
<1>13. CASE SwitchMode
    BY <1>13 DEF SwitchMode, BgAt, BgTo, Pass, Pcs, Fail, SwitchedMode, SsbMode, RigModes
<1>14. CASE SkipPoll
    BY <1>14 DEF SkipPoll, BgAt, BgTo, Pass, Pcs
<1>15. CASE RequestMode
    BY <1>15, RequestType DEF RequestMode, ModeRequest, TrxModes, Requests
<1>16. CASE RequestBand
    BY <1>16, RequestType, BandType DEF RequestBand, Outputs, Requests
<1>17. CASE SendBandswitch
    BY <1>17 DEF SendBandswitch
<1>18. CASE Qsy
    BY <1>18, RequestType, BandType DEF Qsy, Wish, Outputs, Requests
<1>19. CASE ChangeFreq
    BY <1>19, RequestType DEF ChangeFreq, Wish, Step, Requests
<1>20. CASE SetTrxmode
    BY <1>20, SetupType DEF SetTrxmode, Wish
<1>21. CASE NextBand
    BY <1>21, RigAssumption DEF NextBand, Wish, OOB
<1>22. CASE ClearRit
    BY <1>22, RequestType DEF ClearRit, Wish, Requests
<1>23. CASE TurnKnob
    BY <1>23 DEF TurnKnob, Wish
<1>24. CASE StartMessage
    BY <1>24 DEF StartMessage, Wish
<1>25. CASE AutoQsy
    BY <1>25, RequestType DEF AutoQsy, Wish, Step, Requests
<1>26. CASE EndMessage
    BY <1>26 DEF EndMessage
<1> QED
    BY <1>1, <1>2, <1>3, <1>4, <1>5, <1>6, <1>7, <1>8, <1>9, <1>10, <1>11, <1>12, <1>13, <1>14,
       <1>15, <1>16, <1>17, <1>18, <1>19, <1>20, <1>21, <1>22, <1>23, <1>24, <1>25, <1>26
       DEF RigNext, GetTxInfo, Main, RigUse

\* What gettxinfo() took with it stays good while the main thread goes on.
LEMMA LocalsStep ==
    ASSUME RigTypeOK, Locals, RigNext
    PROVE  Locals'
<1> USE DEF Locals
<1>1. CASE PttOn
    BY <1>1, RigTypeOK, BgToType DEF PttOn, BgAt, Pcs
<1>2. CASE PttOff
    BY <1>2, RigTypeOK, BgToType DEF PttOff, BgAt, Pcs
<1>3. CASE PttBits
    BY <1>3, RigTypeOK, BgToType DEF PttBits, BgAt, Pcs
<1>4. CASE Take
    BY <1>4 DEF Take, BgAt, RigTypeOK
<1>5. CASE Execute
    BY <1>5 DEF Execute, BgAt, BgTo
<1>6. CASE ReadFreq
    BY <1>6, ZenonT(30) DEF ReadFreq, BgAt, RigTypeOK
<1>7. CASE ReadMode
    BY <1>7 DEF ReadMode, BgAt, BgTo
<1>8. CASE CompareMode
    BY <1>8 DEF CompareMode, BgAt, RigTypeOK
<1>9. CASE FollowMode
    BY <1>9 DEF FollowMode, BgAt, BgTo
<1>10. CASE StoreFreq
    BY <1>10 DEF StoreFreq, BgAt, BgTo, RigTypeOK
<1>11. CASE RememberFreq
    BY <1>11 DEF RememberFreq, BgAt, BgTo
<1>12. CASE BandChange
    BY <1>12, RigTypeOK, BgToType DEF BandChange, BgAt, Pcs
<1>13. CASE SwitchMode
    BY <1>13 DEF SwitchMode, BgAt, BgTo
<1>14. CASE SkipPoll
    BY <1>14 DEF SkipPoll, BgAt, BgTo
<1>15. CASE RequestMode
    BY <1>15 DEF RequestMode
<1>16. CASE RequestBand
    BY <1>16 DEF RequestBand
<1>17. CASE SendBandswitch
    BY <1>17 DEF SendBandswitch
<1>18. CASE Qsy
    BY <1>18 DEF Qsy
<1>19. CASE ChangeFreq
    BY <1>19 DEF ChangeFreq
<1>20. CASE SetTrxmode
    BY <1>20 DEF SetTrxmode
<1>21. CASE NextBand
    BY <1>21 DEF NextBand
<1>22. CASE ClearRit
    BY <1>22 DEF ClearRit
<1>23. CASE TurnKnob
    BY <1>23 DEF TurnKnob
<1>24. CASE StartMessage
    BY <1>24 DEF StartMessage
<1>25. CASE AutoQsy
    BY <1>25 DEF AutoQsy
<1>26. CASE EndMessage
    BY <1>26 DEF EndMessage
<1> QED
    BY <1>1, <1>2, <1>3, <1>4, <1>5, <1>6, <1>7, <1>8, <1>9, <1>10, <1>11, <1>12, <1>13, <1>14,
       <1>15, <1>16, <1>17, <1>18, <1>19, <1>20, <1>21, <1>22, <1>23, <1>24, <1>25, <1>26
       DEF RigNext, GetTxInfo, Main, RigUse

\* The bits follow the radio through every statement of gettxinfo(), whenever
\* messages begin and end.
LEMMA PttStep ==
    ASSUME RigTypeOK, PttInv, RigNext
    PROVE  PttInv'
<1> USE DEF RigTypeOK
<1>1. CASE PttOn
    BY <1>1 DEF PttOn, BgAt, BgTo, PttInv, Bits
<1>2. CASE PttOff
    BY <1>2 DEF PttOff, BgAt, BgTo, PttInv, Bits
<1>3. CASE PttBits
    BY <1>3 DEF PttBits, BgAt, BgTo, PttInv, Bits
<1>4. CASE Take
    BY <1>4 DEF Take, BgAt, BgTo, PttInv
<1>5. CASE Execute
    BY <1>5 DEF Execute, BgAt, PttInv, Tuned
<1>6. CASE ReadFreq
    BY <1>6 DEF ReadFreq, BgAt, BgTo, PttInv
<1>7. CASE ReadMode
    BY <1>7 DEF ReadMode, BgAt, BgTo, PttInv
<1>8. CASE CompareMode
    BY <1>8 DEF CompareMode, BgAt, BgTo, PttInv
<1>9. CASE FollowMode
    BY <1>9 DEF FollowMode, BgAt, BgTo, PttInv
<1>10. CASE StoreFreq
    BY <1>10 DEF StoreFreq, BgAt, BgTo, PttInv
<1>11. CASE RememberFreq
    BY <1>11 DEF RememberFreq, BgAt, BgTo, PttInv
<1>12. CASE BandChange
    BY <1>12 DEF BandChange, BgAt, BgTo, PttInv
<1>13. CASE SwitchMode
    BY <1>13 DEF SwitchMode, BgAt, BgTo, PttInv
<1>14. CASE SkipPoll
    BY <1>14 DEF SkipPoll, BgAt, BgTo, PttInv
<1>15. CASE RequestMode
    BY <1>15, PttUntouched DEF RequestMode
<1>16. CASE RequestBand
    BY <1>16, PttUntouched DEF RequestBand
<1>17. CASE SendBandswitch
    BY <1>17, PttUntouched DEF SendBandswitch
<1>18. CASE Qsy
    BY <1>18, PttUntouched DEF Qsy
<1>19. CASE ChangeFreq
    BY <1>19, PttUntouched DEF ChangeFreq
<1>20. CASE SetTrxmode
    BY <1>20, PttUntouched DEF SetTrxmode
<1>21. CASE NextBand
    BY <1>21, PttUntouched DEF NextBand
<1>22. CASE ClearRit
    BY <1>22, PttUntouched DEF ClearRit
<1>23. CASE TurnKnob
    BY <1>23, PttUntouched DEF TurnKnob, RigTypeOK
<1>24. CASE StartMessage
  <2>1. CASE rigptt = {"USE"}
    <3>1. rigptt' = {"USE", "ON"} /\ UNCHANGED <<poller, rig>>
        BY <1>24, <2>1 DEF StartMessage
    <3>2. {"ON", "ACTIVE"} \cap rigptt = {} /\ "ACTIVE" \notin rigptt'
        BY <2>1, <3>1
    <3>3. poller.pc \notin {"on", "keyed", "released", "silent"}
      <4>1. {"ON", "ACTIVE"} \cap {"USE", "ON"} # {}
            /\ {"ON", "ACTIVE"} \cap {"USE", "ON", "ACTIVE"} # {}
            /\ {"ON", "ACTIVE"} \cap {"USE", "ACTIVE", "OFF"} # {}
            /\ {"ON", "ACTIVE"} \cap {"USE", "ACTIVE"} # {}
          OBVIOUS
      <4> QED
          BY <3>2, <4>1 DEF PttInv
    <3> QED
        BY <3>1, <3>2, <3>3 DEF PttInv, Bits
  <2>2. CASE rigptt # {"USE"}
      BY <1>24, <2>2, PttUntouched DEF StartMessage
  <2> QED
      BY <2>1, <2>2
<1>25. CASE AutoQsy
    BY <1>25, PttUntouched DEF AutoQsy
<1>26. CASE EndMessage
  <2>1. CASE rigptt = {"USE", "ACTIVE"}
    <3>1. rigptt' = {"USE", "ACTIVE", "OFF"} /\ UNCHANGED <<poller, rig>>
        BY <1>26, <2>1 DEF EndMessage
    <3>2. poller.pc \notin {"on", "keyed", "released"}
      <4>1. "ON" \notin rigptt /\ "OFF" \notin rigptt
          BY <2>1
      <4>2. "ON" \in {"USE", "ON"} /\ "ON" \in {"USE", "ON", "ACTIVE"}
            /\ "OFF" \in {"USE", "ACTIVE", "OFF"}
          OBVIOUS
      <4> QED
          BY <4>1, <4>2 DEF PttInv
    <3> QED
        BY <2>1, <3>1, <3>2 DEF PttInv, Bits
  <2>2. CASE rigptt # {"USE", "ACTIVE"}
      BY <1>26, <2>2, PttUntouched DEF EndMessage
  <2> QED
      BY <2>1, <2>2
<1> QED
    BY <1>1, <1>2, <1>3, <1>4, <1>5, <1>6, <1>7, <1>8, <1>9, <1>10, <1>11, <1>12, <1>13, <1>14,
       <1>15, <1>16, <1>17, <1>18, <1>19, <1>20, <1>21, <1>22, <1>23, <1>24, <1>25, <1>26
       DEF RigNext, GetTxInfo, Main, RigUse

\* The invariant holds in every state.
LEMMA Inductive == RigSpec => []IInv
<1>1. RigInit => IInv
    BY InitIInv
<1>2. ASSUME IInv, [RigNext]_rigVars PROVE IInv'
  <2>1. CASE RigNext
      BY <1>2, <2>1, TypeStep, LocalsStep, PttStep DEF IInv
  <2>2. CASE UNCHANGED rigVars
      BY <1>2, <2>2 DEF IInv, RigTypeOK, Locals, PttInv, rigVars
  <2> QED
      BY <1>2, <2>1, <2>2
<1> QED
    BY <1>1, <1>2, PTL DEF RigSpec

-----------------------------------------------------------------------------
(* Theorems.                                                               *)

\* The globals keep their types: bandinx indexes bandfrequency[], and what
\* waits in outfreq is a request execute_grabbed() knows.
THEOREM TypeCorrect == RigSpec => []RigTypeOK
BY Inductive, PTL DEF IInv

\* The bits of rigptt tell whether the radio transmits, outside the few
\* statements between the command and the bit, however short messages are.
THEOREM PttKnownAlways == RigSpec => []PttKnown
<1>1. IInv => PttKnown
    BY DEF IInv, PttInv, PttKnown, Bits
<1> QED
    BY <1>1, Inductive, PTL

-----------------------------------------------------------------------------
(* The cluster: what its proofs need about lists.                          *)

(* A set that has 0, and with each number the next one, has them all: the   *)
(* least number that it lacks would have a predecessor.                     *)
LEMMA SetInduction ==
    ASSUME NEW S, 0 \in S, \A n \in Nat : n \in S => n + 1 \in S
    PROVE  Nat \subseteq S
<1> DEFINE T == Nat \ S
           R == OpToRel(<, Nat)
<1> SUFFICES ASSUME T # {} PROVE FALSE
  OBVIOUS
<1>1. IsWellFoundedOn(R, Nat)
  BY NatLessThanWellFounded
<1>2. \A m, n \in Nat : m < n => <<m, n>> \in R
  BY DEF OpToRel
<1> HIDE DEF R
<1>3. PICK n \in T : \A m \in T : <<m, n>> \notin R
  BY <1>1, WFMin
<1>4. n # 0 /\ n \in Nat /\ n - 1 \in Nat /\ n - 1 < n
  BY <1>3
<1>5. <<n - 1, n>> \in R
  BY <1>2, <1>4
<1>6. n - 1 \in S /\ (n - 1) + 1 = n
  BY <1>3, <1>4, <1>5
<1> QED  BY <1>3, <1>4, <1>6

(* What % is, and what it is of the next number. *)
LEMMA RestIs ==
    ASSUME NEW d \in Nat \ {0}, NEW q \in Nat, NEW r \in 0 .. d - 1
    PROVE  (q * d + r) % d = r
<1>1. q * d + r \in Nat
  OBVIOUS
<1> DEFINE y == q * d + r
<1>2. y = q * d + r /\ y \in Nat
  BY <1>1
<1> HIDE DEF y
<1>3. y % d = r
  BY <1>2
<1> QED  BY <1>3 DEF y

(* The next number has the next rest, or none.                              *)
LEMMA RestStep ==
    ASSUME NEW d \in Nat \ {0}, NEW x \in Nat
    PROVE  /\ x % d \in 0 .. d - 1
           /\ (x + 1) % d = IF (x % d) + 1 = d THEN 0 ELSE (x % d) + 1
<1> DEFINE N == {y \in Nat : \E q \in Nat : \E r \in 0 .. d - 1 : y = q * d + r}
<1>1. 0 \in N
  <2>1. 0 \in 0 .. d - 1 /\ 0 = 0 * d + 0
    OBVIOUS
  <2> QED  BY <2>1
<1>2. ASSUME NEW y \in Nat, NEW q \in Nat, NEW r \in 0 .. d - 1, y = q * d + r
      PROVE  IF r + 1 = d THEN y + 1 = (q + 1) * d + 0 ELSE y + 1 = q * d + (r + 1)
  <2>1. q * d \in Nat /\ (q + 1) * d = q * d + d
    OBVIOUS
  <2> QED  BY <1>2, <2>1
<1>3. ASSUME NEW y \in Nat, y \in N
      PROVE  y + 1 \in N
  <2> SUFFICES \E q \in Nat : \E r \in 0 .. d - 1 : y + 1 = q * d + r
    OBVIOUS
  <2>1. PICK q \in Nat : \E r \in 0 .. d - 1 : y = q * d + r
    BY <1>3
  <2>2. PICK r \in 0 .. d - 1 : y = q * d + r
    BY <2>1
  <2>3. CASE r + 1 = d
    <3>1. y + 1 = (q + 1) * d + 0 /\ q + 1 \in Nat /\ 0 \in 0 .. d - 1
      BY <1>2, <2>2, <2>3
    <3> QED  BY <3>1, Zenon
  <2>4. CASE r + 1 # d
    <3>1. y + 1 = q * d + (r + 1) /\ r + 1 \in 0 .. d - 1
      BY <1>2, <2>2, <2>4
    <3> QED  BY <3>1, Zenon
  <2> QED  BY <2>3, <2>4
<1> HIDE DEF N
<1>4. Nat \subseteq N
  BY <1>1, <1>3, SetInduction
<1>5. PICK q \in Nat : \E r \in 0 .. d - 1 : x = q * d + r
  BY <1>4 DEF N
<1>6. PICK r \in 0 .. d - 1 : x = q * d + r
  BY <1>5
<1>7. x % d = r
  BY <1>6, RestIs
<1>8. IF r + 1 = d THEN x + 1 = (q + 1) * d + 0 ELSE x + 1 = q * d + (r + 1)
  BY <1>2, <1>6
<1>9. CASE r + 1 = d
  <2>1. q + 1 \in Nat /\ 0 \in 0 .. d - 1
    OBVIOUS
  <2>2. ((q + 1) * d + 0) % d = 0
    BY <2>1, RestIs
  <2> QED  BY <1>7, <1>8, <1>9, <2>2
<1>10. CASE r + 1 # d
  <2>1. r + 1 \in 0 .. d - 1
    BY <1>10
  <2>2. (q * d + (r + 1)) % d = r + 1
    BY <2>1, RestIs
  <2> QED  BY <1>7, <1>8, <1>10, <2>2
<1> QED  BY <1>9, <1>10

(* Characters of a line are neither a newline nor a return.                 *)
LEMMA CharsDiffer ==
    /\ \A c \in ClusterLine \X Nat : c # NL /\ c # CR /\ Len(c) = 2 /\ c[1] \in ClusterLine
    /\ NL # CR /\ Len(NL) = 0 /\ Len(CR) = 1
  BY DEF NL, CR

(* The same up to a bound. *)
LEMMA UpTo ==
    ASSUME NEW n \in Nat, NEW S, 0 \in S, \A i \in 0 .. n - 1 : i \in S => i + 1 \in S
    PROVE  \A i \in 0 .. n : i \in S
<1> DEFINE N == {i \in Nat : i <= n => i \in S}
<1>1. 0 \in N /\ \A i \in Nat : i \in N => i + 1 \in N
  OBVIOUS
<1> HIDE DEF N
<1>2. Nat \subseteq N
  BY <1>1, SetInduction
<1> QED  BY <1>2 DEF N

-----------------------------------------------------------------------------
(* What is made of the elements of a list one after the other.             *)

\* f[i] is the value after the first i, in X, from a on by G.
Course(f, a, G, X, n) ==
    f \in [0 .. n -> X] /\ f[0] = a /\ \A i \in 1 .. n : f[i] = G[i][f[i - 1]]

(* There is such a course for any functions.                                *)
LEMMA CourseExists ==
    ASSUME NEW X, NEW a \in X, NEW n \in Nat, NEW G \in [1 .. n -> [X -> X]]
    PROVE  \E f : Course(f, a, G, X, n)
<1> DEFINE N == {k \in 0 .. n : \E f : Course(f, a, G, X, k)}
<1>1. 0 \in N
  <2> DEFINE f == [i \in 0 .. 0 |-> a]
  <2>1. f \in [0 .. 0 -> X] /\ f[0] = a /\ \A i \in 1 .. 0 : FALSE
    OBVIOUS
  <2> HIDE DEF f
  <2>2. Course(f, a, G, X, 0)
    BY <2>1 DEF Course
  <2> QED  BY <2>2
<1>2. ASSUME NEW k \in 0 .. n - 1, k \in N
      PROVE  k + 1 \in N
  <2>1. PICK f : Course(f, a, G, X, k)
    BY <1>2
  <2>2. f \in [0 .. k -> X] /\ f[0] = a /\ \A i \in 1 .. k : f[i] = G[i][f[i - 1]]
    BY <2>1 DEF Course
  <2>3. f[k] \in X /\ G[k + 1][f[k]] \in X
    <3>1. f[k] \in X /\ k + 1 \in 1 .. n
      BY <2>2
    <3>2. G[k + 1] \in [X -> X]
      BY <3>1
    <3> QED  BY <3>1, <3>2
  <2> DEFINE g == [i \in 0 .. k + 1 |-> IF i = k + 1 THEN G[k + 1][f[k]] ELSE f[i]]
  <2>4. \A i \in 0 .. k : g[i] = f[i] /\ f[i] \in X
    BY <2>2
  <2>5. g[k + 1] = G[k + 1][f[k]]
    OBVIOUS
  <2>6. g \in [0 .. k + 1 -> X]
    <3>1. \A i \in 0 .. k + 1 : (IF i = k + 1 THEN G[k + 1][f[k]] ELSE f[i]) \in X
      <4> TAKE i \in 0 .. k + 1
      <4>1. CASE i = k + 1
        BY <2>3, <4>1
      <4>2. CASE i \in 0 .. k
        <5>1. i # k + 1
          BY <4>2
        <5> QED  BY <2>4, <4>2, <5>1
      <4> QED  BY <4>1, <4>2
    <3> QED  BY <3>1
  <2> HIDE DEF g
  <2>7. \A i \in 1 .. k + 1 : g[i] = G[i][g[i - 1]]
    <3> TAKE i \in 1 .. k + 1
    <3>1. CASE i = k + 1
      BY <2>4, <2>5, <3>1
    <3>2. CASE i \in 1 .. k
      BY <2>2, <2>4, <3>2
    <3> QED  BY <3>1, <3>2
  <2>8. g[0] = a
    BY <2>2, <2>4
  <2>9. Course(g, a, G, X, k + 1)
    BY <2>6, <2>7, <2>8 DEF Course
  <2> QED  BY <2>9
<1> HIDE DEF N
<1>3. \A i \in 0 .. n - 1 : i \in N => i + 1 \in N
  BY <1>2
<1>4. \A i \in 0 .. n : i \in N
  BY <1>1, <1>3, UpTo
<1>5. n \in N
  BY <1>4
<1> QED  BY <1>5 DEF N

(* Two courses of the same functions are the same, as far as both go.       *)
LEMMA CoursesAgree ==
    ASSUME NEW n \in Nat, NEW f, NEW g, f[0] = g[0],
           \A i \in 0 .. n - 1 : f[i] = g[i] => f[i + 1] = g[i + 1]
    PROVE  \A i \in 0 .. n : f[i] = g[i]
<1> DEFINE N == {i \in 0 .. n : f[i] = g[i]}
<1>1. 0 \in N /\ \A i \in 0 .. n - 1 : i \in N => i + 1 \in N
  OBVIOUS
<1> HIDE DEF N
<1>2. \A i \in 0 .. n : i \in N
  BY <1>1, UpTo
<1> QED  BY <1>2 DEF N

-----------------------------------------------------------------------------
(* Lists and their beginnings.                                             *)

(* A list with an element more.                                             *)
LEMMA AppendGives ==
    ASSUME NEW S, NEW s \in Seq(S), NEW e \in S
    PROVE  /\ Append(s, e) \in Seq(S) /\ Len(s) \in Nat /\ Len(Append(s, e)) = Len(s) + 1
           /\ DOMAIN s = 1 .. Len(s) /\ DOMAIN Append(s, e) = 1 .. Len(s) + 1
           /\ Append(s, e)[Len(s) + 1] = e /\ \A k \in 1 .. Len(s) : Append(s, e)[k] = s[k]
           /\ Append(s, e) # <<>>
  OBVIOUS

(* The elements of a list.                                                  *)
LEMMA ElementsOf ==
    ASSUME NEW S, NEW s \in Seq(S)
    PROVE  Len(s) \in Nat /\ DOMAIN s = 1 .. Len(s) /\ \A i \in 1 .. Len(s) : s[i] \in S
  OBVIOUS

(* The empty list is one of anything.                                       *)
LEMMA NothingIn ==
    ASSUME NEW S
    PROVE  <<>> \in Seq(S) /\ Len(<<>>) = 0 /\ \A s \in Seq(S) : Len(s) = 0 <=> s = <<>>
  OBVIOUS

(* The beginnings of a list, each with an element more than the one before. *)
LEMMA Beginnings ==
    ASSUME NEW S, NEW s \in Seq(S)
    PROVE  /\ SubSeq(s, 1, 0) = <<>> /\ SubSeq(s, 1, Len(s)) = s
           /\ \A n \in 0 .. Len(s) : /\ SubSeq(s, 1, n) \in Seq(S) /\ Len(SubSeq(s, 1, n)) = n
                                     /\ \A i \in 1 .. n : SubSeq(s, 1, n)[i] = s[i]
           /\ \A n \in 0 .. Len(s) - 1 :
                 s[n + 1] \in S /\ SubSeq(s, 1, n + 1) = Append(SubSeq(s, 1, n), s[n + 1])
<1>1. SubSeq(s, 1, 0) = <<>>
  OBVIOUS
<1>2. SubSeq(s, 1, Len(s)) = s
  OBVIOUS
<1>3. \A n \in 0 .. Len(s) : /\ SubSeq(s, 1, n) \in Seq(S) /\ Len(SubSeq(s, 1, n)) = n
                             /\ \A i \in 1 .. n : SubSeq(s, 1, n)[i] = s[i]
  OBVIOUS
<1>4. ASSUME NEW n \in 0 .. Len(s) - 1
      PROVE  s[n + 1] \in S /\ SubSeq(s, 1, n + 1) = Append(SubSeq(s, 1, n), s[n + 1])
  OBVIOUS
<1> QED  BY <1>1, <1>2, <1>3, <1>4

(* Two lists one after the other.                                           *)
LEMMA JoinedLists ==
    ASSUME NEW S, NEW s \in Seq(S), NEW t \in Seq(S)
    PROVE  /\ s \o t \in Seq(S) /\ Len(s \o t) = Len(s) + Len(t)
           /\ \A i \in 1 .. Len(s) : (s \o t)[i] = s[i]
           /\ \A i \in 1 .. Len(t) : (s \o t)[Len(s) + i] = t[i]
           /\ s \o <<>> = s
           /\ \A e \in S : s \o Append(t, e) = Append(s \o t, e)
  OBVIOUS

(* A part of a list.                                                        *)
LEMMA SubSeqGives ==
    ASSUME NEW S, NEW s \in Seq(S), NEW m \in 1 .. Len(s) + 1, NEW n \in m - 1 .. Len(s)
    PROVE  /\ SubSeq(s, m, n) \in Seq(S) /\ Len(SubSeq(s, m, n)) = n - m + 1
           /\ \A i \in 1 .. n - m + 1 : SubSeq(s, m, n)[i] = s[m + i - 1]
  OBVIOUS

-----------------------------------------------------------------------------
(* Elements of a list at some places.                                      *)

\* f[i] has those among the first i.
PickedBy(f, list, places, S) ==
    /\ f \in [0 .. Len(list) -> Seq(S)] /\ f[0] = <<>> /\ f[Len(list)] = Picked(list, places)
    /\ \A i \in 1 .. Len(list) : f[i] = IF i \in places THEN Append(f[i - 1], list[i]) ELSE f[i - 1]

(* Picked() goes through the list. *)
LEMMA PickedIs ==
    ASSUME NEW S, NEW list \in Seq(S), NEW places
    PROVE  \E f : PickedBy(f, list, places, S)
<1> DEFINE l == Len(list)
           G == [i \in 1 .. l |-> [x \in Seq(S) |->
                   IF i \in places THEN Append(x, list[i]) ELSE x]]
           Fits(f) == f = [i \in 0 .. l |->
                           IF i = 0 THEN <<>>
                           ELSE IF i \in places THEN Append(f[i - 1], list[i]) ELSE f[i - 1]]
<1>1. l \in Nat /\ \A i \in 1 .. l : list[i] \in S
  BY ElementsOf
<1>2. Picked(list, places) = (CHOOSE f : Fits(f))[l]
  BY DEF Picked
<1> HIDE DEF l
<1>3. G \in [1 .. l -> [Seq(S) -> Seq(S)]]
  <2>1. ASSUME NEW i \in 1 .. l, NEW x \in Seq(S)
        PROVE  (IF i \in places THEN Append(x, list[i]) ELSE x) \in Seq(S)
    <3>1. list[i] \in S
      BY <1>1
    <3> QED  BY <3>1, AppendGives
  <2>2. ASSUME NEW i \in 1 .. l
        PROVE  [x \in Seq(S) |-> IF i \in places THEN Append(x, list[i]) ELSE x] \in [Seq(S) -> Seq(S)]
    BY <2>1
  <2> QED  BY <2>2
<1>4. \A s \in Seq(S), i \in 1 .. l : G[i][s] = IF i \in places THEN Append(s, list[i]) ELSE s
  OBVIOUS
<1> HIDE DEF G
<1>14a. <<>> \in Seq(S)
  OBVIOUS
<1>5. PICK f : Course(f, <<>>, G, Seq(S), l)
  BY <1>1, <1>3, <1>14a, CourseExists
<1>6. ASSUME NEW i \in 0 .. l, i # 0
      PROVE  f[i] = IF i \in places THEN Append(f[i - 1], list[i]) ELSE f[i - 1]
  <2>1. i \in 1 .. l /\ f[i - 1] \in Seq(S) /\ f[i] = G[i][f[i - 1]]
    BY <1>1, <1>5, <1>6 DEF Course
  <2> QED  BY <1>4, <2>1
<1>7. f \in [0 .. l -> Seq(S)] /\ f[0] = <<>>
  BY <1>5 DEF Course
<1>8. Fits(f)
  <2>1. \A i \in 0 .. l : f[i] = IF i = 0 THEN <<>>
                                 ELSE IF i \in places THEN Append(f[i - 1], list[i]) ELSE f[i - 1]
    BY <1>6, <1>7
  <2> QED  BY <1>7, <2>1
<1> DEFINE g == CHOOSE h : Fits(h)
<1>9. Fits(g)
  BY <1>8, Zenon
<1>10. Picked(list, places) = g[l]
  BY <1>2
<1> HIDE DEF g
<1>11. \A i \in 0 .. l : g[i] = IF i = 0 THEN <<>>
                         ELSE IF i \in places THEN Append(g[i - 1], list[i]) ELSE g[i - 1]
  BY <1>9
<1> HIDE DEF Fits
<1>12. \A i \in 0 .. l - 1 : f[i] = g[i] => f[i + 1] = g[i + 1]
  <2> TAKE i \in 0 .. l - 1
  <2> SUFFICES ASSUME f[i] = g[i] PROVE f[i + 1] = g[i + 1]
    OBVIOUS
  <2>1. i + 1 \in 0 .. l /\ i + 1 # 0 /\ (i + 1) - 1 = i
    BY <1>1
  <2>2. f[i + 1] = IF i + 1 \in places THEN Append(f[i], list[i + 1]) ELSE f[i]
    BY <1>6, <2>1
  <2>3. g[i + 1] = IF i + 1 \in places THEN Append(g[i], list[i + 1]) ELSE g[i]
    BY <1>11, <2>1
  <2> QED  BY <2>2, <2>3
<1>13. f[0] = g[0]
  BY <1>1, <1>7, <1>11
<1>14b. \A i \in 0 .. l : f[i] = g[i]
  BY <1>1, <1>12, <1>13, CoursesAgree
<1>14. f[l] = g[l]
  BY <1>1, <1>14b
<1>15. \A i \in 1 .. l : f[i] = IF i \in places THEN Append(f[i - 1], list[i]) ELSE f[i - 1]
  BY <1>6
<1>16. PickedBy(f, list, places, S)
  BY <1>7, <1>10, <1>14, <1>15 DEF l, PickedBy
<1> QED  BY <1>16

(* Another element, and only the places in the list count. *)
LEMMA PickedMore ==
    ASSUME NEW S, NEW list \in Seq(S), NEW places, NEW places2, NEW e \in S,
           \A i \in 1 .. Len(list) : i \in places <=> i \in places2
    PROVE  /\ Picked(list, places) \in Seq(S)
           /\ Picked(Append(list, e), places2) = IF Len(list) + 1 \in places2
                                                 THEN Append(Picked(list, places), e)
                                                 ELSE Picked(list, places)
<1> DEFINE l == Len(list)
           more == Append(list, e)
<1>1. /\ more \in Seq(S) /\ l \in Nat /\ Len(more) = l + 1 /\ more[l + 1] = e
      /\ \A i \in 1 .. l : more[i] = list[i]
  BY AppendGives
<1>0. PICK f : PickedBy(f, list, places, S)
  BY PickedIs
<1>2. /\ f \in [0 .. l -> Seq(S)] /\ Picked(list, places) = f[l] /\ f[0] = <<>>
      /\ \A i \in 1 .. l : f[i] = IF i \in places THEN Append(f[i - 1], list[i]) ELSE f[i - 1]
  BY <1>0 DEF PickedBy
<1> HIDE DEF l, more
<1>11. PICK g : PickedBy(g, more, places2, S)
  BY <1>1, PickedIs
<1>3. /\ g \in [0 .. l + 1 -> Seq(S)] /\ Picked(more, places2) = g[l + 1] /\ g[0] = <<>>
      /\ \A i \in 1 .. l + 1 :
            g[i] = IF i \in places2 THEN Append(g[i - 1], more[i]) ELSE g[i - 1]
  BY <1>1, <1>11 DEF PickedBy
<1>4. \A i \in 0 .. l - 1 : f[i] = g[i] => f[i + 1] = g[i + 1]
  <2> TAKE i \in 0 .. l - 1
  <2> SUFFICES ASSUME f[i] = g[i] PROVE f[i + 1] = g[i + 1]
    OBVIOUS
  <2>1. i + 1 \in 1 .. l /\ i + 1 \in 1 .. l + 1 /\ (i + 1) - 1 = i
    BY <1>1
  <2>2. i + 1 \in places <=> i + 1 \in places2
    BY <2>1 DEF l
  <2>3. f[i + 1] = IF i + 1 \in places THEN Append(f[i], list[i + 1]) ELSE f[i]
    BY <1>2, <2>1
  <2>4. g[i + 1] = IF i + 1 \in places2 THEN Append(g[i], more[i + 1]) ELSE g[i]
    BY <1>3, <2>1
  <2>5. more[i + 1] = list[i + 1]
    BY <1>1, <2>1
  <2> QED  BY <2>2, <2>3, <2>4, <2>5
<1>5. \A i \in 0 .. l : f[i] = g[i]
  <2>1. l \in Nat /\ f[0] = g[0]
    BY <1>1, <1>2, <1>3
  <2> QED  BY <2>1, <1>4, CoursesAgree
<1>7. l \in 0 .. l /\ l + 1 \in 1 .. l + 1 /\ (l + 1) - 1 = l
  BY <1>1
<1>8. f[l] = g[l]
  BY <1>5, <1>7
<1>6. g[l + 1] = IF l + 1 \in places2 THEN Append(g[l], more[l + 1]) ELSE g[l]
  BY <1>3, <1>7
<1>9. Picked(list, places) = f[l] /\ Picked(more, places2) = g[l + 1] /\ f[l] \in Seq(S)
  BY <1>2, <1>3, <1>7
<1>10. Picked(more, places2) = IF l + 1 \in places2 THEN Append(Picked(list, places), e)
                               ELSE Picked(list, places)
  BY <1>1, <1>6, <1>8, <1>9
<1> QED  BY <1>9, <1>10 DEF l, more

(* Nothing is picked from nothing.                                          *)
LEMMA PickedNone ==
    ASSUME NEW places
    PROVE  Picked(<<>>, places) = <<>>
<1>1. <<>> \in Seq({}) /\ Len(<<>>) = 0
  OBVIOUS
<1> DEFINE none == <<>>
<1>3. none \in Seq({}) /\ Len(none) = 0
  BY <1>1
<1> HIDE DEF none
<1>4. PICK f : PickedBy(f, none, places, {})
  BY <1>3, PickedIs
<1>2. Picked(none, places) = <<>>
  BY <1>3, <1>4 DEF PickedBy
<1> QED  BY <1>2 DEF none

(* A course goes on when a function is added at the end.                    *)
LEMMA CourseMore ==
    ASSUME NEW n \in Nat, NEW X, NEW a, NEW f, NEW g, NEW G, NEW H,
           Course(f, a, G, X, n), Course(g, a, H, X, n + 1), \A i \in 1 .. n : G[i] = H[i]
    PROVE  f[n] \in X /\ g[n + 1] = H[n + 1][f[n]]
<1>1. f \in [0 .. n -> X] /\ f[0] = a /\ \A i \in 1 .. n : f[i] = G[i][f[i - 1]]
  BY DEF Course
<1>2. g[0] = a /\ \A i \in 1 .. n + 1 : g[i] = H[i][g[i - 1]]
  BY DEF Course
<1>3. \A i \in 0 .. n - 1 : f[i] = g[i] => f[i + 1] = g[i + 1]
  <2> TAKE i \in 0 .. n - 1
  <2>1. i + 1 \in 1 .. n /\ i + 1 \in 1 .. n + 1 /\ (i + 1) - 1 = i
    OBVIOUS
  <2>2. f[i + 1] = G[i + 1][f[i]] /\ g[i + 1] = H[i + 1][g[i]] /\ G[i + 1] = H[i + 1]
    BY <1>1, <1>2, <2>1
  <2> QED  BY <2>2
<1>4. \A i \in 0 .. n : f[i] = g[i]
  <2>1. f[0] = g[0]
    BY <1>1, <1>2
  <2> QED  BY <2>1, <1>3, CoursesAgree
<1>5. n \in 0 .. n /\ n + 1 \in 1 .. n + 1 /\ (n + 1) - 1 = n
  OBVIOUS
<1>6. f[n] = g[n] /\ f[n] \in X
  BY <1>1, <1>4, <1>5
<1>7. g[n + 1] = H[n + 1][g[n]]
  BY <1>2, <1>5
<1> QED  BY <1>6, <1>7

-----------------------------------------------------------------------------
(* Fragments and the lines made of them.                                   *)

Char == (ClusterLine \X Nat) \cup {NL, CR}
Assembled == [buffer : Seq(Char), end : Nat, lines : Seq(Seq(Char))]

\* One character more.
Placed(r, c) ==
    IF c = NL \/ r.end + 1 >= Columns
    THEN [buffer |-> <<>>, end |-> 0, lines |-> Append(r.lines, r.buffer)]
    ELSE [buffer |-> IF r.end > Len(r.buffer) THEN r.buffer ELSE Append(SubSeq(r.buffer, 1, r.end), c),
          end |-> r.end + 1, lines |-> r.lines]

Joining(s) == [i \in 1 .. Len(s) |-> [r \in Assembled |-> Placed(r, s[i])]]
Beginning(b, e) == [buffer |-> b, end |-> e, lines |-> <<>>]

(* A character more is assembled.                                           *)
LEMMA PlacedIs ==
    ASSUME NEW r \in Assembled, NEW c \in Char
    PROVE  Placed(r, c) \in Assembled
<1>1. r.buffer \in Seq(Char) /\ r.end \in Nat /\ r.lines \in Seq(Seq(Char)) /\ <<>> \in Seq(Char)
  BY DEF Assembled
<1>2. Append(r.lines, r.buffer) \in Seq(Seq(Char))
  BY <1>1, AppendGives
<1>3. r.end <= Len(r.buffer) => Append(SubSeq(r.buffer, 1, r.end), c) \in Seq(Char)
  <2> DEFINE b == r.buffer
             e == r.end
  <2>1. b \in Seq(Char) /\ e \in Nat /\ Len(b) \in Nat
    BY <1>1
  <2> HIDE DEF b, e
  <2>2. e <= Len(b) => SubSeq(b, 1, e) \in Seq(Char)
    BY <2>1, Beginnings
  <2>3. e <= Len(b) => Append(SubSeq(b, 1, e), c) \in Seq(Char)
    BY <2>2, AppendGives
  <2> QED  BY <2>3 DEF b, e
<1>4. 0 \in Nat /\ r.end + 1 \in Nat /\ Len(r.buffer) \in Nat
  BY <1>1
<1> QED  BY <1>1, <1>2, <1>3, <1>4 DEF Placed, Assembled

(* Split() is a course over the characters.                                 *)
LEMMA SplitCourse ==
    ASSUME NEW b \in Seq(Char), NEW e \in Nat, NEW s \in Seq(Char)
    PROVE  \E f : Course(f, Beginning(b, e), Joining(s), Assembled, Len(s)) /\ f[Len(s)] = Split(b, e, s)
<1> DEFINE l == Len(s)
           Following(r, i) ==
               IF s[i] = NL \/ r.end + 1 >= Columns
               THEN [buffer |-> <<>>, end |-> 0, lines |-> Append(r.lines, r.buffer)]
               ELSE [buffer |-> IF r.end > Len(r.buffer) THEN r.buffer
                                ELSE Append(SubSeq(r.buffer, 1, r.end), s[i]),
                     end |-> r.end + 1, lines |-> r.lines]
           Fits(f) == f = [i \in 0 .. l |->
                           IF i = 0 THEN [buffer |-> b, end |-> e, lines |-> <<>>]
                           ELSE Following(f[i - 1], i)]
<1>1. l \in Nat /\ \A i \in 1 .. l : s[i] \in Char
  BY ElementsOf
<1>2. Split(b, e, s) = (CHOOSE f : Fits(f))[l]
  BY DEF Split
<1>3. \A r, i : Following(r, i) = Placed(r, s[i])
  BY DEF Placed
<1> HIDE DEF l, Following
<1>4. Beginning(b, e) \in Assembled
  <2>1. <<>> \in Seq(Seq(Char))
    OBVIOUS
  <2> QED  BY <2>1 DEF Beginning, Assembled
<1>5. Joining(s) \in [1 .. l -> [Assembled -> Assembled]]
  <2>1. ASSUME NEW i \in 1 .. l, NEW r \in Assembled
        PROVE  Placed(r, s[i]) \in Assembled
    BY <1>1, PlacedIs
  <2>2. ASSUME NEW i \in 1 .. l
        PROVE  [r \in Assembled |-> Placed(r, s[i])] \in [Assembled -> Assembled]
    BY <2>1
  <2> QED  BY <2>2 DEF Joining, l
<1>6. \A i \in 1 .. l, r \in Assembled : Joining(s)[i][r] = Placed(r, s[i])
  BY DEF Joining, l
<1>7. PICK f : Course(f, Beginning(b, e), Joining(s), Assembled, l)
  BY <1>1, <1>4, <1>5, CourseExists
<1>8. f \in [0 .. l -> Assembled] /\ f[0] = Beginning(b, e)
  BY <1>7 DEF Course
<1>9. ASSUME NEW i \in 0 .. l, i # 0
      PROVE  f[i] = Following(f[i - 1], i)
  <2>1. i \in 1 .. l /\ f[i - 1] \in Assembled /\ f[i] = Joining(s)[i][f[i - 1]]
    BY <1>1, <1>7, <1>9 DEF Course
  <2> QED  BY <1>3, <1>6, <2>1
<1>10. Fits(f)
  <2>1. \A i \in 0 .. l : f[i] = IF i = 0 THEN Beginning(b, e) ELSE Following(f[i - 1], i)
    BY <1>8, <1>9
  <2> QED  BY <1>8, <2>1 DEF Beginning
<1> DEFINE g == CHOOSE h : Fits(h)
<1>11. Fits(g)
  BY <1>10, Zenon
<1>12. Split(b, e, s) = g[l]
  BY <1>2
<1> HIDE DEF g
<1>13. \A i \in 0 .. l : g[i] = IF i = 0 THEN Beginning(b, e) ELSE Following(g[i - 1], i)
  BY <1>11 DEF Beginning
<1> HIDE DEF Fits
<1>14. \A i \in 0 .. l - 1 : f[i] = g[i] => f[i + 1] = g[i + 1]
  <2> TAKE i \in 0 .. l - 1
  <2> SUFFICES ASSUME f[i] = g[i] PROVE f[i + 1] = g[i + 1]
    OBVIOUS
  <2>1. i + 1 \in 0 .. l /\ i + 1 # 0 /\ (i + 1) - 1 = i
    BY <1>1
  <2>2. f[i + 1] = Following(f[i], i + 1)
    BY <1>9, <2>1
  <2>3. g[i + 1] = Following(g[i], i + 1)
    BY <1>13, <2>1
  <2> QED  BY <2>2, <2>3
<1>15. f[0] = g[0]
  <2>1. 0 \in 0 .. l
    BY <1>1
  <2>2. g[0] = Beginning(b, e)
    BY <1>13, <2>1
  <2> QED  BY <1>8, <2>2
<1>16. \A i \in 0 .. l : f[i] = g[i]
  BY <1>1, <1>14, <1>15, CoursesAgree
<1>17. f[l] = Split(b, e, s)
  BY <1>1, <1>12, <1>16
<1> QED  BY <1>7, <1>17 DEF l

(* Split() takes the text character by character.                           *)
LEMMA SplitMore ==
    ASSUME NEW b \in Seq(Char), NEW e \in Nat, NEW s \in Seq(Char), NEW c \in Char
    PROVE  Split(b, e, s) \in Assembled /\ Split(b, e, Append(s, c)) = Placed(Split(b, e, s), c)
<1> DEFINE l == Len(s)
           more == Append(s, c)
<1>1. /\ more \in Seq(Char) /\ l \in Nat /\ Len(more) = l + 1 /\ more[l + 1] = c
      /\ \A i \in 1 .. l : more[i] = s[i]
  BY AppendGives
<1>2. PICK f : Course(f, Beginning(b, e), Joining(s), Assembled, l) /\ f[l] = Split(b, e, s)
  BY SplitCourse
<1> HIDE DEF more
<1>3. PICK g : Course(g, Beginning(b, e), Joining(more), Assembled, Len(more)) /\ g[Len(more)] = Split(b, e, more)
  BY <1>1, SplitCourse
<1>4. \A i \in 1 .. l : Joining(s)[i] = Joining(more)[i]
  BY <1>1 DEF Joining
<1>5. Joining(more)[l + 1] = [r \in Assembled |-> Placed(r, c)]
  BY <1>1 DEF Joining
<1> HIDE DEF l
<1>6. f[l] \in Assembled /\ g[l + 1] = Joining(more)[l + 1][f[l]]
  <2>1. Course(g, Beginning(b, e), Joining(more), Assembled, l + 1)
    BY <1>1, <1>3
  <2> QED  BY <1>1, <1>2, <2>1, <1>4, CourseMore
<1>7. Joining(more)[l + 1][f[l]] = Placed(f[l], c)
  BY <1>5, <1>6
<1> QED  BY <1>1, <1>2, <1>3, <1>6, <1>7 DEF more

(* No text splits into nothing.                                             *)
LEMMA SplitNone ==
    ASSUME NEW b \in Seq(Char), NEW e \in Nat
    PROVE  Split(b, e, <<>>) = Beginning(b, e)
<1> DEFINE none == <<>>
<1>1. none \in Seq(Char) /\ Len(none) = 0
  OBVIOUS
<1> HIDE DEF none
<1>2. PICK f : Course(f, Beginning(b, e), Joining(none), Assembled, Len(none)) /\ f[Len(none)] = Split(b, e, none)
  BY <1>1, SplitCourse
<1>3. f[0] = Beginning(b, e)
  BY <1>2 DEF Course
<1> QED  BY <1>1, <1>2, <1>3 DEF none

\* The text is put at the end: nobody else was in addtext().
Put(b, s) == Split(b, Len(b), s)
At(b) == Beginning(b, Len(b))
Joined(r, c) ==
    IF c = NL \/ Len(r.buffer) + 1 >= Columns
    THEN [buffer |-> <<>>, end |-> 0, lines |-> Append(r.lines, r.buffer)]
    ELSE [buffer |-> Append(r.buffer, c), end |-> r.end + 1, lines |-> r.lines]

(* It stays there. *)
LEMMA AtTheEnd ==
    ASSUME NEW r \in Assembled, r.end = Len(r.buffer), NEW c \in Char
    PROVE  /\ Placed(r, c) = Joined(r, c)
           /\ Joined(r, c).end = Len(Joined(r, c).buffer)
<1> DEFINE b == r.buffer
<1>1. b \in Seq(Char) /\ Len(b) \in Nat /\ SubSeq(b, 1, Len(b)) = b /\ Len(Append(b, c)) = Len(b) + 1
  <2>1. b \in Seq(Char)
    BY DEF Assembled
  <2> HIDE DEF b
  <2> QED  BY <2>1, Beginnings, AppendGives
<1>2. r.end = Len(b) /\ ~(Len(b) > Len(b)) /\ Len(<<>>) = 0
  BY <1>1
<1>3. Placed(r, c) = Joined(r, c)
  BY <1>1, <1>2 DEF Placed, Joined
<1>4. CASE c = NL \/ Len(b) + 1 >= Columns
  <2>1. Joined(r, c).end = 0 /\ Joined(r, c).buffer = <<>>
    BY <1>4 DEF Joined
  <2> QED  BY <1>2, <1>3, <2>1
<1>5. CASE ~(c = NL \/ Len(b) + 1 >= Columns)
  <2>1. Joined(r, c).end = r.end + 1 /\ Joined(r, c).buffer = Append(b, c)
    BY <1>5 DEF Joined
  <2> QED  BY <1>1, <1>2, <1>3, <2>1
<1> QED  BY <1>4, <1>5

LEMMA PutTight ==
    ASSUME NEW b \in Seq(Char), NEW s \in Seq(Char)
    PROVE  Put(b, s) \in Assembled /\ Put(b, s).end = Len(Put(b, s).buffer)
<1> DEFINE R(n) == Put(b, SubSeq(s, 1, n))
           N == {n \in 0 .. Len(s) : R(n) \in Assembled /\ R(n).end = Len(R(n).buffer)}
<1>1. /\ Len(s) \in Nat /\ SubSeq(s, 1, 0) = <<>> /\ SubSeq(s, 1, Len(s)) = s
      /\ \A n \in 0 .. Len(s) : SubSeq(s, 1, n) \in Seq(Char)
      /\ \A n \in 0 .. Len(s) - 1 : /\ s[n + 1] \in Char
                                    /\ SubSeq(s, 1, n + 1) = Append(SubSeq(s, 1, n), s[n + 1])
  BY Beginnings
<1>2. Len(b) \in Nat
  OBVIOUS
<1>3. 0 \in N
  <2>1. R(0) = Beginning(b, Len(b))
    BY <1>1, <1>2, SplitNone DEF Put
  <2>2. <<>> \in Seq(Seq(Char))
    OBVIOUS
  <2>3. Beginning(b, Len(b)) \in Assembled /\ Beginning(b, Len(b)).end = Len(Beginning(b, Len(b)).buffer)
    BY <1>2, <2>2 DEF Beginning, Assembled
  <2> QED  BY <1>1, <2>1, <2>3
<1>4. ASSUME NEW n \in 0 .. Len(s) - 1, n \in N
      PROVE  n + 1 \in N
  <2> DEFINE r == R(n)
             c == s[n + 1]
             u == SubSeq(s, 1, n)
  <2>1. u \in Seq(Char) /\ c \in Char /\ SubSeq(s, 1, n + 1) = Append(u, c) /\ n + 1 \in 0 .. Len(s)
    BY <1>1
  <2>2. r \in Assembled /\ r.end = Len(r.buffer)
    BY <1>4
  <2> HIDE DEF c, u
  <2>3. R(n + 1) = Placed(r, c)
    <3>1. Split(b, Len(b), Append(u, c)) = Placed(Split(b, Len(b), u), c)
      BY <1>2, <2>1, SplitMore
    <3>2. R(n + 1) = Split(b, Len(b), Append(u, c)) /\ r = Split(b, Len(b), u)
      BY <2>1 DEF Put, u
    <3> QED  BY <3>1, <3>2
  <2> HIDE DEF r
  <2>4. Placed(r, c) \in Assembled /\ Placed(r, c).end = Len(Placed(r, c).buffer)
    BY <2>1, <2>2, PlacedIs, AtTheEnd
  <2> QED  BY <2>1, <2>3, <2>4
<1> HIDE DEF N
<1>5. \A n \in 0 .. Len(s) : n \in N
  BY <1>1, <1>3, <1>4, UpTo
<1>6. Len(s) \in N
  BY <1>1, <1>5
<1> QED  BY <1>1, <1>6 DEF N

(* A character more is put at the end.                                      *)
LEMMA PutMore ==
    ASSUME NEW b \in Seq(Char), NEW s \in Seq(Char), NEW c \in Char
    PROVE  Put(b, Append(s, c)) = Joined(Put(b, s), c)
<1>1. Len(b) \in Nat
  OBVIOUS
<1>2. Put(b, Append(s, c)) = Placed(Put(b, s), c)
  BY <1>1, SplitMore DEF Put
<1> QED  BY <1>2, PutTight, AtTheEnd

(* No text is put.                                                          *)
LEMMA PutNone ==
    ASSUME NEW b \in Seq(Char)
    PROVE  Put(b, <<>>) = At(b)
<1>1. Len(b) \in Nat
  OBVIOUS
<1> QED  BY <1>1, SplitNone DEF Put, At

-----------------------------------------------------------------------------
(* Lines that are not empty; characters without returns.                   *)

Full(lines) == Picked(lines, {i \in DOMAIN lines : lines[i] # <<>>})

(* A line more is kept unless it is empty.                                  *)
LEMMA FullMore ==
    ASSUME NEW lines \in Seq(Seq(Char)), NEW e \in Seq(Char)
    PROVE  /\ Full(lines) \in Seq(Seq(Char))
           /\ Full(Append(lines, e)) = IF e = <<>> THEN Full(lines) ELSE Append(Full(lines), e)
<1> DEFINE l == Len(lines)
           more == Append(lines, e)
           P == {i \in DOMAIN lines : lines[i] # <<>>}
           Q == {i \in DOMAIN more : more[i] # <<>>}
<1>1. /\ l \in Nat /\ DOMAIN lines = 1 .. l /\ DOMAIN more = 1 .. l + 1 /\ more[l + 1] = e
      /\ \A i \in 1 .. l : more[i] = lines[i]
  BY AppendGives
<1>2. \A i \in 1 .. l : i \in P <=> i \in Q
  BY <1>1
<1>3. l + 1 \in Q <=> e # <<>>
  BY <1>1
<1> HIDE DEF P, Q
<1>4. /\ Picked(lines, P) \in Seq(Seq(Char))
      /\ Picked(more, Q) = IF l + 1 \in Q THEN Append(Picked(lines, P), e) ELSE Picked(lines, P)
  BY <1>2, PickedMore
<1> QED  BY <1>3, <1>4 DEF P, Q, Full

(* A character more is kept unless it is a return.                          *)
LEMMA SanitizeMore ==
    ASSUME NEW s \in Seq(Char), NEW c \in Char
    PROVE  /\ Sanitize(s) \in Seq(Char)
           /\ Sanitize(Append(s, c)) = IF c = CR THEN Sanitize(s) ELSE Append(Sanitize(s), c)
<1> DEFINE l == Len(s)
           more == Append(s, c)
           P == {i \in DOMAIN s : s[i] # CR}
           Q == {i \in DOMAIN more : more[i] # CR}
<1>1. /\ l \in Nat /\ DOMAIN s = 1 .. l /\ DOMAIN more = 1 .. l + 1 /\ more[l + 1] = c
      /\ \A i \in 1 .. l : more[i] = s[i]
  BY AppendGives
<1>2. \A i \in 1 .. l : i \in P <=> i \in Q
  BY <1>1
<1>3. l + 1 \in Q <=> c # CR
  BY <1>1
<1> HIDE DEF P, Q
<1>4. /\ Picked(s, P) \in Seq(Char)
      /\ Picked(more, Q) = IF l + 1 \in Q THEN Append(Picked(s, P), c) ELSE Picked(s, P)
  BY <1>2, PickedMore
<1> QED  BY <1>3, <1>4 DEF P, Q, Sanitize

(* Of no text there is nothing.                                             *)
LEMMA NothingPicked == Full(<<>>) = <<>> /\ Sanitize(<<>>) = <<>>
  BY PickedNone DEF Full, Sanitize

-----------------------------------------------------------------------------
(* The table of spots.                                                     *)

Tables == [line : [1 .. MaxSpots -> Seq(Char)], count : 0 .. MaxSpots - 1]

(* What is assumed of the sizes.                                            *)
LEMMA Sizes == /\ MaxSpots \in Nat /\ DropSpots \in Nat \ {0} /\ SpotRows \in Nat \ {0}
               /\ DropSpots + 1 < MaxSpots
               /\ Columns \in Nat /\ Columns > 1 /\ MaxLines \in Nat \ {0}
  BY TextAssumption

(* What AddSpot() makes of the table.                                       *)
LEMMA AddSpotIs ==
    ASSUME NEW t \in Tables, NEW e \in Seq(Char)
    PROVE  /\ AddSpot(t, e) \in Tables
           /\ t.count + 1 < MaxSpots =>
                 /\ AddSpot(t, e).count = t.count + 1
                 /\ \A i \in 1 .. MaxSpots :
                       AddSpot(t, e).line[i] = IF i = t.count + 1 THEN e ELSE t.line[i]
           /\ t.count + 1 = MaxSpots =>
                 /\ AddSpot(t, e).count = MaxSpots - DropSpots
                 /\ \A i \in 1 .. MaxSpots :
                       AddSpot(t, e).line[i] = IF i < MaxSpots - DropSpots THEN t.line[i + DropSpots]
                                               ELSE <<>>
<1>1. t.line \in [1 .. MaxSpots -> Seq(Char)] /\ t.count \in 0 .. MaxSpots - 1
  BY DEF Tables
<1> DEFINE u == [t EXCEPT !.line[t.count + 1] = e, !.count = @ + 1]
<1>2. u.line = [t.line EXCEPT ![t.count + 1] = e] /\ u.count = t.count + 1
  BY DEF Tables
<1>3. /\ t.count + 1 \in 1 .. MaxSpots /\ u.count = t.count + 1
      /\ u.line \in [1 .. MaxSpots -> Seq(Char)]
      /\ \A i \in 1 .. MaxSpots : u.line[i] = IF i = t.count + 1 THEN e ELSE t.line[i]
  BY <1>1, <1>2, Sizes
<1>4. AddSpot(t, e) =
        IF u.count < MaxSpots THEN u
        ELSE [line  |-> [i \in 1..MaxSpots |->
                            IF i < MaxSpots - DropSpots THEN u.line[i + DropSpots] ELSE <<>>],
              count |-> MaxSpots - DropSpots]
  BY DEF AddSpot
<1>6. CASE t.count + 1 < MaxSpots
  <2>1. AddSpot(t, e) = u
    BY <1>3, <1>4, <1>6
  <2>2. u \in Tables
    <3>1. u.count \in 0 .. MaxSpots - 1
      BY <1>1, <1>3, <1>6, Sizes
    <3>2. u \in [line : [1 .. MaxSpots -> Seq(Char)], count : Int]
      <4> DEFINE lines == [t.line EXCEPT ![t.count + 1] = e]
                 w == [t EXCEPT !.line = lines]
      <4>1. u = [w EXCEPT !.count = t.count + 1]
        OBVIOUS
      <4>2. lines \in [1 .. MaxSpots -> Seq(Char)]
        BY <1>1, Sizes
      <4> HIDE DEF lines, u
      <4>3. w \in [line : [1 .. MaxSpots -> Seq(Char)], count : Int]
        BY <4>2 DEF Tables
      <4> HIDE DEF w
      <4>4. [w EXCEPT !.count = t.count + 1] \in [line : [1 .. MaxSpots -> Seq(Char)], count : Int]
        BY <1>1, <4>3
      <4> QED  BY <4>1, <4>4
    <3> HIDE DEF u
    <3> QED  BY <1>3, <3>1, <3>2 DEF Tables
  <2> QED  BY <1>3, <1>6, <2>1, <2>2, Sizes
<1>7. CASE t.count + 1 = MaxSpots
  <2> DEFINE v == [i \in 1 .. MaxSpots |->
                     IF i < MaxSpots - DropSpots THEN u.line[i + DropSpots] ELSE <<>>]
  <2>1. AddSpot(t, e) = [line |-> v, count |-> MaxSpots - DropSpots]
    BY <1>3, <1>4, <1>7, Sizes
  <2> HIDE DEF u
  <2>2. \A i \in 1 .. MaxSpots : i < MaxSpots - DropSpots =>
           i + DropSpots \in 1 .. MaxSpots /\ i + DropSpots # t.count + 1
    BY <1>7, Sizes
  <2>3. \A i \in 1 .. MaxSpots :
           v[i] = IF i < MaxSpots - DropSpots THEN t.line[i + DropSpots] ELSE <<>>
    BY <1>3, <2>2
  <2>4. v \in [1 .. MaxSpots -> Seq(Char)]
    BY <1>1, <1>3, <2>2, NothingIn
  <2> HIDE DEF v
  <2>5. MaxSpots - DropSpots \in 0 .. MaxSpots - 1
    BY Sizes
  <2>6. AddSpot(t, e) \in Tables
    BY <2>1, <2>4, <2>5 DEF Tables
  <2>7. AddSpot(t, e).line = v /\ AddSpot(t, e).count = MaxSpots - DropSpots
    BY <2>1
  <2>8. ~(t.count + 1 < MaxSpots)
    BY <1>7, Sizes
  <2> QED  BY <1>7, <2>3, <2>6, <2>7, <2>8, Zenon
<1>8. t.count + 1 < MaxSpots \/ t.count + 1 = MaxSpots
  <2>1. t.count \in 0 .. MaxSpots - 1 /\ MaxSpots \in Nat
    BY Sizes DEF Tables
  <2> HIDE DEF u
  <2> QED  BY <2>1
<1> QED  BY <1>6, <1>7, <1>8

AddingSpots(lines) == [i \in 1 .. Len(lines) |-> [t \in Tables |-> AddSpot(t, lines[i])]]

(* AddSpots() is a course over the lines.                                   *)
LEMMA AddSpotsCourse ==
    ASSUME NEW a \in Tables, NEW lines \in Seq(Seq(Char))
    PROVE  \E f : Course(f, a, AddingSpots(lines), Tables, Len(lines)) /\ f[Len(lines)] = AddSpots(a, lines)
<1> DEFINE l == Len(lines)
           Fits(f) == f = [i \in 0 .. l |-> IF i = 0 THEN a ELSE AddSpot(f[i - 1], lines[i])]
<1>1. l \in Nat /\ \A i \in 1 .. l : lines[i] \in Seq(Char)
  BY ElementsOf
<1>2. AddSpots(a, lines) = (CHOOSE f : Fits(f))[l]
  BY DEF AddSpots
<1> HIDE DEF l
<1>5. AddingSpots(lines) \in [1 .. l -> [Tables -> Tables]]
  <2>1. ASSUME NEW i \in 1 .. l, NEW t \in Tables
        PROVE  AddSpot(t, lines[i]) \in Tables
    BY <1>1, AddSpotIs
  <2>2. ASSUME NEW i \in 1 .. l
        PROVE  [t \in Tables |-> AddSpot(t, lines[i])] \in [Tables -> Tables]
    BY <2>1
  <2> QED  BY <2>2 DEF AddingSpots, l
<1>6. \A i \in 1 .. l, t \in Tables : AddingSpots(lines)[i][t] = AddSpot(t, lines[i])
  BY DEF AddingSpots, l
<1>7. PICK f : Course(f, a, AddingSpots(lines), Tables, l)
  BY <1>1, <1>5, CourseExists
<1>8. f \in [0 .. l -> Tables] /\ f[0] = a
  BY <1>7 DEF Course
<1>9. ASSUME NEW i \in 0 .. l, i # 0
      PROVE  f[i] = AddSpot(f[i - 1], lines[i])
  <2>1. i \in 1 .. l /\ f[i - 1] \in Tables /\ f[i] = AddingSpots(lines)[i][f[i - 1]]
    BY <1>1, <1>7, <1>9 DEF Course
  <2> QED  BY <1>6, <2>1
<1>10. Fits(f)
  <2>1. \A i \in 0 .. l : f[i] = IF i = 0 THEN a ELSE AddSpot(f[i - 1], lines[i])
    BY <1>8, <1>9
  <2> QED  BY <1>8, <2>1
<1> DEFINE g == CHOOSE h : Fits(h)
<1>11. Fits(g)
  BY <1>10, Zenon
<1>12. AddSpots(a, lines) = g[l]
  BY <1>2
<1> HIDE DEF g
<1>13. \A i \in 0 .. l : g[i] = IF i = 0 THEN a ELSE AddSpot(g[i - 1], lines[i])
  BY <1>11
<1> HIDE DEF Fits
<1>14. \A i \in 0 .. l - 1 : f[i] = g[i] => f[i + 1] = g[i + 1]
  <2> TAKE i \in 0 .. l - 1
  <2> SUFFICES ASSUME f[i] = g[i] PROVE f[i + 1] = g[i + 1]
    OBVIOUS
  <2>1. i + 1 \in 0 .. l /\ i + 1 # 0 /\ (i + 1) - 1 = i
    BY <1>1
  <2>2. f[i + 1] = AddSpot(f[i], lines[i + 1])
    BY <1>9, <2>1
  <2>3. g[i + 1] = AddSpot(g[i], lines[i + 1])
    BY <1>13, <2>1
  <2> QED  BY <2>2, <2>3
<1>15. f[0] = g[0]
  BY <1>1, <1>8, <1>13
<1>16. \A i \in 0 .. l : f[i] = g[i]
  BY <1>1, <1>14, <1>15, CoursesAgree
<1>17. f[l] = AddSpots(a, lines)
  BY <1>1, <1>12, <1>16
<1> QED  BY <1>7, <1>17 DEF l

(* AddSpots() takes line by line.                                           *)
LEMMA AddSpotsMore ==
    ASSUME NEW a \in Tables, NEW lines \in Seq(Seq(Char)), NEW e \in Seq(Char)
    PROVE  /\ AddSpots(a, lines) \in Tables
           /\ AddSpots(a, Append(lines, e)) = AddSpot(AddSpots(a, lines), e)
<1> DEFINE l == Len(lines)
           more == Append(lines, e)
<1>1. /\ more \in Seq(Seq(Char)) /\ l \in Nat /\ Len(more) = l + 1 /\ more[l + 1] = e
      /\ \A i \in 1 .. l : more[i] = lines[i]
  BY AppendGives
<1>2. PICK f : Course(f, a, AddingSpots(lines), Tables, l) /\ f[l] = AddSpots(a, lines)
  BY AddSpotsCourse
<1> HIDE DEF more
<1>3. PICK g : Course(g, a, AddingSpots(more), Tables, Len(more)) /\ g[Len(more)] = AddSpots(a, more)
  BY <1>1, AddSpotsCourse
<1>4. \A i \in 1 .. l : AddingSpots(lines)[i] = AddingSpots(more)[i]
  BY <1>1 DEF AddingSpots
<1>5. AddingSpots(more)[l + 1] = [t \in Tables |-> AddSpot(t, e)]
  BY <1>1 DEF AddingSpots
<1> HIDE DEF l
<1>6. f[l] \in Tables /\ g[l + 1] = AddingSpots(more)[l + 1][f[l]]
  <2>1. Course(g, a, AddingSpots(more), Tables, l + 1)
    BY <1>1, <1>3
  <2> QED  BY <1>1, <1>2, <2>1, <1>4, CourseMore
<1>7. AddingSpots(more)[l + 1][f[l]] = AddSpot(f[l], e)
  BY <1>5, <1>6
<1> QED  BY <1>1, <1>2, <1>3, <1>6, <1>7 DEF more

(* No line leaves the table as it is.                                       *)
LEMMA AddSpotsNone ==
    ASSUME NEW a \in Tables
    PROVE  AddSpots(a, <<>>) = a
<1> DEFINE none == <<>>
<1>1. none \in Seq(Seq(Char)) /\ Len(none) = 0
  OBVIOUS
<1> HIDE DEF none
<1>2. PICK f : Course(f, a, AddingSpots(none), Tables, Len(none)) /\ f[Len(none)] = AddSpots(a, none)
  BY <1>1, AddSpotsCourse
<1>3. f[0] = a
  BY <1>2 DEF Course
<1> QED  BY <1>1, <1>2, <1>3 DEF none

-----------------------------------------------------------------------------
(* What the table has: the last lines, how many depends on when it was full. *)

Count(n) == IF n < MaxSpots THEN n ELSE (MaxSpots - DropSpots) + ((n - MaxSpots) % DropSpots)

TableHolds(t, lines, gone) ==
    /\ t.count = Count(Len(lines))
    /\ \A p \in 1 .. t.count :
          t.line[p] = IF Len(lines) - t.count + p > gone /\ Kept(Len(lines) - t.count + p)
                      THEN lines[Len(lines) - t.count + p] ELSE <<>>

(* How many lines the table has after one more, and whether that one is kept. *)
LEMMA Counts ==
    ASSUME NEW n \in Nat
    PROVE  /\ Count(n) \in 0 .. MaxSpots - 1 /\ Count(n) <= n
           /\ n < MaxSpots => Count(n) = n
           /\ n >= MaxSpots => Count(n) >= MaxSpots - DropSpots
           /\ Count(n) + 1 < MaxSpots => Count(n + 1) = Count(n) + 1 /\ Kept(n + 1)
           /\ Count(n) + 1 = MaxSpots => Count(n + 1) = MaxSpots - DropSpots /\ ~Kept(n + 1)
<1>1. CASE n + 1 < MaxSpots
  <2>1. Count(n) = n /\ Count(n + 1) = n + 1 /\ Kept(n + 1)
    BY <1>1, Sizes DEF Count, Kept
  <2> QED  BY <1>1, <2>1, Sizes
<1>2. CASE n + 1 = MaxSpots
  <2>1. 0 % DropSpots = 0
    BY Sizes
  <2>2. (n + 1) - MaxSpots = 0 /\ ~(n + 1 < MaxSpots) /\ n + 1 >= MaxSpots /\ n < MaxSpots
    BY <1>2, Sizes
  <2>3. ((n + 1) - MaxSpots) % DropSpots = 0
    BY <2>1, <2>2, Zenon
  <2>4. Count(n) = n
    BY <2>2 DEF Count
  <2>5. ~Kept(n + 1)
    BY <2>2, <2>3, Zenon DEF Kept
  <2>6. Count(n + 1) = (MaxSpots - DropSpots) + 0
    BY <2>2, <2>3, Zenon DEF Count
  <2> QED  BY <1>2, <2>4, <2>5, <2>6, Sizes
<1>3. CASE n >= MaxSpots
  <2> DEFINE x == n - MaxSpots
             r == x % DropSpots
             s == (x + 1) % DropSpots
  <2>1. x \in Nat /\ (n + 1) - MaxSpots = x + 1 /\ n + 1 >= MaxSpots /\ ~(n < MaxSpots) /\ ~(n + 1 < MaxSpots)
    BY <1>3, Sizes
  <2>2. Count(n) = (MaxSpots - DropSpots) + r
    BY <2>1, Zenon DEF Count
  <2>3. Count(n + 1) = (MaxSpots - DropSpots) + s
    BY <2>1, Zenon DEF Count
  <2>4. Kept(n + 1) <=> s # 0
    BY <2>1 DEF Kept
  <2>5. r \in 0 .. DropSpots - 1 /\ s = IF r + 1 = DropSpots THEN 0 ELSE r + 1
    BY <2>1, Sizes, RestStep
  <2> HIDE DEF x, r, s
  <2>6. Count(n) \in 0 .. MaxSpots - 1 /\ Count(n) <= n /\ Count(n) >= MaxSpots - DropSpots
    BY <1>3, <2>2, <2>5, Sizes
  <2>7. CASE r + 1 = DropSpots
    BY <2>1, <2>2, <2>3, <2>4, <2>5, <2>6, <2>7, Sizes
  <2>8. CASE r + 1 < DropSpots
    BY <2>1, <2>2, <2>3, <2>4, <2>5, <2>6, <2>8, Sizes
  <2> QED  BY <2>5, <2>7, <2>8, Sizes
<1> QED  BY <1>1, <1>2, <1>3, Sizes

(* A line more. *)
LEMMA TableStep ==
    ASSUME NEW t \in Tables, NEW lines \in Seq(Seq(Char)), NEW gone \in 0 .. Len(lines),
           TableHolds(t, lines, gone), NEW e \in Seq(Char)
    PROVE  TableHolds(AddSpot(t, e), Append(lines, e), gone)
<1> DEFINE n == Len(lines)
           more == Append(lines, e)
           u == AddSpot(t, e)
           c == t.count
           L == t.line
           M == u.line
<1>1. n \in Nat /\ Len(more) = n + 1 /\ more[n + 1] = e /\ \A i \in 1 .. n : more[i] = lines[i]
  BY AppendGives
<1>2. /\ c + 1 < MaxSpots => /\ u.count = c + 1
                             /\ \A i \in 1 .. MaxSpots : M[i] = IF i = c + 1 THEN e ELSE L[i]
      /\ c + 1 = MaxSpots =>
            /\ u.count = MaxSpots - DropSpots
            /\ \A i \in 1 .. MaxSpots :
                  M[i] = IF i < MaxSpots - DropSpots THEN L[i + DropSpots] ELSE <<>>
  BY AddSpotIs
<1>3. c = Count(n) /\ \A p \in 1 .. c : L[p] = IF n - c + p > gone /\ Kept(n - c + p)
                                               THEN lines[n - c + p] ELSE <<>>
  BY DEF TableHolds
<1>4. c \in 0 .. MaxSpots - 1 /\ c <= n
  BY <1>1, <1>3, Counts
<1>5. gone \in Nat /\ gone <= n
  BY <1>1
<1> HIDE DEF n, more, u, c, L, M
<1>8. ASSUME /\ u.count = Count(n + 1)
             /\ \A p \in 1 .. u.count :
                   M[p] = IF (n + 1) - u.count + p > gone /\ Kept((n + 1) - u.count + p)
                          THEN more[(n + 1) - u.count + p] ELSE <<>>
      PROVE  TableHolds(u, more, gone)
  BY <1>1, <1>8 DEF TableHolds, M
<1> SUFFICES /\ u.count = Count(n + 1)
             /\ \A p \in 1 .. u.count :
                   M[p] = IF (n + 1) - u.count + p > gone /\ Kept((n + 1) - u.count + p)
                          THEN more[(n + 1) - u.count + p] ELSE <<>>
  BY <1>8 DEF u, more
<1>6. CASE c + 1 < MaxSpots
  <2>1. u.count = c + 1 /\ Count(n + 1) = c + 1 /\ Kept(n + 1)
    BY <1>1, <1>2, <1>3, <1>6, Counts
  <2>2. ASSUME NEW p \in 1 .. c + 1
        PROVE  M[p] = IF (n + 1) - (c + 1) + p > gone /\ Kept((n + 1) - (c + 1) + p)
                      THEN more[(n + 1) - (c + 1) + p] ELSE <<>>
    <3>1. p \in 1 .. MaxSpots
      BY <1>4, <1>6, Sizes
    <3>2. M[p] = IF p = c + 1 THEN e ELSE L[p]
      BY <1>2, <1>6, <3>1
    <3>3. CASE p = c + 1
      <4>1. (n + 1) - (c + 1) + p = n + 1 /\ n + 1 > gone
        BY <1>1, <1>4, <1>5, <3>3
      <4> QED  BY <1>1, <2>1, <3>2, <3>3, <4>1
    <3>4. CASE p \in 1 .. c
      <4>1. (n + 1) - (c + 1) + p = n - c + p /\ n - c + p \in 1 .. n /\ p # c + 1
        BY <1>1, <1>4, <3>4
      <4> QED  BY <1>1, <1>3, <3>2, <3>4, <4>1
    <3> QED  BY <1>4, <3>3, <3>4
  <2> QED  BY <2>1, <2>2
<1>7. CASE c + 1 = MaxSpots
  <2>1. u.count = MaxSpots - DropSpots /\ Count(n + 1) = MaxSpots - DropSpots /\ ~Kept(n + 1)
    BY <1>1, <1>2, <1>3, <1>7, Counts
  <2> DEFINE d == MaxSpots - DropSpots
  <2>2. ASSUME NEW p \in 1 .. d
        PROVE  M[p] = IF (n + 1) - d + p > gone /\ Kept((n + 1) - d + p)
                      THEN more[(n + 1) - d + p] ELSE <<>>
    <3>1. p \in 1 .. MaxSpots /\ d \in Nat
      BY Sizes
    <3>2. M[p] = IF p < d THEN L[p + DropSpots] ELSE <<>>
      BY <1>2, <1>7, <3>1
    <3>3. CASE p = d
      <4>1. (n + 1) - d + p = n + 1 /\ ~(p < d)
        BY <1>1, <3>1, <3>3
      <4> QED  BY <2>1, <3>2, <4>1
    <3>4. CASE p < d
      <4>1. /\ p + DropSpots \in 1 .. c /\ (n + 1) - d + p = n - c + (p + DropSpots)
            /\ n - c + (p + DropSpots) \in 1 .. n
        <5>1. d + DropSpots = c + 1 /\ DropSpots \in Nat
          BY <1>4, <1>7, Sizes
        <5>2. p \in Nat /\ p < d /\ d \in Nat /\ n \in Nat /\ c \in 0 .. n
          BY <1>1, <1>4, <3>1, <3>4
        <5> HIDE DEF d
        <5>3. p + DropSpots \in 1 .. c
          BY <5>1, <5>2, <2>2
        <5> QED  BY <5>1, <5>2, <5>3
      <4>2. L[p + DropSpots] = IF n - c + (p + DropSpots) > gone /\ Kept(n - c + (p + DropSpots))
                               THEN lines[n - c + (p + DropSpots)] ELSE <<>>
        BY <1>3, <4>1
      <4> QED  BY <1>1, <3>2, <3>4, <4>1, <4>2
    <3> QED  BY <3>1, <3>3, <3>4
  <2> QED  BY <2>1, <2>2
<1> QED  BY <1>4, <1>6, <1>7, Sizes

(* All the entries a text brings. *)
LEMMA TableKeeps ==
    ASSUME NEW t \in Tables, NEW a \in Seq(Seq(Char)), NEW gone \in 0 .. Len(a),
           TableHolds(t, a, gone), NEW lines \in Seq(Seq(Char))
    PROVE  /\ AddSpots(t, lines) \in Tables /\ a \o lines \in Seq(Seq(Char))
           /\ gone \in 0 .. Len(a \o lines)
           /\ TableHolds(AddSpots(t, lines), a \o lines, gone)
<1> DEFINE l == Len(lines)
           T(n) == AddSpots(t, SubSeq(lines, 1, n))
           A(n) == a \o SubSeq(lines, 1, n)
           Good(n) == /\ T(n) \in Tables /\ A(n) \in Seq(Seq(Char)) /\ gone \in 0 .. Len(A(n))
                      /\ TableHolds(T(n), A(n), gone)
           N == {n \in 0 .. l : Good(n)}
<1>1. /\ l \in Nat /\ SubSeq(lines, 1, 0) = <<>> /\ SubSeq(lines, 1, l) = lines
      /\ \A n \in 0 .. l : SubSeq(lines, 1, n) \in Seq(Seq(Char))
      /\ \A n \in 0 .. l - 1 : /\ lines[n + 1] \in Seq(Char)
                               /\ SubSeq(lines, 1, n + 1) = Append(SubSeq(lines, 1, n), lines[n + 1])
  BY Beginnings, ElementsOf
<1> HIDE DEF l
<1>2. Good(0)
  <2>1. T(0) = t
    BY <1>1, AddSpotsNone
  <2>2. A(0) = a
    BY <1>1, JoinedLists, NothingIn
  <2> HIDE DEF T, A
  <2> QED  BY <2>1, <2>2
<1>3. ASSUME NEW n \in 0 .. l - 1, Good(n)
      PROVE  Good(n + 1)
  <2> DEFINE s == SubSeq(lines, 1, n)
             e == lines[n + 1]
  <2>1. s \in Seq(Seq(Char)) /\ e \in Seq(Char) /\ SubSeq(lines, 1, n + 1) = Append(s, e)
    BY <1>1
  <2> HIDE DEF s, e
  <2>2. T(n + 1) = AddSpot(T(n), e)
    BY <2>1, AddSpotsMore DEF s
  <2>3. A(n + 1) = Append(A(n), e)
    <3>1. A(n + 1) = a \o Append(s, e)
      BY <2>1
    <3>2. A(n) = a \o s
      BY DEF s
    <3>3. a \o Append(s, e) = Append(a \o s, e)
      <4> DEFINE S == Seq(Char)
      <4>1. a \in Seq(S) /\ s \in Seq(S) /\ e \in S
        BY <2>1
      <4> HIDE DEF T, A, Good, S
      <4> QED  BY <4>1, JoinedLists
    <3> HIDE DEF A
    <3> QED  BY <3>1, <3>2, <3>3
  <2> HIDE DEF T, A
  <2>4. T(n + 1) \in Tables
    BY <1>3, <2>1, <2>2, AddSpotIs
  <2>5. A(n + 1) \in Seq(Seq(Char)) /\ Len(A(n + 1)) = Len(A(n)) + 1 /\ Len(A(n)) \in Nat
    <3>1. A(n) \in Seq(Seq(Char))
      BY <1>3
    <3> HIDE DEF Good, N
    <3>2. /\ Append(A(n), e) \in Seq(Seq(Char)) /\ Len(Append(A(n), e)) = Len(A(n)) + 1
          /\ Len(A(n)) \in Nat
      BY <2>1, <3>1, AppendGives
    <3> QED  BY <2>3, <3>2
  <2>6. TableHolds(T(n + 1), A(n + 1), gone)
    BY <1>3, <2>1, <2>2, <2>3, TableStep
  <2> QED  BY <2>4, <2>5, <2>6, <1>3
<1> HIDE DEF Good
<1>4. 0 \in N /\ \A n \in 0 .. l - 1 : n \in N => n + 1 \in N
  BY <1>1, <1>2, <1>3
<1> HIDE DEF N
<1>5. \A n \in 0 .. l : n \in N
  BY <1>1, <1>4, UpTo
<1>6. Good(l)
  BY <1>1, <1>5 DEF N
<1> QED  BY <1>1, <1>6 DEF Good

(* What a line is cut into. *)
LEMMA EntriesAre ==
    ASSUME NEW line \in Seq(Char)
    PROVE  Entries(line) \in Seq(Seq(Char))
<1> DEFINE l == Len(line)
           last(i) == IF i + EntryLength + 1 < l THEN i + EntryLength + 1 ELSE l
           pieces == [i \in DOMAIN line |-> SubSeq(line, i, last(i))]
           places == {i \in DOMAIN line : (i - 1) % EntryLength = 0}
<1>1. l \in Nat /\ DOMAIN line = 1 .. l /\ EntryLength \in Nat \ {0}
  BY ElementsOf, TextAssumption
<1>2. ASSUME NEW i \in 1 .. l
      PROVE  SubSeq(line, i, last(i)) \in Seq(Char)
  <2>1. i \in 1 .. l + 1 /\ last(i) \in i - 1 .. l
    BY <1>1
  <2> HIDE DEF last
  <2> QED  BY <2>1, SubSeqGives
<1> HIDE DEF last, l
<1>3. pieces \in Seq(Seq(Char))
  BY <1>1, <1>2
<1>4. Entries(line) = Picked(pieces, places)
  BY DEF Entries, last, l
<1> HIDE DEF pieces, places
<1>5. <<>> \in Seq(Char)
  OBVIOUS
<1>6. Picked(pieces, places) \in Seq(Seq(Char))
  BY <1>3, <1>5, PickedMore
<1> QED  BY <1>4, <1>6

(* All of them, of any lines. *)
LEMMA AllEntriesAre ==
    ASSUME NEW lines \in Seq(Seq(Char))
    PROVE  AllEntries(lines) \in Seq(Seq(Char))
<1> DEFINE l == Len(lines)
           X == Seq(Seq(Char))
           G == [i \in 1 .. l |-> [x \in X |-> x \o Entries(lines[i])]]
           Fits(f) == f = [n \in 0 .. l |-> IF n = 0 THEN <<>> ELSE f[n - 1] \o Entries(lines[n])]
<1>1. l \in Nat /\ \A i \in 1 .. l : Entries(lines[i]) \in X
  BY ElementsOf, EntriesAre
<1>2. AllEntries(lines) = (CHOOSE f : Fits(f))[l]
  BY DEF AllEntries
<1> HIDE DEF l
<1>3. <<>> \in X /\ \A x, y \in X : x \o y \in X
  BY JoinedLists, NothingIn
<1> HIDE DEF X
<1>4. G \in [1 .. l -> [X -> X]]
  BY <1>1, <1>3
<1>5. \A i \in 1 .. l, x \in X : G[i][x] = x \o Entries(lines[i])
  OBVIOUS
<1> HIDE DEF G
<1>6. PICK f : Course(f, <<>>, G, X, l)
  BY <1>1, <1>3, <1>4, CourseExists
<1>7. f \in [0 .. l -> X] /\ f[0] = <<>>
  BY <1>6 DEF Course
<1>8. ASSUME NEW i \in 0 .. l, i # 0
      PROVE  f[i] = f[i - 1] \o Entries(lines[i])
  <2>1. i \in 1 .. l /\ f[i - 1] \in X /\ f[i] = G[i][f[i - 1]]
    BY <1>1, <1>6, <1>8 DEF Course
  <2> QED  BY <1>5, <2>1
<1>9. Fits(f)
  <2>1. \A i \in 0 .. l : f[i] = IF i = 0 THEN <<>> ELSE f[i - 1] \o Entries(lines[i])
    BY <1>7, <1>8
  <2> QED  BY <1>7, <2>1
<1> DEFINE g == CHOOSE h : Fits(h)
<1>10. Fits(g)
  BY <1>9, Zenon
<1>11. AllEntries(lines) = g[l]
  BY <1>2
<1> HIDE DEF g
<1>12. \A i \in 0 .. l : g[i] = IF i = 0 THEN <<>> ELSE g[i - 1] \o Entries(lines[i])
  BY <1>10
<1> HIDE DEF Fits
<1>13. \A i \in 0 .. l - 1 : f[i] = g[i] => f[i + 1] = g[i + 1]
  <2> TAKE i \in 0 .. l - 1
  <2> SUFFICES ASSUME f[i] = g[i] PROVE f[i + 1] = g[i + 1]
    OBVIOUS
  <2>1. i + 1 \in 0 .. l /\ i + 1 # 0 /\ (i + 1) - 1 = i
    BY <1>1
  <2>2. f[i + 1] = f[i] \o Entries(lines[i + 1])
    BY <1>8, <2>1
  <2>3. g[i + 1] = g[i] \o Entries(lines[i + 1])
    BY <1>12, <2>1
  <2> QED  BY <2>2, <2>3
<1>14. f[0] = g[0]
  <2>1. 0 \in 0 .. l
    BY <1>1
  <2>2. g[0] = <<>>
    BY <1>12, <2>1
  <2> QED  BY <1>7, <2>2
<1>15. \A i \in 0 .. l : f[i] = g[i]
  BY <1>1, <1>13, <1>14, CoursesAgree
<1>16. f[l] = g[l] /\ f[l] \in X
  BY <1>1, <1>7, <1>15
<1> QED  BY <1>11, <1>16 DEF X

\* The table has what it should of the entries.
TableInv ==
    /\ added \in Seq(Seq(Char))
    /\ spots \in Tables /\ entered \in Seq(Seq(Char)) /\ cleared \in 0 .. Len(entered)
    /\ TableHolds(spots, entered, cleared)

(* The last elements of a list. *)
LEMMA LastOnes ==
    ASSUME NEW S, NEW all \in Seq(S), NEW rows \in Nat \ {0}
    PROVE  LET last == SubSeq(all, IF Len(all) < rows THEN 1 ELSE Len(all) - rows + 1, Len(all))
           IN  /\ last \in Seq(S) /\ Len(last) <= Len(all) /\ (Len(last) < rows => Len(last) = Len(all))
               /\ \A i \in 1 .. Len(last) : last[i] = all[Len(all) - Len(last) + i]
<1> DEFINE m == IF Len(all) < rows THEN 1 ELSE Len(all) - rows + 1
           last == SubSeq(all, m, Len(all))
<1>1. Len(all) \in Nat /\ m \in 1 .. Len(all) + 1 /\ Len(all) \in m - 1 .. Len(all)
  BY ElementsOf
<1>2. Len(all) - m + 1 < rows => m = 1
  <2>1. CASE Len(all) < rows
    BY <2>1
  <2>2. CASE ~(Len(all) < rows)
    <3>1. m = Len(all) - rows + 1 /\ Len(all) \in Nat
      BY <1>1, <2>2
    <3> HIDE DEF m
    <3>2. (Len(all) - m) + 1 = rows
      BY <3>1
    <3> QED  BY <3>2
  <2> QED  BY <2>1, <2>2
<1> HIDE DEF m
<1>3. /\ last \in Seq(S) /\ Len(last) = Len(all) - m + 1
      /\ \A i \in 1 .. Len(all) - m + 1 : last[i] = all[m + i - 1]
  BY <1>1, SubSeqGives
<1> HIDE DEF last
<1>4. Len(last) <= Len(all) /\ (Len(last) < rows => Len(last) = Len(all))
  BY <1>1, <1>2, <1>3
<1>5. \A i \in 1 .. Len(last) : last[i] = all[Len(all) - Len(last) + i]
  <2> TAKE i \in 1 .. Len(last)
  <2>1. last[i] = all[m + i - 1] /\ Len(all) - Len(last) + i = m + i - 1
    BY <1>1, <1>3
  <2> QED  BY <2>1
<1> QED  BY <1>3, <1>4, <1>5 DEF last, m

(* Places far back in a list have no more than so many elements. *)
LEMMA FewPlaces ==
    ASSUME NEW w, NEW m \in Nat, NEW n \in Nat, m <= n, NEW R, \A x \in R : \E k \in m + 1 .. n : x = w[k]
    PROVE  Cardinality(R) \in Nat /\ Cardinality(R) <= n - m
<1> DEFINE I == m + 1 .. n
           T == {w[k] : k \in I}
           f == [k \in I |-> w[k]]
<1>1. IsFiniteSet(I) /\ Cardinality(I) = n - m
  <2>1. m + 1 \in Int /\ n \in Int
    OBVIOUS
  <2>2. IsFiniteSet(I) /\ Cardinality(I) = IF m + 1 > n THEN 0 ELSE n - (m + 1) + 1
    BY <2>1, FS_Interval
  <2> HIDE DEF I
  <2> QED  BY <2>2
<1> HIDE DEF I
<1>2. f \in Surjection(I, T)
  BY DEF Surjection
<1>3. IsFiniteSet(T) /\ Cardinality(T) <= Cardinality(I)
  BY <1>1, <1>2, FS_Surjection
<1>4. R \subseteq T
  BY DEF I
<1> HIDE DEF T
<1>5. IsFiniteSet(R) /\ Cardinality(R) <= Cardinality(T)
  BY <1>3, <1>4, FS_Subset
<1>6. Cardinality(R) \in Nat /\ Cardinality(T) \in Nat
  BY <1>3, <1>5, FS_CardinalityType
<1> QED  BY <1>1, <1>3, <1>5, <1>6

(* An empty place is never shown.                                           *)
LEMMA NothingSelected ==
    ASSUME NEW filter
    PROVE  ~Selected(<<>>, filter)
<1>1. \A kinds : ~Holds(<<>>, kinds)
  BY DEF Holds
<1>2. ~(Len(<<>>) > 2)
  OBVIOUS
<1> QED  BY <1>1, <1>2 DEF Selected

(* The window shows the newest entries of such a table. *)
LEMMA TableShows ==
    ASSUME TableInv
    PROVE  ClusterShowsNewest
<1> SUFFICES ASSUME NEW filter \in 0 .. 3
             PROVE  LET wanted == Picked([i \in 1..Len(entered) |-> i],
                             {i \in cleared + 1..Len(entered) : Kept(i) /\ Selected(entered[i], filter)})
                        shown  == Shown(spots, filter)
                        recent == {i \in ToSet(wanted) : i > Len(entered) - (MaxSpots - DropSpots - 1)}
                    IN  /\ Len(shown) <= Len(wanted)
                        /\ Len(shown) < SpotRows => Len(shown) >= Cardinality(recent)
                        /\ shown = [i \in 1..Len(shown) |->
                                      entered[wanted[Len(wanted) - Len(shown) + i]]]
  BY DEF ClusterShowsNewest
<1> DEFINE n == Len(entered)
           c == spots.count
           base == n - c
           ids == [i \in 1 .. n |-> i]
           W == {i \in cleared + 1 .. n : Kept(i) /\ Selected(entered[i], filter)}
           tab == SubSeq(spots.line, 1, c)
           P == {i \in 1 .. c : Selected(spots.line[i], filter)}
           wanted == Picked(ids, W)
           all == Picked(tab, P)
           shown == Shown(spots, filter)
           recent == {i \in ToSet(wanted) : i > n - (MaxSpots - DropSpots - 1)}
<1>1. n \in Nat /\ cleared \in 0 .. n /\ \A i \in 1 .. n : entered[i] \in Seq(Char)
  BY ElementsOf DEF TableInv
<1>2. c = Count(n)
  BY DEF TableInv, TableHolds
<1>3. /\ c \in 0 .. MaxSpots - 1 /\ c <= n /\ (n < MaxSpots => c = n)
      /\ n >= MaxSpots => c >= MaxSpots - DropSpots
  BY <1>1, <1>2, Counts
<1>4. base \in 0 .. n /\ c \in 0 .. n /\ n = base + c
  BY <1>1, <1>3
<1>5. tab \in Seq(Seq(Char)) /\ Len(tab) = c /\ \A p \in 1 .. c : tab[p] = spots.line[p]
  <2>1. spots.line \in [1 .. MaxSpots -> Seq(Char)]
    BY DEF TableInv, Tables
  <2>2. spots.line \in Seq(Seq(Char)) /\ Len(spots.line) = MaxSpots
    BY <2>1, Sizes
  <2>3. c \in 0 .. Len(spots.line)
    BY <1>3, <2>2, Sizes
  <2> QED  BY <2>2, <2>3, Beginnings
<1>6. ids \in Seq(Nat) /\ Len(ids) = n /\ \A i \in 1 .. n : ids[i] = i
  BY <1>1
<1>7. \A p \in 1 .. c : tab[p] = IF base + p > cleared /\ Kept(base + p) THEN entered[base + p] ELSE <<>>
  BY <1>5 DEF TableInv, TableHolds
<1>8. \A i \in 1 .. n : i \in W <=> i > cleared /\ Kept(i) /\ Selected(entered[i], filter)
  BY <1>1
<1>9. \A p \in 1 .. c : p \in P <=> Selected(tab[p], filter)
  BY <1>5
<1>10. shown = SubSeq(all, IF Len(all) < SpotRows THEN 1 ELSE Len(all) - SpotRows + 1, Len(all))
  BY DEF Shown
<1> HIDE DEF n, c, base, ids, W, tab, P
<1>11. PICK f : PickedBy(f, ids, W, Nat)
  BY <1>6, PickedIs
<1>12. PICK g : PickedBy(g, tab, P, Seq(Char))
  BY <1>5, PickedIs
<1>13. /\ f \in [0 .. n -> Seq(Nat)] /\ f[0] = <<>> /\ f[n] = wanted
       /\ \A i \in 1 .. n : f[i] = IF i \in W THEN Append(f[i - 1], i) ELSE f[i - 1]
  BY <1>6, <1>11 DEF PickedBy
<1>14. /\ g \in [0 .. c -> Seq(Seq(Char))] /\ g[0] = <<>> /\ g[c] = all
       /\ \A p \in 1 .. c : g[p] = IF p \in P THEN Append(g[p - 1], tab[p]) ELSE g[p - 1]
  BY <1>5, <1>12 DEF PickedBy
<1>15. \A m \in 0 .. n : \A k \in 1 .. Len(f[m]) : f[m][k] <= m
  <2> DEFINE N == {m \in 0 .. n : \A k \in 1 .. Len(f[m]) : f[m][k] <= m}
  <2>1. 0 \in N
    BY <1>1, <1>13
  <2>2. ASSUME NEW m \in 0 .. n - 1, m \in N
        PROVE  m + 1 \in N
    <3>1. m + 1 \in 1 .. n /\ (m + 1) - 1 = m /\ m \in 0 .. n /\ m + 1 \in 0 .. n
      BY <1>1
    <3>2. f[m + 1] = IF m + 1 \in W THEN Append(f[m], m + 1) ELSE f[m]
      BY <1>13, <3>1
    <3>3. f[m] \in Seq(Nat) /\ \A k \in 1 .. Len(f[m]) : f[m][k] \in Nat
      BY <1>13, <3>1, ElementsOf
    <3>4. /\ Len(Append(f[m], m + 1)) = Len(f[m]) + 1 /\ Len(f[m]) \in Nat
          /\ Append(f[m], m + 1)[Len(f[m]) + 1] = m + 1
          /\ \A k \in 1 .. Len(f[m]) : Append(f[m], m + 1)[k] = f[m][k]
      BY <3>1, <3>3, AppendGives
    <3>5. ASSUME NEW k \in 1 .. Len(f[m + 1])
          PROVE  f[m + 1][k] <= m + 1
      <4>1. CASE k \in 1 .. Len(f[m])
        BY <2>2, <3>2, <3>3, <3>4, <4>1
      <4>2. CASE k = Len(f[m]) + 1
        BY <3>2, <3>4, <4>2
      <4> QED  BY <3>2, <3>4, <4>1, <4>2
    <3> QED  BY <3>1, <3>5
  <2> HIDE DEF N
  <2>3. \A m \in 0 .. n : m \in N
    BY <1>1, <2>1, <2>2, UpTo
  <2> QED  BY <2>3 DEF N
<1> DEFINE w == f[base]
           Same(m) == /\ Len(f[base + m]) = Len(w) + Len(g[m])
                      /\ \A k \in 1 .. Len(w) : f[base + m][k] = w[k]
                      /\ \A k \in 1 .. Len(g[m]) : g[m][k] = entered[f[base + m][Len(w) + k]]
<1>16. w \in Seq(Nat) /\ Len(w) \in Nat
  <2>1. w \in Seq(Nat)
    BY <1>4, <1>13
  <2> HIDE DEF w
  <2> QED  BY <2>1
<1> HIDE DEF w
<1>17. Same(c)
  <2> DEFINE N == {m \in 0 .. c : Same(m)}
  <2>1. 0 \in N
    <3>1. Same(0)
      <4>1. f[base + 0] = w /\ Len(g[0]) = 0
        BY <1>4, <1>14 DEF w
      <4> QED  BY <1>16, <4>1
    <3> QED  BY <1>3, <3>1, Sizes
  <2>2. ASSUME NEW m \in 0 .. c - 1, m \in N
        PROVE  m + 1 \in N
    <3> DEFINE i == base + (m + 1)
               F == f[base + m]
               G == g[m]
    <3>1. /\ i \in 1 .. n /\ i - 1 = base + m /\ i \in Nat /\ base + m \in 0 .. n
          /\ m + 1 \in 1 .. c /\ (m + 1) - 1 = m /\ m \in 0 .. c
      BY <1>3, <1>4, Sizes
    <3>2. f[i] = IF i \in W THEN Append(F, i) ELSE F
      BY <1>13, <3>1
    <3>3. g[m + 1] = IF m + 1 \in P THEN Append(G, tab[m + 1]) ELSE G
      BY <1>14, <3>1
    <3>4. F \in Seq(Nat) /\ G \in Seq(Seq(Char)) /\ tab[m + 1] \in Seq(Char)
      <4>1. F \in Seq(Nat)
        BY <1>13, <3>1
      <4>2. G \in Seq(Seq(Char))
        BY <1>14, <3>1
      <4>3. tab[m + 1] \in Seq(Char)
        BY <1>5, <3>1, ElementsOf
      <4> QED  BY <4>1, <4>2, <4>3
    <3>5. m + 1 \in P <=> i \in W
      BY <1>7, <1>8, <1>9, <3>1, NothingSelected
    <3>6. m + 1 \in P => tab[m + 1] = entered[i]
      BY <1>7, <1>9, <3>1, NothingSelected
    <3>7. /\ Len(F) = Len(w) + Len(G)
          /\ \A k \in 1 .. Len(w) : F[k] = w[k]
          /\ \A k \in 1 .. Len(G) : G[k] = entered[F[Len(w) + k]]
      BY <2>2
    <3> HIDE DEF i, F, G
    <3>8. CASE m + 1 \notin P
      <4>1. f[i] = F /\ g[m + 1] = G
        BY <3>2, <3>3, <3>5, <3>8
      <4>2. Same(m + 1)
        BY <3>7, <4>1 DEF i
      <4> QED  BY <3>1, <4>2
    <3>9. CASE m + 1 \in P
      <4>1. f[i] = Append(F, i) /\ g[m + 1] = Append(G, entered[i]) /\ entered[i] \in Seq(Char)
        BY <3>2, <3>3, <3>4, <3>5, <3>6, <3>9
      <4>2. /\ Len(f[i]) = Len(F) + 1 /\ Len(F) \in Nat /\ f[i][Len(F) + 1] = i
            /\ \A k \in 1 .. Len(F) : f[i][k] = F[k]
        BY <3>1, <3>4, <4>1, AppendGives
      <4>3. /\ Len(g[m + 1]) = Len(G) + 1 /\ Len(G) \in Nat /\ g[m + 1][Len(G) + 1] = entered[i]
            /\ \A k \in 1 .. Len(G) : g[m + 1][k] = G[k]
        BY <3>4, <4>1, AppendGives
      <4>4. Len(f[i]) = Len(w) + Len(g[m + 1])
        BY <1>16, <3>7, <4>2, <4>3
      <4>5. \A k \in 1 .. Len(w) : f[i][k] = w[k]
        BY <1>16, <3>7, <4>2, <4>3
      <4>6. \A k \in 1 .. Len(g[m + 1]) : g[m + 1][k] = entered[f[i][Len(w) + k]]
        <5> TAKE k \in 1 .. Len(g[m + 1])
        <5>1. CASE k \in 1 .. Len(G)
          <6>1. Len(w) + k \in 1 .. Len(F)
            BY <1>16, <3>7, <4>3, <5>1
          <6> QED  BY <3>7, <4>2, <4>3, <5>1, <6>1
        <5>2. CASE k = Len(G) + 1
          <6>1. Len(w) + k = Len(F) + 1
            BY <1>16, <3>7, <4>3, <5>2
          <6> QED  BY <4>2, <4>3, <5>2, <6>1
        <5> QED  BY <4>3, <5>1, <5>2
      <4>7. Same(m + 1)
        BY <4>4, <4>5, <4>6 DEF i
      <4> QED  BY <3>1, <4>7
    <3> QED  BY <3>8, <3>9
  <2> HIDE DEF N
  <2>3. \A m \in 0 .. c : m \in N
    BY <1>4, <2>1, <2>2, UpTo
  <2> QED  BY <1>4, <2>3 DEF N
<1>18. f[base + c] = wanted /\ g[c] = all /\ wanted \in Seq(Nat) /\ all \in Seq(Seq(Char))
  BY <1>4, <1>13, <1>14
<1> HIDE DEF wanted, all
<1>19. /\ shown \in Seq(Seq(Char)) /\ Len(shown) <= Len(all)
       /\ Len(shown) < SpotRows => Len(shown) = Len(all)
       /\ \A i \in 1 .. Len(shown) : shown[i] = all[Len(all) - Len(shown) + i]
  <2>1. SpotRows \in Nat \ {0} /\ all \in Seq(Seq(Char))
    BY <1>18, Sizes
  <2> HIDE DEF shown
  <2> QED  BY <1>10, <2>1, LastOnes
<1> HIDE DEF shown
<1>20. Len(shown) \in Nat /\ Len(all) \in Nat /\ Len(wanted) \in Nat /\ Len(wanted) = Len(w) + Len(all)
  BY <1>17, <1>18, <1>19, ElementsOf
<1>21. Len(shown) <= Len(wanted)
  BY <1>16, <1>19, <1>20
<1>22. shown = [i \in 1 .. Len(shown) |-> entered[wanted[Len(wanted) - Len(shown) + i]]]
  <2>1. ASSUME NEW i \in 1 .. Len(shown)
        PROVE  shown[i] = entered[wanted[Len(wanted) - Len(shown) + i]]
    <3>1. /\ Len(all) - Len(shown) + i \in 1 .. Len(all)
          /\ Len(w) + (Len(all) - Len(shown) + i) = Len(wanted) - Len(shown) + i
      BY <1>16, <1>19, <1>20
    <3>2. all[Len(all) - Len(shown) + i] = entered[wanted[Len(w) + (Len(all) - Len(shown) + i)]]
      BY <1>17, <1>18, <3>1
    <3> QED  BY <1>19, <3>1, <3>2
  <2>2. DOMAIN shown = 1 .. Len(shown) /\ shown = [i \in DOMAIN shown |-> shown[i]]
    BY <1>19
  <2> QED  BY <2>1, <2>2
<1>23. Cardinality(recent) \in Nat /\ Cardinality(recent) <= Len(wanted) - Len(w)
  <2>1. ASSUME NEW x \in recent
        PROVE  \E k \in Len(w) + 1 .. Len(wanted) : x = wanted[k]
    <3>1. PICK k \in 1 .. Len(wanted) : x = wanted[k]
      <4>1. DOMAIN wanted = 1 .. Len(wanted)
        BY <1>18, ElementsOf
      <4> QED  BY <4>1 DEF ToSet
    <3>2. x > n - (MaxSpots - DropSpots - 1) /\ x \in Nat
      BY <1>18, <3>1
    <3>3. k \notin 1 .. Len(w)
      <4> SUFFICES ASSUME k \in 1 .. Len(w) PROVE FALSE
        OBVIOUS
      <4>1. x = w[k] /\ x <= base
        BY <1>4, <1>15, <1>17, <1>18, <3>1 DEF w
      <4>2. n >= MaxSpots => FALSE
        BY <1>1, <1>3, <1>4, <3>2, <4>1, Sizes
      <4>3. n < MaxSpots => base = 0
        BY <1>1, <1>3, <1>4
      <4>4. base = 0 => Len(w) = 0
        BY <1>13 DEF w
      <4> QED  BY <1>1, <4>2, <4>3, <4>4, Sizes
    <3> QED  BY <1>16, <1>20, <3>1, <3>3
  <2> HIDE DEF recent
  <2>2. Len(w) <= Len(wanted)
    BY <1>16, <1>20
  <2> QED  BY <1>16, <1>20, <2>1, <2>2, FewPlaces
<1>24. Len(shown) < SpotRows => Len(shown) >= Cardinality(recent)
  BY <1>16, <1>19, <1>20, <1>23
<1> QED  BY <1>21, <1>22, <1>24 DEF n, wanted, shown, ids, W

ClusterInv ==
    /\ station \in Stations /\ taken \in Nat /\ made \in Nat /\ said \in Nat
    /\ stream \in Seq(Char) /\ buffer \in Seq(Char) /\ log \in Seq(Seq(Char))
    /\ end \in [screen : Nat, background : Nat]
    /\ background \in {"spot", "message"} => taken < Len(station.messages)
    /\ TableInv

(* Characters and lines. *)
LEMMA CellsAre ==
    ASSUME NEW line \in ClusterLine
    PROVE  /\ Cells(line) \in Seq(Char) /\ Len(Cells(line)) = line.length /\ line.length \in Nat
           /\ \A i \in 1 .. line.length : Cells(line)[i] = <<line, i>>
           /\ Ended(line) \in Seq(Char) /\ FromCluster(line) \in Seq(Char)
<1>1. line.length \in Nat
  BY DEF ClusterLine
<1>2. Cells(line) \in Seq(Char) /\ Len(Cells(line)) = line.length /\ \A i \in 1 .. line.length : Cells(line)[i] = <<line, i>>
  <2>1. \A i \in 1 .. line.length : <<line, i>> \in Char
    BY DEF Char
  <2> QED  BY <1>1, <2>1 DEF Cells
<1>3. NL \in Char /\ CR \in Char
  BY DEF Char
<1>4. Ended(line) \in Seq(Char)
  BY <1>2, <1>3, AppendGives DEF Ended
<1>5. <<CR, NL>> \in Seq(Char)
  BY <1>3
<1>6. FromCluster(line) \in Seq(Char)
  BY <1>2, <1>5, JoinedLists DEF FromCluster
<1> QED  BY <1>1, <1>2, <1>4, <1>6

(* The lines and texts TLF makes itself.                                    *)
LEMMA OwnLines ==
    /\ \A nr \in Nat, kind \in {"dx", "tlf"}, length \in Nat : LineOf(nr, kind, length) \in ClusterLine
    /\ Ended(Command) \in Seq(Char) /\ Ended(LocalSpot) \o <<NL>> \in Seq(Char)
    /\ Welcome \in Seq(Char) /\ LoggedIn \in Seq(Char) /\ Welcome \o LoggedIn \in Seq(Char)
    /\ <<NL>> \in Seq(Char) /\ <<>> \in Seq(Char)
<1>1. \A nr \in Nat, kind \in {"dx", "tlf"}, length \in Nat : LineOf(nr, kind, length) \in ClusterLine
  BY DEF LineOf, ClusterLine
<1>2. /\ LineOf(0, "tlf", 1) \in ClusterLine /\ LineOf(1, "tlf", 1) \in ClusterLine
      /\ LineOf(2, "tlf", 1) \in ClusterLine /\ LineOf(3, "dx", 2) \in ClusterLine
  BY <1>1
<1>3. <<NL>> \in Seq(Char) /\ <<>> \in Seq(Char)
  BY DEF Char
<1>4. Ended(Command) \in Seq(Char) /\ Ended(LocalSpot) \in Seq(Char)
  BY <1>2, CellsAre DEF Command, LocalSpot
<1>5. Welcome \in Seq(Char) /\ LoggedIn \in Seq(Char)
  BY <1>2, <1>3, CellsAre, JoinedLists DEF Welcome, LoggedIn
<1> QED  BY <1>1, <1>3, <1>4, <1>5, JoinedLists

(* A character of a line has its line.                                      *)
LEMMA TextLines ==
    ASSUME NEW c \in Char
    PROVE  IsText(c) => c \in ClusterLine \X Nat /\ c[1] \in ClusterLine
  BY CharsDiffer DEF Char, IsText

(* What is private remains text.                                            *)
LEMMA PrivateIs ==
    ASSUME NEW s \in Seq(Char)
    PROVE  Private(s) \in Seq(Char)
<1>1. CASE ~Begins(s, {"talk", "private"})
  BY <1>1 DEF Private
<1>2. CASE Begins(s, {"talk", "private"})
  <2>1. s # <<>> /\ s[1] \in Char /\ First(s) \in ClusterLine
    <3>1. s # <<>> /\ IsText(s[1])
      BY <1>2 DEF Begins
    <3>2. s[1] \in Char
      BY <3>1
    <3> QED  BY <3>1, <3>2, TextLines DEF First
  <2>2. LineOf(First(s).nr, "dx", First(s).length) \in ClusterLine
    BY <2>1, OwnLines DEF ClusterLine
  <2>3. Ended(LineOf(First(s).nr, "dx", First(s).length)) \in Seq(Char)
    BY <2>2, CellsAre
  <2>4. NL \in Char /\ Append(s, NL) \in Seq(Char)
    <3>1. NL \in Char
      BY DEF Char
    <3> QED  BY <3>1, AppendGives
  <2> QED  BY <1>2, <2>3, <2>4 DEF Private
<1> QED  BY <1>1, <1>2

(* Text without returns is text.                                            *)
LEMMA SanitizeIs ==
    ASSUME NEW s \in Seq(Char)
    PROVE  Sanitize(s) \in Seq(Char)
<1>1. NL \in Char
  BY DEF Char
<1> QED  BY <1>1, SanitizeMore

(* Text splits into lines and a rest.                                       *)
LEMMA SplitIs ==
    ASSUME NEW b \in Seq(Char), NEW e \in Nat, NEW s \in Seq(Char)
    PROVE  Split(b, e, s) \in Assembled /\ Split(b, e, s).buffer \in Seq(Char)
           /\ Split(b, e, s).lines \in Seq(Seq(Char))
<1>1. NL \in Char
  BY DEF Char
<1>2. Split(b, e, s) \in Assembled
  BY <1>1, SplitMore
<1> QED  BY <1>2 DEF Assembled

(* What any text does. *)
LEMMA TextAdded ==
    ASSUME ClusterInv, NEW thread \in {"screen", "background"}, NEW s \in Seq(Char), NEW v, NEW quiet,
           AddTextAs(thread, s, v, quiet), UNCHANGED cleared
    PROVE  /\ buffer' \in Seq(Char) /\ log' \in Seq(Seq(Char)) /\ TableInv'
           /\ end' \in [screen : Nat, background : Nat]
           /\ buffer' = Split(buffer, end[thread], Private(s)).buffer
           /\ added' = added \o Full(Split(buffer, end[thread], Private(s)).lines)
           /\ log # <<>> \/ Split(buffer, end[thread], Private(s)).lines # <<>> => log' # <<>>
<1> DEFINE r == Split(buffer, end[thread], Private(s))
           all == log \o r.lines
           first == IF Len(all) > MaxLines THEN Len(all) - MaxLines + 1 ELSE 1
<1>0. end[thread] \in Nat
  BY DEF ClusterInv
<1>1. r.buffer \in Seq(Char) /\ r.lines \in Seq(Seq(Char))
  BY <1>0, PrivateIs, SplitIs DEF ClusterInv
<1>2. buffer' = r.buffer /\ log' = SubSeq(all, first, Len(all))
      /\ spots' = AddSpots(spots, AllEntries(r.lines)) /\ entered' = entered \o AllEntries(r.lines)
      /\ added' = added \o Full(r.lines) /\ end' = [end EXCEPT ![thread] = 0]
  <2>1. PICK q \in {r} : AddLines(thread, q, v, quiet)
    BY DEF AddTextAs
  <2> QED  BY <2>1 DEF AddLines, Full, Returns
<1> HIDE DEF r
<1>3. /\ all \in Seq(Seq(Char)) /\ Len(all) \in Nat /\ Len(all) = Len(log) + Len(r.lines)
      /\ Len(log) \in Nat /\ Len(r.lines) \in Nat
  BY <1>1, JoinedLists, ElementsOf DEF ClusterInv
<1> HIDE DEF all
<1>4. first \in 1 .. Len(all) + 1 /\ Len(all) \in first - 1 .. Len(all)
      /\ (Len(all) > 0 => Len(all) - first + 1 > 0)
  <2>1. CASE Len(all) > MaxLines
    <3>1. first = Len(all) - MaxLines + 1 /\ MaxLines \in Nat \ {0}
      BY <2>1, Sizes
    <3> HIDE DEF first
    <3> QED  BY <1>3, <2>1, <3>1
  <2>2. CASE ~(Len(all) > MaxLines)
    <3>1. first = 1
      BY <2>2
    <3> HIDE DEF first
    <3> QED  BY <1>3, <3>1
  <2> QED  BY <2>1, <2>2
<1> HIDE DEF first
<1>5. log' \in Seq(Seq(Char)) /\ Len(log') = Len(all) - first + 1
  BY <1>2, <1>3, <1>4, SubSeqGives
<1>6. log # <<>> \/ r.lines # <<>> => log' # <<>>
  <2>1. log # <<>> => Len(log) > 0
    BY <1>3 DEF ClusterInv
  <2>2. r.lines # <<>> => Len(r.lines) > 0
    BY <1>1, <1>3
  <2>3. log' = <<>> => Len(log') = 0
    OBVIOUS
  <2> QED  BY <1>3, <1>4, <1>5, <2>1, <2>2, <2>3
<1>7. TableInv'
  <2>1. AllEntries(r.lines) \in Seq(Seq(Char))
    BY <1>1, AllEntriesAre
  <2>2. /\ spots' \in Tables /\ entered' \in Seq(Seq(Char)) /\ cleared' \in 0 .. Len(entered')
        /\ TableHolds(spots', entered', cleared')
    BY <1>2, <2>1, TableKeeps DEF ClusterInv, TableInv
  <2>3. added' \in Seq(Seq(Char))
    BY <1>1, <1>2, <1>3, FullMore, JoinedLists DEF ClusterInv, TableInv
  <2> QED  BY <2>2, <2>3 DEF TableInv
<1>8. end' \in [screen : Nat, background : Nat]
  BY <1>2 DEF ClusterInv
<1> QED  BY <1>1, <1>2, <1>5, <1>6, <1>7, <1>8 DEF r

(* A thread comes into addtext(). *)
LEMMA Entering ==
    ASSUME ClusterInv, NEW thread \in {"screen", "background"}, Enters(thread)
    PROVE  /\ end' \in [screen : Nat, background : Nat] /\ end'[thread] = Len(buffer)
           /\ \A other \in {"screen", "background"} : other # thread => end'[other] = end[other]
<1>1. Len(buffer) \in Nat /\ end \in [screen : Nat, background : Nat]
  BY DEF ClusterInv
<1> QED  BY <1>1 DEF Enters

(* It holds at the start.                                                   *)
LEMMA ClusterInitInv == ClusterInit => ClusterInv
<1> SUFFICES ASSUME ClusterInit PROVE ClusterInv
  OBVIOUS
<1>1. <<>> \in Seq(Char) /\ <<>> \in Seq(Seq(Char)) /\ Len(<<>>) = 0
  OBVIOUS
<1>2. NoSpots \in Tables /\ NoSpots.count = 0
  <2>1. [i \in 1 .. MaxSpots |-> <<>>] \in [1 .. MaxSpots -> Seq(Char)]
    BY <1>1
  <2>2. 0 \in 0 .. MaxSpots - 1
    BY Sizes
  <2> QED  BY <2>1, <2>2 DEF NoSpots, Tables
<1>3. TableHolds(NoSpots, <<>>, 0)
  <2>1. Count(0) = 0
    BY Sizes DEF Count
  <2> QED  BY <1>1, <1>2, <2>1 DEF TableHolds
<1>4. spots = NoSpots /\ added = <<>> /\ entered = <<>> /\ cleared = 0 /\ stream = <<>> /\ buffer = <<>> /\ log = <<>>
  BY DEF ClusterInit
<1>5. TableInv
  BY <1>1, <1>2, <1>3, <1>4 DEF TableInv
<1>6. background \in {"off", "loop"} /\ end = [screen |-> 0, background |-> 0] /\ taken = 0 /\ made = 0 /\ said = 0 /\ station \in Stations
  BY DEF ClusterInit
<1> QED  BY <1>1, <1>4, <1>5, <1>6 DEF ClusterInv

\* What most steps leave alone.
SameText == UNCHANGED <<station, said, stream, text, cleared>>

(* A step without text keeps it.                                            *)
LEMMA QuietStep ==
    ASSUME ClusterInv, SameText, taken' = taken, made' \in Nat,
           end' = end \/ \E thread \in {"screen", "background"} : Enters(thread),
           background' \in {"spot", "message"} => taken < Len(station.messages)
    PROVE  ClusterInv'
<1>1. end' \in [screen : Nat, background : Nat]
  BY Entering DEF ClusterInv
<1> QED  BY <1>1 DEF ClusterInv, SameText, text, TableInv

(* A step that adds text keeps it.                                          *)
LEMMA TextStep ==
    ASSUME ClusterInv, station' = station, said' = said, cleared' = cleared, taken' \in Nat, made' \in Nat,
           stream' \in Seq(Char), background' \in {"spot", "message"} => taken' < Len(station.messages),
           NEW thread \in {"screen", "background"}, NEW s \in Seq(Char), NEW v, NEW quiet,
           AddTextAs(thread, s, v, quiet)
    PROVE  ClusterInv'
<1>1. /\ buffer' \in Seq(Char) /\ log' \in Seq(Seq(Char)) /\ TableInv'
      /\ end' \in [screen : Nat, background : Nat]
  BY TextAdded
<1> QED  BY <1>1 DEF ClusterInv

(* What a fragment is, and what it leaves.                                  *)
LEMMA StreamRead ==
    ASSUME ClusterInv, NEW k \in Fragments
    PROVE  /\ k \in 1 .. Len(stream) /\ SubSeq(stream, 1, k) \in Seq(Char)
           /\ Sanitize(SubSeq(stream, 1, k)) \in Seq(Char)
           /\ SubSeq(stream, k + 1, Len(stream)) \in Seq(Char)
<1>1. k \in 1 .. Len(stream) /\ stream \in Seq(Char)
  BY DEF Fragments, ClusterInv
<1>2. SubSeq(stream, 1, k) \in Seq(Char)
  BY <1>1
<1>3. SubSeq(stream, k + 1, Len(stream)) \in Seq(Char)
  BY <1>1
<1> QED  BY <1>1, <1>2, <1>3, SanitizeIs

(* A message of the LAN has a line.                                         *)
LEMMA MessageLine ==
    ASSUME ClusterInv, taken < Len(station.messages)
    PROVE  /\ station.messages[taken + 1].line \in ClusterLine
           /\ Cells(station.messages[taken + 1].line) \in Seq(Char)
<1>1. station.messages \in Seq([kind : {"TLFSPOT", "CLUSTERMSG"}, line : ClusterLine]) /\ taken \in Nat
  BY StationAssumption DEF ClusterInv
<1>2. taken + 1 \in 1 .. Len(station.messages)
  BY <1>1
<1>3. station.messages[taken + 1] \in [kind : {"TLFSPOT", "CLUSTERMSG"}, line : ClusterLine]
  BY <1>1, <1>2, ElementsOf
<1>4. station.messages[taken + 1].line \in ClusterLine
  BY <1>3
<1> QED  BY <1>4, CellsAre

(* Every step keeps it.                                                     *)
LEMMA ClusterNextInv == ClusterInv /\ [ClusterNext]_clusterVars => ClusterInv'
<1> SUFFICES ASSUME ClusterInv, [ClusterNext]_clusterVars PROVE ClusterInv'
  OBVIOUS
<1>0. taken \in Nat /\ made \in Nat /\ made + 1 \in Nat /\ taken + 1 \in Nat /\ stream \in Seq(Char)
  BY DEF ClusterInv
<1>1. CASE Reading \/ HandleClusterMsg \/ HandleTlfSpot \/ AddLocalSpot \/ Greet \/ SendLine
  <2>1. /\ SameText /\ taken' = taken /\ made' \in {made, made + 1}
        /\ \E thread \in {"screen", "background"} : Enters(thread)
    BY <1>1 DEF Reading, ReceivePacket, ReadWindow, HandleClusterMsg, HandleTlfSpot, AddLocalSpot, Greet,
                SendLine, SameText, link
  <2>2. background' = background \/ background' = "packet" \/ taken < Len(station.messages)
    BY <1>1 DEF Reading, ReceivePacket, ReadWindow, HandleClusterMsg, HandleTlfSpot, AddLocalSpot, Greet,
                SendLine, Message
  <2> QED  BY <1>0, <2>1, <2>2, QuietStep DEF ClusterInv
<1>2. CASE AddPacket
  <2>1. PICK k \in Fragments :
           /\ AddText("background", Sanitize(SubSeq(stream, 1, k)),
                      IF Is("telnet") THEN [view EXCEPT !.state = "EDITING"] ELSE view)
           /\ stream' = SubSeq(stream, k + 1, Len(stream))
    BY <1>2 DEF AddPacket, Read
  <2>2. UNCHANGED <<station, said, cleared, taken, made>> /\ background' = "loop"
    BY <1>2 DEF AddPacket, link
  <2> QED  BY <1>0, <2>1, <2>2, StreamRead, TextStep DEF AddText
<1>3. CASE AddRead
  <2>1. PICK k \in Fragments :
           /\ AddText("screen", Sanitize(SubSeq(stream, 1, k)), view)
           /\ stream' = SubSeq(stream, k + 1, Len(stream))
    BY <1>3 DEF AddRead, Read
  <2>2. UNCHANGED <<station, said, cleared, taken, made, background>>
    BY <1>3 DEF AddRead, link
  <2> QED  BY <1>0, <2>1, <2>2, StreamRead, TextStep DEF AddText, ClusterInv
<1>4. CASE AddClusterMsg \/ AddTlfSpot
  <2>1. /\ taken < Len(station.messages) /\ background' \in {"loop", "spotted"} /\ taken' = taken + 1
        /\ \E quiet \in {TRUE, lanspotflg \/ cl_send_inhibit} :
              AddTextAs("background", Cells(station.messages[taken + 1].line), view, quiet)
        /\ UNCHANGED <<station, said, cleared, stream, made>>
    BY <1>4 DEF AddClusterMsg, AddTlfSpot, AddText, ClusterInv, link
  <2>2. background' \notin {"spot", "message"}
    BY <2>1
  <2> QED  BY <1>0, <2>1, <2>2, MessageLine, TextStep
<1>5. CASE ReceiveFails \/ EndTlfSpot \/ EndOwnSpot \/ SendSpot \/ Packet \/ OpenWithoutLines \/ WindowFails
           \/ ScrollView \/ ResumeEditing \/ ViewLog \/ TypeCommand \/ Kill \/ Leave \/ Closes
           \/ UNCHANGED clusterVars
  <2>1. SameText /\ UNCHANGED <<taken, made, end>>
    BY <1>5 DEF ReceiveFails, EndTlfSpot, EndOwnSpot, SendSpot, Packet, OpenWithoutLines, WindowFails,
                ScrollView, ResumeEditing, ViewLog, TypeCommand, Kill, Leave, Closes, clusterVars,
                CleanupTelnet, KeepsText, SameText, text, place, link
  <2>2. background' \in {background, "loop"}
    BY <1>5 DEF ReceiveFails, EndTlfSpot, EndOwnSpot, SendSpot, Packet, OpenWithoutLines, WindowFails,
                ScrollView, ResumeEditing, ViewLog, TypeCommand, Kill, Leave, Closes, clusterVars,
                Back, KeepsText, place
  <2> QED  BY <1>0, <2>1, <2>2, QuietStep DEF ClusterInv
<1>6. CASE AddOwnSpot \/ AddLine \/ LogIn
  <2>1. /\ \E s \in {Ended(LocalSpot) \o <<NL>>, <<NL>>, Ended(Command), Welcome \o LoggedIn} :
              AddTextAs("screen", s, view, lanspotflg \/ cl_send_inhibit)
        /\ UNCHANGED <<station, said, cleared, stream, made, taken>> /\ background' \in {background, "loop"}
    BY <1>6 DEF AddOwnSpot, AddLine, LogIn, Back, AddText, link
  <2>2. /\ {Ended(LocalSpot) \o <<NL>>, <<NL>>, Ended(Command), Welcome \o LoggedIn} \subseteq Seq(Char)
        /\ background' \in {"spot", "message"} => taken' < Len(station.messages)
    BY <2>1, OwnLines DEF ClusterInv
  <2> QED  BY <1>0, <2>1, <2>2, TextStep
<1>7. CASE OpenWindow
  <2>1. UNCHANGED <<station, said, cleared, stream, made, taken, background>>
    BY <1>7 DEF OpenWindow, link
  <2>2. CASE AddText("screen", Welcome, Editing)
    BY <1>0, <2>1, <2>2, OwnLines, TextStep DEF AddText, ClusterInv
  <2>3. CASE UNCHANGED <<end, text>>
    BY <1>0, <2>1, <2>3, QuietStep DEF SameText, ClusterInv
  <2> QED  BY <1>7, <2>2, <2>3 DEF OpenWindow
<1>9. CASE Reconnect
  <2>1. PICK opens \in Connects : InitPacket(opens)
    BY <1>9 DEF Reconnect
  <2>2. /\ buffer' = <<>> /\ stream' = <<>>
        /\ UNCHANGED <<station, said, log, added, entered, end, taken, made, background>>
    BY <1>9, <2>1 DEF Reconnect, InitPacket, link
  <2>3. CASE opens
    <3>1. spots' = [spots EXCEPT !.line = NoSpots.line] /\ cleared' = Len(entered)
      BY <2>1, <2>3 DEF InitPacket
    <3>2. NoSpots.line \in [1 .. MaxSpots -> Seq(Char)] /\ \A i \in 1 .. MaxSpots : NoSpots.line[i] = <<>>
      BY NothingIn DEF NoSpots
    <3>3. spots \in Tables /\ entered \in Seq(Seq(Char)) /\ Len(entered) \in Nat
      BY DEF ClusterInv, TableInv
    <3>4. spots' \in Tables /\ spots'.line = NoSpots.line /\ spots'.count = spots.count
      BY <3>1, <3>2, <3>3 DEF Tables
    <3>5. /\ spots.count = Count(Len(entered)) /\ spots.count \in 0 .. MaxSpots - 1
          /\ spots.count <= Len(entered)
      <4>1. spots.count = Count(Len(entered))
        BY DEF ClusterInv, TableInv, TableHolds
      <4> QED  BY <3>3, <4>1, Counts
    <3>6. TableHolds(spots', entered, Len(entered))
      <4>1. \A p \in 1 .. spots.count :
               p \in 1 .. MaxSpots /\ ~(Len(entered) - spots.count + p > Len(entered))
        BY <3>3, <3>5, Sizes
      <4> QED  BY <3>2, <3>4, <3>5, <4>1 DEF TableHolds
    <3>7. TableInv'
      BY <2>2, <3>1, <3>3, <3>4, <3>6 DEF TableInv, ClusterInv
    <3> QED  BY <2>2, <3>7, NothingIn DEF ClusterInv
  <2>4. CASE ~opens
    <3>1. UNCHANGED <<spots, cleared>>
      BY <2>1, <2>4 DEF InitPacket
    <3> QED  BY <2>2, <3>1, NothingIn DEF ClusterInv, TableInv
  <2> QED  BY <2>3, <2>4 DEF Connects
<1>14. CASE Says
  <2>1. /\ stream' = stream \o FromCluster(station.lines[said + 1])
        /\ said < Len(station.lines) /\ said' = said + 1
        /\ UNCHANGED <<station, text, cleared, taken, made, background, end>>
    BY <1>14 DEF Says, place
  <2>2. stream' \in Seq(Char) /\ said' \in Nat
    <3>1. said \in Nat /\ station.lines \in Seq(ClusterLine)
      BY StationAssumption DEF ClusterInv
    <3>2. station.lines[said + 1] \in ClusterLine
      BY <2>1, <3>1, ElementsOf
    <3>3. FromCluster(station.lines[said + 1]) \in Seq(Char)
      BY <3>2, CellsAre
    <3> QED  BY <1>0, <2>1, <3>1, <3>3, JoinedLists
  <2> QED  BY <2>1, <2>2 DEF ClusterInv, text, TableInv
<1> QED  BY <1>1, <1>2, <1>3, <1>4, <1>5, <1>6, <1>7, <1>9, <1>14
         DEF ClusterNext, Opening, Adding

-----------------------------------------------------------------------------
(* Text of whole lines, in order.                                          *)

IsStart(c) == IsText(c) /\ c[2] = 1
Starts(c) == c = CR \/ IsStart(c)
OfCluster(e) == First(e).kind # "tlf"

\* What is to come: lines of K, whole but for the first, each with its return and newline.
ToCome(s, K) ==
    /\ \A p \in 1 .. Len(s) :
          \/ s[p] = NL /\ (p < Len(s) => Starts(s[p + 1]))
          \/ s[p] = CR /\ p < Len(s) /\ s[p + 1] = NL
          \/ /\ p < Len(s) /\ s[p][1] \in K /\ s[p][2] \in 1 .. s[p][1].length
             /\ s[p] = <<s[p][1], s[p][2]>>
             /\ s[p + 1] = IF s[p][2] < s[p][1].length THEN <<s[p][1], s[p][2] + 1>> ELSE CR
    /\ \A p \in 1 .. Len(s) : \A q \in p + 1 .. Len(s) :
          IsText(s[p]) /\ IsStart(s[q]) => s[p][1].nr < s[q][1].nr

\* Between two lines, or in one, with n characters of s read.
Between(b, s, n) == b = <<>> /\ (n < Len(s) => s[n + 1] = NL \/ Starts(s[n + 1]))
Within(b, a, s, n, K) ==
    \E l \in K :
        /\ Len(b) \in 1 .. l.length /\ \A i \in 1 .. Len(b) : b[i] = <<l, i>>
        /\ n < Len(s)
        /\ IF Len(b) < l.length THEN s[n + 1] = <<l, Len(b) + 1>> ELSE s[n + 1] \in {CR, NL}
        /\ \A p \in n + 1 .. Len(s) : IsStart(s[p]) => l.nr < s[p][1].nr
        /\ \A x \in 1 .. Len(a) : OfCluster(a[x]) => First(a[x]).nr < l.nr

Whole(a, K) ==
    /\ \A x \in 1 .. Len(a) : OfCluster(a[x]) => \E l \in K : l.length > 0 /\ a[x] = Cells(l)
    /\ \A x, y \in 1 .. Len(a) : x < y /\ OfCluster(a[x]) /\ OfCluster(a[y]) =>
                                    First(a[x]).nr < First(a[y]).nr
Ahead(a, s, n) ==
    \A x \in 1 .. Len(a), p \in n + 1 .. Len(s) :
        OfCluster(a[x]) /\ IsStart(s[p]) => First(a[x]).nr < s[p][1].nr

Flows(b, a, s, n, K) == (Between(b, s, n) \/ Within(b, a, s, n, K)) /\ Whole(a, K) /\ Ahead(a, s, n)

(* Newline, return and the characters of lines differ.                      *)
LEMMA Characters ==
    /\ NL # CR /\ ~IsText(NL) /\ ~IsText(CR) /\ ~IsStart(NL) /\ ~IsStart(CR)
    /\ \A l, i : /\ IsText(<<l, i>>) /\ <<l, i>> # NL /\ <<l, i>> # CR
                 /\ <<l, i>>[1] = l /\ <<l, i>>[2] = i
                 /\ (IsStart(<<l, i>>) <=> i = 1)
  BY DEF NL, CR, IsText, IsStart

(* Lists with the same elements are the same.                               *)
LEMMA SameList ==
    ASSUME NEW S, NEW s \in Seq(S), NEW t \in Seq(S), Len(s) = Len(t), \A i \in 1 .. Len(s) : s[i] = t[i]
    PROVE  s = t
  OBVIOUS

(* The return at the end of a line, or of an empty one. *)
LEMMA FlowReturn ==
    ASSUME NEW K \in SUBSET ClusterLine, NEW b \in Seq(Char), NEW a \in Seq(Seq(Char)), NEW s \in Seq(Char),
           NEW n \in 0 .. Len(s) - 1, ToCome(s, K), Flows(b, a, s, n, K), s[n + 1] = CR
    PROVE  Flows(b, a, s, n + 1, K)
<1>1. n + 1 \in 1 .. Len(s) /\ Len(s) \in Nat /\ n \in Nat
  OBVIOUS
<1>2. n + 1 < Len(s) /\ s[(n + 1) + 1] = NL
  <2>1. s[n + 1] # NL
    BY Characters
  <2>2. s[n + 1] # <<s[n + 1][1], s[n + 1][2]>>
    BY Characters
  <2> QED  BY <1>1, <2>1, <2>2 DEF ToCome
<1>3. Ahead(a, s, n + 1)
  <2>1. \A p \in (n + 1) + 1 .. Len(s) : p \in n + 1 .. Len(s)
    BY <1>1
  <2> QED  BY <2>1 DEF Flows, Ahead
<1>4. CASE Between(b, s, n)
  <2>1. Between(b, s, n + 1)
    BY <1>2, <1>4 DEF Between
  <2> QED  BY <1>3, <2>1 DEF Flows
<1>5. CASE Within(b, a, s, n, K)
  <2>1. PICK l \in K :
           /\ Len(b) \in 1 .. l.length /\ \A i \in 1 .. Len(b) : b[i] = <<l, i>>
           /\ IF Len(b) < l.length THEN s[n + 1] = <<l, Len(b) + 1>> ELSE s[n + 1] \in {CR, NL}
           /\ \A p \in n + 1 .. Len(s) : IsStart(s[p]) => l.nr < s[p][1].nr
           /\ \A x \in 1 .. Len(a) : OfCluster(a[x]) => First(a[x]).nr < l.nr
    BY <1>5 DEF Within
  <2>2. ~(Len(b) < l.length)
    BY <2>1, Characters
  <2>3. \A p \in (n + 1) + 1 .. Len(s) : IsStart(s[p]) => l.nr < s[p][1].nr
    BY <1>1, <2>1
  <2>4. Within(b, a, s, n + 1, K)
    BY <1>2, <2>1, <2>2, <2>3 DEF Within
  <2> QED  BY <1>3, <2>4 DEF Flows
<1> QED  BY <1>4, <1>5 DEF Flows

(* The newline: the line is whole. *)
LEMMA FlowNewline ==
    ASSUME NEW K \in SUBSET ClusterLine, NEW b \in Seq(Char), NEW a \in Seq(Seq(Char)), NEW s \in Seq(Char),
           NEW n \in 0 .. Len(s) - 1, ToCome(s, K), Flows(b, a, s, n, K), s[n + 1] = NL
    PROVE  Flows(<<>>, IF b = <<>> THEN a ELSE Append(a, b), s, n + 1, K)
<1>1. n + 1 \in 1 .. Len(s) /\ Len(s) \in Nat /\ n \in Nat
  OBVIOUS
<1>2. n + 1 < Len(s) => Starts(s[(n + 1) + 1])
  <2>1. ~(s[n + 1] = CR)
    BY Characters
  <2>2. s[n + 1] # <<s[n + 1][1], s[n + 1][2]>>
    BY Characters
  <2> QED  BY <1>1, <2>1, <2>2 DEF ToCome
<1>3. Between(<<>>, s, n + 1)
  BY <1>2 DEF Between
<1>4. \A p \in (n + 1) + 1 .. Len(s) : p \in n + 1 .. Len(s)
  BY <1>1
<1>5. CASE b = <<>>
  <2>1. Ahead(a, s, n + 1)
    BY <1>4 DEF Flows, Ahead
  <2> QED  BY <1>3, <1>5, <2>1 DEF Flows
<1>6. CASE b # <<>>
  <2>1. Within(b, a, s, n, K)
    BY <1>6 DEF Flows, Between
  <2>2. PICK l \in K :
           /\ Len(b) \in 1 .. l.length /\ \A i \in 1 .. Len(b) : b[i] = <<l, i>>
           /\ IF Len(b) < l.length THEN s[n + 1] = <<l, Len(b) + 1>> ELSE s[n + 1] \in {CR, NL}
           /\ \A p \in n + 1 .. Len(s) : IsStart(s[p]) => l.nr < s[p][1].nr
           /\ \A x \in 1 .. Len(a) : OfCluster(a[x]) => First(a[x]).nr < l.nr
    BY <2>1 DEF Within
  <2>3. Len(b) = l.length /\ l.length > 0 /\ l \in ClusterLine
    <3>1. ~(Len(b) < l.length) /\ l.length \in Nat
      BY <2>2, Characters DEF ClusterLine
    <3> QED  BY <2>2, <3>1
  <2>4. b = Cells(l)
    <3>1. /\ Cells(l) \in Seq(Char) /\ Len(Cells(l)) = l.length
          /\ \A i \in 1 .. l.length : Cells(l)[i] = <<l, i>>
      BY <2>3, CellsAre
    <3>2. Len(b) = Len(Cells(l)) /\ \A i \in 1 .. Len(b) : b[i] = Cells(l)[i]
      BY <2>2, <2>3, <3>1
    <3> QED  BY <3>1, <3>2, SameList
  <2>5. First(b) = l
    <3>1. 1 \in 1 .. Len(b) /\ b[1] = <<l, 1>>
      BY <2>2
    <3> QED  BY <3>1, Characters DEF First
  <2> DEFINE c == Append(a, b)
             m == Len(a)
  <2>6. /\ m \in Nat /\ Len(c) = m + 1 /\ c[m + 1] = b
        /\ \A x \in 1 .. m : c[x] = a[x]
    BY AppendGives
  <2> HIDE DEF c, m
  <2>7. Whole(a, K) /\ Ahead(a, s, n)
    BY DEF Flows
  <2>8. Whole(c, K)
    <3>1. \A x \in 1 .. m + 1 : OfCluster(c[x]) => \E k \in K : k.length > 0 /\ c[x] = Cells(k)
      <4> TAKE x \in 1 .. m + 1
      <4>1. CASE x \in 1 .. m
        BY <2>6, <2>7, <4>1 DEF Whole, m
      <4>2. CASE x = m + 1
        BY <2>2, <2>3, <2>4, <2>6, <4>2
      <4> QED  BY <2>6, <4>1, <4>2
    <3>2. \A x, y \in 1 .. m + 1 : x < y /\ OfCluster(c[x]) /\ OfCluster(c[y]) => First(c[x]).nr < First(c[y]).nr
      <4> SUFFICES ASSUME NEW x \in 1 .. m + 1, NEW y \in 1 .. m + 1, x < y, OfCluster(c[x]), OfCluster(c[y])
                   PROVE  First(c[x]).nr < First(c[y]).nr
        OBVIOUS
      <4>1. x \in 1 .. m
        BY <2>6
      <4>2. CASE y \in 1 .. m
        BY <2>6, <2>7, <4>1, <4>2 DEF Whole, m
      <4>3. CASE y = m + 1
        BY <2>2, <2>5, <2>6, <4>1, <4>3 DEF m
      <4> QED  BY <2>6, <4>2, <4>3
    <3> QED  BY <2>6, <3>1, <3>2 DEF Whole
  <2>9. Ahead(c, s, n + 1)
    <3> SUFFICES ASSUME NEW x \in 1 .. m + 1, NEW p \in (n + 1) + 1 .. Len(s), OfCluster(c[x]), IsStart(s[p])
                 PROVE  First(c[x]).nr < s[p][1].nr
      BY <2>6 DEF Ahead
    <3>1. CASE x \in 1 .. m
      BY <1>4, <2>6, <2>7, <3>1 DEF Ahead, m
    <3>2. CASE x = m + 1
      BY <1>4, <2>2, <2>5, <2>6, <3>2
    <3> QED  BY <2>6, <3>1, <3>2
  <2>10. Flows(<<>>, c, s, n + 1, K)
    BY <1>3, <2>8, <2>9 DEF Flows
  <2> QED  BY <1>6, <2>10 DEF c
<1> QED  BY <1>5, <1>6

(* A character of a line. *)
LEMMA FlowText ==
    ASSUME NEW K \in SUBSET ClusterLine, \A l \in K : l.length < Columns,
           NEW b \in Seq(Char), NEW a \in Seq(Seq(Char)), NEW s \in Seq(Char),
           NEW n \in 0 .. Len(s) - 1, ToCome(s, K), Flows(b, a, s, n, K), s[n + 1] # NL, s[n + 1] # CR
    PROVE  /\ ~(Len(b) + 1 >= Columns)
           /\ Flows(Append(b, s[n + 1]), a, s, n + 1, K)
<1> DEFINE c == s[n + 1]
           l == c[1]
           d == Append(b, c)
<1>1. n + 1 \in 1 .. Len(s) /\ Len(s) \in Nat /\ n \in Nat /\ c \in Char /\ Len(b) \in Nat
  BY ElementsOf
<1>2. /\ n + 1 < Len(s) /\ l \in K /\ c[2] \in 1 .. l.length /\ c = <<l, c[2]>>
      /\ s[(n + 1) + 1] = IF c[2] < l.length THEN <<l, c[2] + 1>> ELSE CR
  BY <1>1 DEF ToCome
<1>3. \A q \in (n + 1) + 1 .. Len(s) : IsStart(s[q]) => l.nr < s[q][1].nr
  <2>1. IsText(c)
    <3>1. IsText(<<l, c[2]>>)
      BY Characters
    <3> QED  BY <1>2, <3>1
  <2> QED  BY <1>1, <2>1 DEF ToCome
<1>4. l.length \in Nat /\ l.length < Columns /\ l.nr \in Nat /\ Columns \in Nat
  BY <1>2, Sizes DEF ClusterLine
<1>5. /\ Len(d) = Len(b) + 1 /\ d[Len(b) + 1] = c
      /\ \A i \in 1 .. Len(b) : d[i] = b[i]
  BY <1>1, AppendGives
<1> HIDE DEF c, d
<1>6. /\ c[2] = Len(b) + 1 /\ \A i \in 1 .. Len(b) : b[i] = <<l, i>>
      /\ \A x \in 1 .. Len(a) : OfCluster(a[x]) => First(a[x]).nr < l.nr
  <2>1. CASE Between(b, s, n)
    <3>1. Len(b) = 0 /\ IsStart(c)
      BY <1>1, <2>1 DEF Between, Starts, c
    <3>2. c[2] = 1
      BY <3>1 DEF IsStart
    <3>3. \A x \in 1 .. Len(a) : OfCluster(a[x]) => First(a[x]).nr < l.nr
      <4>1. n + 1 \in n + 1 .. Len(s)
        BY <1>1
      <4> QED  BY <3>1, <4>1 DEF Flows, Ahead, c
    <3>4. c[2] = Len(b) + 1 /\ \A i \in 1 .. Len(b) : FALSE
      BY <3>1, <3>2
    <3> QED  BY <3>3, <3>4
  <2>2. CASE Within(b, a, s, n, K)
    <3>1. PICK k \in K :
             /\ Len(b) \in 1 .. k.length /\ \A i \in 1 .. Len(b) : b[i] = <<k, i>>
             /\ IF Len(b) < k.length THEN c = <<k, Len(b) + 1>> ELSE c \in {CR, NL}
             /\ \A x \in 1 .. Len(a) : OfCluster(a[x]) => First(a[x]).nr < k.nr
      BY <2>2 DEF Within, c
    <3>2. c = <<k, Len(b) + 1>>
      BY <3>1 DEF c
    <3>3. l = k /\ c[2] = Len(b) + 1
      BY <3>2
    <3> HIDE DEF l
    <3> QED  BY <3>1, <3>3
  <2> QED  BY <2>1, <2>2 DEF Flows
<1> HIDE DEF l
<1>7. ~(Len(b) + 1 >= Columns)
  BY <1>1, <1>2, <1>4, <1>6
<1>8. Within(d, a, s, n + 1, K)
  <2>1. Len(d) \in 1 .. l.length
    BY <1>1, <1>2, <1>4, <1>5, <1>6
  <2>2. \A i \in 1 .. Len(d) : d[i] = <<l, i>>
    <3> TAKE i \in 1 .. Len(d)
    <3>1. CASE i \in 1 .. Len(b)
      BY <1>5, <1>6, <3>1
    <3>2. CASE i = Len(b) + 1
      BY <1>2, <1>5, <1>6, <3>2
    <3> QED  BY <1>1, <1>5, <3>1, <3>2
  <2>3. IF Len(d) < l.length THEN s[(n + 1) + 1] = <<l, Len(d) + 1>> ELSE s[(n + 1) + 1] \in {CR, NL}
    BY <1>2, <1>5, <1>6
  <2> QED  BY <1>2, <1>3, <1>6, <2>1, <2>2, <2>3 DEF Within
<1>9. Ahead(a, s, n + 1) /\ Whole(a, K)
  <2>1. \A p \in (n + 1) + 1 .. Len(s) : p \in n + 1 .. Len(s)
    BY <1>1
  <2> QED  BY <2>1 DEF Flows, Ahead
<1> QED  BY <1>7, <1>8, <1>9 DEF Flows, c, d

(* What is picked are elements of the list, in its order.                   *)
LEMMA PickedFrom ==
    ASSUME NEW S, NEW list \in Seq(S), NEW places
    PROVE  /\ Picked(list, places) \in Seq(S)
           /\ \A k \in 1 .. Len(Picked(list, places)) :
                 \E x \in 1 .. Len(list) : x \in places /\ Picked(list, places)[k] = list[x]
           /\ \A j, k \in 1 .. Len(Picked(list, places)) : j < k =>
                 \E x, y \in 1 .. Len(list) : /\ x < y /\ x \in places /\ y \in places
                                              /\ Picked(list, places)[j] = list[x]
                                              /\ Picked(list, places)[k] = list[y]
<1> DEFINE l == Len(list)
<1>1. l \in Nat /\ \A i \in 1 .. l : list[i] \in S
  BY ElementsOf
<1>2. PICK f : PickedBy(f, list, places, S)
  BY PickedIs
<1>3. /\ f \in [0 .. l -> Seq(S)] /\ f[0] = <<>> /\ f[l] = Picked(list, places)
      /\ \A i \in 1 .. l : f[i] = IF i \in places THEN Append(f[i - 1], list[i]) ELSE f[i - 1]
  BY <1>2 DEF PickedBy
<1> HIDE DEF l
<1> DEFINE From(p, m) == \A k \in 1 .. Len(p) : \E x \in 1 .. m : x \in places /\ p[k] = list[x]
           Rising(p, m) == \A j, k \in 1 .. Len(p) : j < k =>
                              \E x, y \in 1 .. m : /\ x < y /\ x \in places /\ y \in places
                                                   /\ p[j] = list[x] /\ p[k] = list[y]
           N == {m \in 0 .. l : From(f[m], m) /\ Rising(f[m], m)}
<1>4. 0 \in N
  BY <1>1, <1>3
<1>5. ASSUME NEW m \in 0 .. l - 1, m \in N
      PROVE  m + 1 \in N
  <2> DEFINE p == f[m]
             q == f[m + 1]
             e == list[m + 1]
  <2>1. /\ m + 1 \in 1 .. l /\ (m + 1) - 1 = m /\ m \in 0 .. l /\ m + 1 \in 0 .. l /\ m \in Nat
        /\ e \in S /\ p \in Seq(S)
    BY <1>1, <1>3
  <2>2. q = IF m + 1 \in places THEN Append(p, e) ELSE p
    BY <1>3, <2>1
  <2>3. From(p, m) /\ Rising(p, m)
    BY <1>5
  <2> HIDE DEF p, q, e
  <2>4. \A x \in 1 .. m : x \in 1 .. m + 1
    BY <2>1
  <2>5. CASE m + 1 \notin places
    <3>1. q = p
      BY <2>2, <2>5
    <3>2. From(q, m + 1)
      BY <2>3, <2>4, <3>1
    <3>3. Rising(q, m + 1)
      <4> SUFFICES ASSUME NEW j \in 1 .. Len(p), NEW k \in 1 .. Len(p), j < k
                   PROVE  \E x, y \in 1 .. m + 1 : /\ x < y /\ x \in places /\ y \in places
                                                   /\ p[j] = list[x] /\ p[k] = list[y]
        BY <3>1
      <4>1. PICK x \in 1 .. m, y \in 1 .. m : /\ x < y /\ x \in places /\ y \in places
                                              /\ p[j] = list[x] /\ p[k] = list[y]
        BY <2>3
      <4>2. x \in 1 .. m + 1 /\ y \in 1 .. m + 1
        BY <2>4
      <4> QED  BY <4>1, <4>2
    <3> QED  BY <2>1, <3>2, <3>3 DEF q
  <2>6. CASE m + 1 \in places
    <3>1. /\ Len(q) = Len(p) + 1 /\ Len(p) \in Nat /\ q[Len(p) + 1] = e
          /\ \A k \in 1 .. Len(p) : q[k] = p[k]
      BY <2>1, <2>2, <2>6, AppendGives
    <3>2. From(q, m + 1)
      <4> SUFFICES ASSUME NEW k \in 1 .. Len(q)
                   PROVE  \E x \in 1 .. m + 1 : x \in places /\ q[k] = list[x]
        OBVIOUS
      <4>1. CASE k \in 1 .. Len(p)
        BY <2>3, <2>4, <3>1, <4>1
      <4>2. CASE k = Len(p) + 1
        BY <2>1, <2>6, <3>1, <4>2 DEF e
      <4> QED  BY <3>1, <4>1, <4>2
    <3>3. Rising(q, m + 1)
      <4> SUFFICES ASSUME NEW j \in 1 .. Len(q), NEW k \in 1 .. Len(q), j < k
                   PROVE  \E x, y \in 1 .. m + 1 : /\ x < y /\ x \in places /\ y \in places
                                                   /\ q[j] = list[x] /\ q[k] = list[y]
        OBVIOUS
      <4>1. j \in 1 .. Len(p)
        BY <3>1
      <4>2. CASE k \in 1 .. Len(p)
        <5>1. PICK x \in 1 .. m, y \in 1 .. m : /\ x < y /\ x \in places /\ y \in places
                                                /\ p[j] = list[x] /\ p[k] = list[y]
          BY <2>3, <4>1, <4>2
        <5> QED  BY <2>4, <3>1, <4>1, <4>2, <5>1
      <4>3. CASE k = Len(p) + 1
        <5>1. PICK x \in 1 .. m : x \in places /\ p[j] = list[x]
          BY <2>3, <4>1
        <5>2. x < m + 1 /\ x \in 1 .. m + 1 /\ m + 1 \in 1 .. m + 1
          BY <2>1
        <5>3. q[j] = list[x] /\ q[k] = list[m + 1]
          BY <3>1, <4>1, <4>3, <5>1 DEF e
        <5> QED  BY <2>6, <5>1, <5>2, <5>3
      <4> QED  BY <3>1, <4>2, <4>3
    <3> QED  BY <2>1, <3>2, <3>3 DEF q
  <2> QED  BY <2>5, <2>6
<1> HIDE DEF N
<1>6. \A m \in 0 .. l : m \in N
  BY <1>1, <1>4, <1>5, UpTo
<1>7. From(f[l], l) /\ Rising(f[l], l)
  <2>1. l \in N
    BY <1>1, <1>6
  <2> HIDE DEF From, Rising
  <2> QED  BY <2>1 DEF N
<1> QED  BY <1>1, <1>3, <1>7 DEF l

(* A fragment. *)
LEMMA FlowRead ==
    ASSUME NEW K \in SUBSET ClusterLine, \A l \in K : l.length < Columns,
           NEW b \in Seq(Char), NEW a \in Seq(Seq(Char)), NEW s \in Seq(Char),
           NEW k \in 0 .. Len(s), ToCome(s, K), Flows(b, a, s, 0, K)
    PROVE  LET r == Put(b, Sanitize(SubSeq(s, 1, k)))
           IN  Flows(r.buffer, a \o Full(r.lines), s, k, K)
<1> DEFINE T(n) == Sanitize(SubSeq(s, 1, n))
           R(n) == Put(b, T(n))
           A(n) == a \o Full(R(n).lines)
           Good(n) == Flows(R(n).buffer, A(n), s, n, K)
           N == {n \in 0 .. k : Good(n)}
<1>1. /\ k \in Nat /\ SubSeq(s, 1, 0) = <<>>
      /\ \A n \in 0 .. k : SubSeq(s, 1, n) \in Seq(Char)
      /\ \A n \in 0 .. k - 1 : /\ s[n + 1] \in Char /\ n \in 0 .. Len(s) - 1
                               /\ SubSeq(s, 1, n + 1) = Append(SubSeq(s, 1, n), s[n + 1])
  BY Beginnings
<1>2. 0 \in N
  <2>1. R(0) = At(b)
    BY <1>1, NothingPicked, PutNone
  <2>2. R(0).buffer = b /\ A(0) = a
    BY <2>1, NothingPicked, JoinedLists DEF At, Beginning
  <2> HIDE DEF R, A
  <2>3. Flows(R(0).buffer, A(0), s, 0, K)
    BY <2>2
  <2> QED  BY <1>1, <2>3
<1>3. ASSUME NEW n \in 0 .. k - 1, n \in N
      PROVE  n + 1 \in N
  <2> DEFINE c == s[n + 1]
             t == T(n)
             r == R(n)
             w == A(n)
  <2>1. /\ c \in Char /\ n \in 0 .. Len(s) - 1 /\ SubSeq(s, 1, n) \in Seq(Char) /\ n + 1 \in 0 .. k
        /\ SubSeq(s, 1, n + 1) = Append(SubSeq(s, 1, n), c)
    BY <1>1
  <2>2. t \in Seq(Char) /\ T(n + 1) = IF c = CR THEN t ELSE Append(t, c)
    BY <2>1, SanitizeMore
  <2>3. Flows(r.buffer, w, s, n, K)
    BY <1>3
  <2> HIDE DEF t, c
  <2>4. r \in Assembled /\ r.buffer \in Seq(Char) /\ r.lines \in Seq(Seq(Char))
    <3>1. r \in Assembled
      BY <2>2, PutTight DEF t
    <3> HIDE DEF r
    <3> QED  BY <3>1 DEF Assembled
  <2>5. Full(r.lines) \in Seq(Seq(Char)) /\ w \in Seq(Seq(Char))
    BY <2>4, FullMore, JoinedLists
  <2>6. CASE c = CR
    <3>1. R(n + 1) = r
      BY <2>2, <2>6 DEF t
    <3>2. A(n + 1) = w
      BY <3>1
    <3> HIDE DEF r, w
    <3>3. Flows(r.buffer, w, s, n + 1, K)
      BY <2>1, <2>3, <2>4, <2>5, <2>6, FlowReturn DEF c
    <3> QED  BY <2>1, <3>1, <3>2, <3>3
  <2>7. CASE c # CR
    <3>1. R(n + 1) = Joined(r, c)
      <4>1. Put(b, Append(t, c)) = Joined(Put(b, t), c)
        BY <2>1, <2>2, PutMore
      <4>2. T(n + 1) = Append(t, c)
        BY <2>2, <2>7
      <4> HIDE DEF T
      <4> QED  BY <4>1, <4>2 DEF t
    <3>2. CASE c = NL
      <4>1. R(n + 1).buffer = <<>> /\ R(n + 1).lines = Append(r.lines, r.buffer)
        BY <3>1, <3>2 DEF Joined
      <4> DEFINE v == IF r.buffer = <<>> THEN w ELSE Append(w, r.buffer)
      <4>2. A(n + 1) = v
        <5>1. Full(Append(r.lines, r.buffer)) = IF r.buffer = <<>> THEN Full(r.lines)
                                                ELSE Append(Full(r.lines), r.buffer)
          BY <2>4, FullMore
        <5>2. a \o Append(Full(r.lines), r.buffer) = Append(a \o Full(r.lines), r.buffer)
          <6> DEFINE full == Full(r.lines)
                     e == r.buffer
                     lists == Seq(Char)
          <6>1. full \in Seq(lists) /\ e \in lists /\ a \in Seq(lists)
            BY <2>4, <2>5
          <6> HIDE DEF full, e, lists
          <6>2. a \o Append(full, e) = Append(a \o full, e)
            BY <6>1, JoinedLists
          <6> QED  BY <6>2 DEF full, e
        <5> HIDE DEF r
        <5> QED  BY <4>1, <5>1, <5>2 DEF r
      <4> HIDE DEF r, w
      <4>3. Flows(<<>>, v, s, n + 1, K)
        BY <2>1, <2>3, <2>4, <2>5, <3>2, FlowNewline DEF c
      <4> QED  BY <2>1, <4>1, <4>2, <4>3
    <3>3. CASE c # NL
      <4>1. ~(Len(r.buffer) + 1 >= Columns) /\ Flows(Append(r.buffer, c), w, s, n + 1, K)
        <5> HIDE DEF r, w
        <5> QED  BY <2>1, <2>3, <2>4, <2>5, <2>7, <3>3, FlowText DEF c
      <4>3. R(n + 1).buffer = Append(r.buffer, c) /\ R(n + 1).lines = r.lines
        <5> HIDE DEF r, R
        <5> QED  BY <3>1, <3>3, <4>1 DEF Joined
      <4>4. A(n + 1) = w
        BY <4>3
      <4> HIDE DEF r, w
      <4> QED  BY <2>1, <4>1, <4>3, <4>4
    <3> QED  BY <3>2, <3>3
  <2> QED  BY <2>6, <2>7
<1> HIDE DEF N
<1>4. \A n \in 0 .. k : n \in N
  BY <1>1, <1>2, <1>3, UpTo
<1>5. Good(k)
  BY <1>1, <1>4 DEF N
<1> QED  BY <1>5

(* What is left of the stream. *)
LEMMA FlowRest ==
    ASSUME NEW K \in SUBSET ClusterLine, NEW b \in Seq(Char), NEW a \in Seq(Seq(Char)), NEW s \in Seq(Char),
           NEW k \in 0 .. Len(s), ToCome(s, K), Flows(b, a, s, k, K)
    PROVE  ToCome(SubSeq(s, k + 1, Len(s)), K) /\ Flows(b, a, SubSeq(s, k + 1, Len(s)), 0, K)
<1> DEFINE u == SubSeq(s, k + 1, Len(s))
           n == Len(s)
<1>1. n \in Nat /\ k \in Nat
  OBVIOUS
<1>2. /\ Len(u) = n - k /\ \A p \in 1 .. n - k : u[p] = s[k + p]
  <2>1. k + 1 \in 1 .. n + 1 /\ n \in (k + 1) - 1 .. n
    BY <1>1
  <2>2. Len(u) = n - (k + 1) + 1 /\ \A p \in 1 .. n - (k + 1) + 1 : u[p] = s[(k + 1) + p - 1]
    BY <2>1, SubSeqGives
  <2>3. n - (k + 1) + 1 = n - k /\ \A p \in 1 .. n - k : (k + 1) + p - 1 = k + p
    BY <1>1
  <2> HIDE DEF u, n
  <2> QED  BY <2>2, <2>3
<1> HIDE DEF u, n
<1>3. /\ \A p \in 1 .. n - k : k + p \in 1 .. n /\ (p < n - k <=> k + p < n) /\ k + (p + 1) = (k + p) + 1
                               /\ k + p \in k + 1 .. n
      /\ \A p \in 1 .. n - k : p < n - k => p + 1 \in 1 .. n - k
      /\ \A p, q \in 1 .. n - k : q \in p + 1 .. n - k => k + q \in (k + p) + 1 .. n
  BY <1>1 DEF n
<1>4. ToCome(u, K)
  <2>1. ASSUME NEW p \in 1 .. n - k
        PROVE  \/ u[p] = NL /\ (p < n - k => Starts(u[p + 1]))
               \/ u[p] = CR /\ p < n - k /\ u[p + 1] = NL
               \/ /\ p < n - k /\ u[p][1] \in K /\ u[p][2] \in 1 .. u[p][1].length
                  /\ u[p] = <<u[p][1], u[p][2]>>
                  /\ u[p + 1] = IF u[p][2] < u[p][1].length THEN <<u[p][1], u[p][2] + 1>> ELSE CR
    <3> DEFINE P == k + p
    <3>1. P \in 1 .. n /\ u[p] = s[P] /\ (p < n - k <=> P < n) /\ (p < n - k => u[p + 1] = s[P + 1])
      BY <1>2, <1>3
    <3> HIDE DEF P
    <3>2. \/ s[P] = NL /\ (P < n => Starts(s[P + 1]))
          \/ s[P] = CR /\ P < n /\ s[P + 1] = NL
          \/ /\ P < n /\ s[P][1] \in K /\ s[P][2] \in 1 .. s[P][1].length
             /\ s[P] = <<s[P][1], s[P][2]>>
             /\ s[P + 1] = IF s[P][2] < s[P][1].length THEN <<s[P][1], s[P][2] + 1>> ELSE CR
      BY <3>1 DEF ToCome, n
    <3> QED  BY <3>1, <3>2
  <2>2. ASSUME NEW p \in 1 .. n - k, NEW q \in p + 1 .. n - k, IsText(u[p]), IsStart(u[q])
        PROVE  u[p][1].nr < u[q][1].nr
    <3>1. q \in 1 .. n - k
      BY <1>1
    <3>2. u[p] = s[k + p] /\ u[q] = s[k + q] /\ k + p \in 1 .. n /\ k + q \in (k + p) + 1 .. n
      BY <1>2, <1>3, <3>1
    <3> QED  BY <2>2, <3>2 DEF ToCome, n
  <2> QED  BY <1>2, <2>1, <2>2 DEF ToCome
<1>5. ASSUME NEW p \in 1 .. n - k
      PROVE  u[p] = s[k + p] /\ k + p \in k + 1 .. n
  BY <1>2, <1>3
<1>10. \A p \in 0 + 1 .. Len(u) : p \in 1 .. n - k
  BY <1>1, <1>2
<1>6. Ahead(a, u, 0) /\ Whole(a, K)
  BY <1>5, <1>10 DEF Flows, Ahead, n
<1>7. k < n => u[0 + 1] = s[k + 1] /\ 0 < n - k
  BY <1>1, <1>2
<1>8. CASE Between(b, s, k)
  <2>1. 0 < Len(u) => k < n
    BY <1>1, <1>2
  <2>2. Between(b, u, 0)
    BY <1>7, <1>8, <2>1 DEF Between, n
  <2> QED  BY <1>4, <1>6, <2>2 DEF Flows, u, n
<1>9. CASE Within(b, a, s, k, K)
  <2>1. PICK l \in K :
        /\ Len(b) \in 1 .. l.length /\ \A i \in 1 .. Len(b) : b[i] = <<l, i>>
        /\ k < n
        /\ IF Len(b) < l.length THEN s[k + 1] = <<l, Len(b) + 1>> ELSE s[k + 1] \in {CR, NL}
        /\ \A p \in k + 1 .. Len(s) : IsStart(s[p]) => l.nr < s[p][1].nr
        /\ \A x \in 1 .. Len(a) : OfCluster(a[x]) => First(a[x]).nr < l.nr
    BY <1>9 DEF Within, n
  <2>2. \A p \in 0 + 1 .. Len(u) : IsStart(u[p]) => l.nr < u[p][1].nr
    BY <1>5, <1>10, <2>1 DEF n
  <2>3. Within(b, a, u, 0, K)
    BY <1>2, <1>7, <2>1, <2>2 DEF Within
  <2> QED  BY <1>4, <1>6, <2>3 DEF Flows, u, n
<1> QED  BY <1>8, <1>9 DEF Flows

(* The line of the characters of a line.                                    *)
LEMMA FirstOf ==
    ASSUME NEW l \in ClusterLine, l.length > 0
    PROVE  First(Cells(l)) = l
<1>1. Cells(l)[1] = <<l, 1>>
  <2>1. 1 \in 1 .. l.length
    BY CellsAre
  <2> QED  BY <2>1, CellsAre
<1> QED  BY <1>1, Characters DEF First

(* A line more is sent. *)
LEMMA FlowMore ==
    ASSUME NEW K \in SUBSET ClusterLine, NEW l \in ClusterLine, \A m \in K : m.nr < l.nr,
           NEW b \in Seq(Char), NEW a \in Seq(Seq(Char)), NEW s \in Seq(Char),
           ToCome(s, K), Flows(b, a, s, 0, K)
    PROVE  /\ ToCome(s \o FromCluster(l), K \cup {l})
           /\ Flows(b, a, s \o FromCluster(l), 0, K \cup {l})
<1> DEFINE n == Len(s)
           t == FromCluster(l)
           u == s \o t
           h == l.length
           J == K \cup {l}
<1>1. n \in Nat /\ h \in Nat /\ l.nr \in Nat
  BY DEF ClusterLine
<1>2. /\ t \in Seq(Char) /\ Len(t) = h + 2 /\ t[h + 1] = CR /\ t[h + 2] = NL
      /\ \A i \in 1 .. h : t[i] = <<l, i>>
  <2> DEFINE c == Cells(l)
  <2>1. c \in Seq(Char) /\ Len(c) = h /\ \A i \in 1 .. h : c[i] = <<l, i>>
    BY CellsAre
  <2> HIDE DEF c
  <2>2. <<CR, NL>> \in Seq(Char) /\ Len(<<CR, NL>>) = 2
    BY DEF Char
  <2>3. t = c \o <<CR, NL>>
    BY DEF FromCluster, c
  <2> HIDE DEF t, h
  <2>4. /\ t \in Seq(Char) /\ Len(t) = h + 2
        /\ \A i \in 1 .. h : t[i] = <<l, i>>
        /\ \A i \in 1 .. 2 : t[h + i] = <<CR, NL>>[i]
    BY <2>1, <2>2, <2>3, JoinedLists
  <2> QED  BY <2>4
<1>3. /\ u \in Seq(Char) /\ Len(u) = n + (h + 2)
      /\ \A p \in 1 .. n : u[p] = s[p]
      /\ \A i \in 1 .. h + 2 : u[n + i] = t[i]
  <2> HIDE DEF t, h
  <2>1. t \in Seq(Char) /\ Len(t) = h + 2
    BY <1>2
  <2>2. /\ s \o t \in Seq(Char) /\ Len(s \o t) = Len(s) + Len(t)
        /\ \A p \in 1 .. Len(s) : (s \o t)[p] = s[p]
        /\ \A i \in 1 .. Len(t) : (s \o t)[Len(s) + i] = t[i]
    BY <2>1, JoinedLists
  <2> QED  BY <2>1, <2>2
<1> HIDE DEF u, t, h, n
<1>4. \A i \in 1 .. h : u[n + i] = <<l, i>> /\ u[n + i][1] = l /\ u[n + i][2] = i
  BY <1>1, <1>2, <1>3
<1>5. u[n + (h + 1)] = CR /\ u[n + (h + 2)] = NL
  BY <1>1, <1>2, <1>3
<1>6. Starts(u[n + 1])
  <2>1. CASE h = 0
    BY <1>5, <2>1 DEF Starts
  <2>2. CASE h > 0
    <3>1. u[n + 1] = <<l, 1>>
      BY <1>1, <1>4, <2>2
    <3> QED  BY <3>1, Characters DEF Starts
  <2> QED  BY <1>1, <2>1, <2>2
<1>7. \A p \in n + 1 .. n + (h + 2) : IsStart(u[p]) => u[p][1] = l
  <2> TAKE p \in n + 1 .. n + (h + 2)
  <2>1. CASE p = n + (h + 1) \/ p = n + (h + 2)
    BY <1>5, <2>1, Characters
  <2>2. CASE p < n + (h + 1)
    <3>1. p - n \in 1 .. h /\ n + (p - n) = p
      BY <1>1, <2>2
    <3> QED  BY <1>4, <3>1
  <2> QED  BY <1>1, <2>1, <2>2
<1>8. \A p \in 1 .. n : p < n => u[p + 1] = s[p + 1]
  BY <1>1, <1>3
<1>9. ASSUME NEW p \in 1 .. n + (h + 2)
      PROVE  \/ u[p] = NL /\ (p < n + (h + 2) => Starts(u[p + 1]))
             \/ u[p] = CR /\ p < n + (h + 2) /\ u[p + 1] = NL
             \/ /\ p < n + (h + 2) /\ u[p][1] \in J /\ u[p][2] \in 1 .. u[p][1].length
                /\ u[p] = <<u[p][1], u[p][2]>>
                /\ u[p + 1] = IF u[p][2] < u[p][1].length THEN <<u[p][1], u[p][2] + 1>> ELSE CR
  <2>1. CASE p \in 1 .. n
    <3>1. \/ s[p] = NL /\ (p < n => Starts(s[p + 1]))
          \/ s[p] = CR /\ p < n /\ s[p + 1] = NL
          \/ /\ p < n /\ s[p][1] \in K /\ s[p][2] \in 1 .. s[p][1].length
             /\ s[p] = <<s[p][1], s[p][2]>>
             /\ s[p + 1] = IF s[p][2] < s[p][1].length THEN <<s[p][1], s[p][2] + 1>> ELSE CR
      BY <2>1 DEF ToCome, n
    <3>2. u[p] = s[p] /\ p < n + (h + 2) /\ (p < n => u[p + 1] = s[p + 1])
      BY <1>1, <1>3, <1>8, <2>1
    <3>3. p < n \/ p = n
      BY <1>1, <2>1
    <3> QED  BY <1>6, <3>1, <3>2, <3>3
  <2>2. CASE p \in n + 1 .. n + h
    <3> DEFINE i == p - n
    <3>1. i \in 1 .. h /\ n + i = p /\ p < n + (h + 2)
      BY <1>1, <2>2
    <3> HIDE DEF i
    <3>2. u[p] = <<l, i>> /\ u[p][1] = l /\ u[p][2] = i /\ l \in J
      BY <1>4, <3>1
    <3>3. CASE i < h
      <4>1. i + 1 \in 1 .. h /\ n + (i + 1) = p + 1
        BY <1>1, <3>1, <3>3
      <4>2. u[p + 1] = <<l, i + 1>>
        BY <1>4, <4>1
      <4> QED  BY <3>1, <3>2, <3>3, <4>2 DEF h
    <3>4. CASE i = h
      <4>1. n + (h + 1) = p + 1
        BY <1>1, <3>1, <3>4
      <4>2. u[p + 1] = CR /\ ~(i < l.length)
        BY <1>1, <1>5, <3>4, <4>1 DEF h
      <4> QED  BY <3>1, <3>2, <4>2 DEF h
    <3> QED  BY <1>1, <3>1, <3>3, <3>4
  <2>3. CASE p = n + (h + 1)
    <3>1. p + 1 = n + (h + 2) /\ p < n + (h + 2)
      BY <1>1, <2>3
    <3> QED  BY <1>5, <2>3, <3>1
  <2>4. CASE p = n + (h + 2)
    <3>1. ~(p < n + (h + 2))
      BY <1>1, <2>4
    <3> QED  BY <1>5, <2>4, <3>1
  <2> QED  BY <1>1, <2>1, <2>2, <2>3, <2>4
<1>10. ASSUME NEW p \in 1 .. n + (h + 2), NEW q \in p + 1 .. n + (h + 2), IsText(u[p]), IsStart(u[q])
       PROVE  u[p][1].nr < u[q][1].nr
  <2>1. CASE q \in 1 .. n
    <3>1. p \in 1 .. n /\ q \in p + 1 .. n
      BY <1>1, <2>1
    <3> QED  BY <1>3, <1>10, <2>1, <3>1 DEF ToCome, n
  <2>2. CASE q > n
    <3>1. u[q][1] = l /\ q \in n + 1 .. n + (h + 2)
      <4>1. q \in n + 1 .. n + (h + 2)
        BY <1>1, <2>2
      <4> QED  BY <1>7, <1>10, <4>1
    <3>2. CASE p \in 1 .. n
      <4>1. u[p] = s[p] /\ s[p] # NL /\ s[p] # CR
        BY <1>3, <1>10, <3>2, Characters
      <4>2. s[p][1] \in K
        BY <3>2, <4>1 DEF ToCome, n
      <4> QED  BY <3>1, <4>1, <4>2
    <3>3. CASE p > n
      <4>1. q - n \in 2 .. h + 2 /\ n + (q - n) = q
        BY <1>1, <1>10, <3>3
      <4>2. CASE q - n \in 1 .. h
        <5>1. u[q][2] = q - n
          BY <1>4, <4>1, <4>2
        <5> QED  BY <1>10, <4>1, <5>1 DEF IsStart
      <4>3. CASE q = n + (h + 1) \/ q = n + (h + 2)
        BY <1>5, <1>10, <4>3, Characters
      <4>4. q - n \in 1 .. h \/ q - n = h + 1 \/ q - n = h + 2
        BY <1>1, <4>1
      <4>5. q = n + (h + 1) \/ q = n + (h + 2) \/ q - n \in 1 .. h
        BY <4>1, <4>4
      <4> QED  BY <4>2, <4>3, <4>5
    <3> QED  BY <1>1, <3>2, <3>3
  <2> QED  BY <1>1, <2>1, <2>2
<1>11. ToCome(u, J)
  BY <1>3, <1>9, <1>10 DEF ToCome
<1>12. Whole(a, K) /\ Ahead(a, s, 0)
  BY DEF Flows
<1>13. Whole(a, J)
  BY <1>12 DEF Whole
<1>14. ASSUME NEW p \in 0 + 1 .. n + (h + 2), IsStart(u[p])
       PROVE  (p \in 0 + 1 .. n /\ u[p] = s[p]) \/ u[p][1] = l
  <2>1. p \in 0 + 1 .. n \/ p \in n + 1 .. n + (h + 2)
    BY <1>1
  <2> QED  BY <1>3, <1>7, <1>14, <2>1
<1>15. Ahead(a, u, 0)
  <2> SUFFICES ASSUME NEW x \in 1 .. Len(a), NEW p \in 0 + 1 .. n + (h + 2), OfCluster(a[x]), IsStart(u[p])
               PROVE  First(a[x]).nr < u[p][1].nr
    BY <1>3 DEF Ahead
  <2>1. CASE p \in 0 + 1 .. n /\ u[p] = s[p]
    BY <1>12, <2>1 DEF Ahead, n
  <2>2. CASE u[p][1] = l
    <3>1. PICK m \in K : m.length > 0 /\ a[x] = Cells(m)
      BY <1>12 DEF Whole
    <3>2. First(a[x]) = m
      BY <3>1, FirstOf
    <3> QED  BY <2>2, <3>2
  <2> QED  BY <1>14, <2>1, <2>2
<1>16. CASE Between(b, s, 0)
  <2>1. n > 0 => u[0 + 1] = s[0 + 1]
    <3>1. 0 + 1 = 1 /\ (n > 0 => 1 \in 1 .. n)
      BY <1>1
    <3>2. n > 0 => u[1] = s[1]
      BY <1>3, <3>1
    <3> QED  BY <3>1, <3>2
  <2>2. n = 0 => u[0 + 1] = u[n + 1]
    BY <1>1
  <2>3. b = <<>> /\ (u[0 + 1] = NL \/ Starts(u[0 + 1]))
    BY <1>1, <1>6, <1>16, <2>1, <2>2 DEF Between, n
  <2>4. Between(b, u, 0)
    BY <2>3 DEF Between
  <2> QED  BY <1>11, <1>13, <1>15, <2>4 DEF Flows, u, t
<1>17. CASE Within(b, a, s, 0, K)
  <2>1. PICK m \in K :
        /\ Len(b) \in 1 .. m.length /\ \A i \in 1 .. Len(b) : b[i] = <<m, i>>
        /\ 0 < n
        /\ IF Len(b) < m.length THEN s[0 + 1] = <<m, Len(b) + 1>> ELSE s[0 + 1] \in {CR, NL}
        /\ \A p \in 0 + 1 .. n : IsStart(s[p]) => m.nr < s[p][1].nr
        /\ \A x \in 1 .. Len(a) : OfCluster(a[x]) => First(a[x]).nr < m.nr
    BY <1>17 DEF Within, n
  <2>2. u[0 + 1] = s[0 + 1] /\ 0 < n + (h + 2) /\ m \in J /\ m.nr < l.nr
    BY <1>1, <1>3, <2>1
  <2>3. \A p \in 0 + 1 .. n + (h + 2) : IsStart(u[p]) => m.nr < u[p][1].nr
    BY <1>14, <2>1, <2>2
  <2>4. Within(b, a, u, 0, J)
    BY <1>3, <2>1, <2>2, <2>3 DEF Within
  <2> QED  BY <1>11, <1>13, <1>15, <2>4 DEF Flows, u, t
<1> QED  BY <1>16, <1>17 DEF Flows

-----------------------------------------------------------------------------
(* Text of TLF itself.                                                     *)

TlfChar == {c \in ClusterLine \X Nat : c[1].kind = "tlf"}

(* TLF's own text splits into lines of its own.                             *)
LEMMA TlfSplit ==
    ASSUME NEW s \in Seq(TlfChar \cup {NL})
    PROVE  s \in Seq(Char) /\ Put(<<>>, s).buffer \in Seq(TlfChar) /\ Put(<<>>, s).lines \in Seq(Seq(TlfChar))
<1> DEFINE R(n) == Put(<<>>, SubSeq(s, 1, n))
           N == {n \in 0 .. Len(s) : R(n).buffer \in Seq(TlfChar) /\ R(n).lines \in Seq(Seq(TlfChar))}
<1>1. TlfChar \cup {NL} \subseteq Char
  BY DEF TlfChar, Char
<1>2. s \in Seq(Char) /\ <<>> \in Seq(Char)
  BY <1>1
<1>3. /\ Len(s) \in Nat /\ SubSeq(s, 1, 0) = <<>> /\ SubSeq(s, 1, Len(s)) = s
      /\ \A n \in 0 .. Len(s) : SubSeq(s, 1, n) \in Seq(Char)
      /\ \A n \in 0 .. Len(s) - 1 : /\ s[n + 1] \in Char
                                    /\ SubSeq(s, 1, n + 1) = Append(SubSeq(s, 1, n), s[n + 1])
  BY <1>2, Beginnings
<1>4. \A n \in 0 .. Len(s) - 1 : s[n + 1] \in TlfChar \cup {NL}
  BY Beginnings
<1>5. 0 \in N
  <2>1. R(0) = At(<<>>)
    BY <1>2, <1>3, PutNone
  <2>2. R(0).buffer = <<>> /\ R(0).lines = <<>>
    BY <2>1 DEF At, Beginning
  <2> HIDE DEF R
  <2>3. R(0).buffer \in Seq(TlfChar) /\ R(0).lines \in Seq(Seq(TlfChar))
    BY <2>2, NothingIn
  <2> QED  BY <1>3, <2>3
<1>6. ASSUME NEW n \in 0 .. Len(s) - 1, n \in N
      PROVE  n + 1 \in N
  <2> DEFINE r == R(n)
             c == s[n + 1]
  <2>1. R(n + 1) = Joined(r, c) /\ r \in Assembled
    <3> DEFINE t == SubSeq(s, 1, n)
    <3>1. t \in Seq(Char) /\ c \in Char /\ SubSeq(s, 1, n + 1) = Append(t, c)
      BY <1>3
    <3> HIDE DEF t, c
    <3>2. Put(<<>>, Append(t, c)) = Joined(Put(<<>>, t), c)
      BY <1>2, <3>1, PutMore
    <3>3. Put(<<>>, t) \in Assembled
      BY <1>2, <3>1, PutTight
    <3> QED  BY <3>1, <3>2, <3>3 DEF t
  <2>2. r.buffer \in Seq(TlfChar) /\ r.lines \in Seq(Seq(TlfChar)) /\ c \in TlfChar \cup {NL} /\ n + 1 \in 0 .. Len(s)
    BY <1>3, <1>4, <1>6
  <2> HIDE DEF r, c, R
  <2>3. CASE c = NL \/ Len(r.buffer) + 1 >= Columns
    <3>1. R(n + 1).buffer = <<>> /\ R(n + 1).lines = Append(r.lines, r.buffer)
      BY <2>1, <2>3 DEF Joined
    <3>2. Append(r.lines, r.buffer) \in Seq(Seq(TlfChar)) /\ <<>> \in Seq(TlfChar)
      BY <2>2, AppendGives
    <3> QED  BY <2>2, <3>1, <3>2
  <2>4. CASE ~(c = NL \/ Len(r.buffer) + 1 >= Columns)
    <3>2. R(n + 1).buffer = Append(r.buffer, c) /\ R(n + 1).lines = r.lines
      BY <2>1, <2>4 DEF Joined
    <3>3. Append(r.buffer, c) \in Seq(TlfChar)
      BY <2>2, <2>4, AppendGives
    <3> QED  BY <2>2, <3>2, <3>3
  <2> QED  BY <2>3, <2>4
<1> HIDE DEF N
<1>7. \A n \in 0 .. Len(s) : n \in N
  BY <1>3, <1>5, <1>6, UpTo
<1>8. Len(s) \in N
  BY <1>3, <1>7
<1> QED  BY <1>2, <1>3, <1>8 DEF N

(* It disturbs nothing between two lines. *)
LEMMA FlowTlf ==
    ASSUME NEW K \in SUBSET ClusterLine, NEW a \in Seq(Seq(Char)), NEW s \in Seq(Char),
           NEW lines \in Seq(Seq(TlfChar)), Flows(<<>>, a, s, 0, K)
    PROVE  Flows(<<>>, a \o Full(lines), s, 0, K)
<1> DEFINE t == Full(lines)
           w == a \o t
           P == {i \in DOMAIN lines : lines[i] # <<>>}
<1>1. /\ t \in Seq(Seq(TlfChar))
      /\ \A k \in 1 .. Len(t) : \E x \in 1 .. Len(lines) : x \in P /\ t[k] = lines[x]
  <2> DEFINE S == Seq(TlfChar)
  <2>1. lines \in Seq(S)
    OBVIOUS
  <2> HIDE DEF P, S
  <2>2. /\ Picked(lines, P) \in Seq(S)
        /\ \A k \in 1 .. Len(Picked(lines, P)) :
              \E x \in 1 .. Len(lines) : x \in P /\ Picked(lines, P)[k] = lines[x]
    BY <2>1, PickedFrom
  <2>3. t = Picked(lines, P)
    BY DEF Full, P
  <2> QED  BY <2>2, <2>3 DEF S
<1>2. \A k \in 1 .. Len(t) : t[k] # <<>> /\ t[k] \in Seq(TlfChar)
  BY <1>1, ElementsOf
<1> HIDE DEF t
<1>3. \A k \in 1 .. Len(t) : ~OfCluster(t[k])
  <2> TAKE k \in 1 .. Len(t)
  <2>1. t[k][1] \in TlfChar
    BY <1>2
  <2> QED  BY <2>1 DEF TlfChar, OfCluster, First
<1>4. t \in Seq(Seq(Char))
  <2>1. TlfChar \subseteq Char
    BY DEF TlfChar, Char
  <2>2. \A k \in 1 .. Len(t) : t[k] \in Seq(Char)
    BY <1>2, <2>1
  <2>3. Len(t) \in Nat /\ t = [k \in 1 .. Len(t) |-> t[k]]
    BY <1>1
  <2>4. [k \in 1 .. Len(t) |-> t[k]] \in Seq(Seq(Char))
    BY <2>2, <2>3
  <2> QED  BY <2>3, <2>4
<1>5. /\ Len(w) = Len(a) + Len(t) /\ Len(a) \in Nat /\ Len(t) \in Nat
      /\ \A i \in 1 .. Len(a) : w[i] = a[i]
      /\ \A i \in 1 .. Len(t) : w[Len(a) + i] = t[i]
  BY <1>4, JoinedLists, ElementsOf
<1> HIDE DEF w
<1>6. \A x \in 1 .. Len(w) : OfCluster(w[x]) => x \in 1 .. Len(a) /\ w[x] = a[x]
  <2> TAKE x \in 1 .. Len(w)
  <2>1. CASE x \in 1 .. Len(a)
    BY <1>5, <2>1
  <2>2. CASE x > Len(a)
    <3>1. x - Len(a) \in 1 .. Len(t) /\ Len(a) + (x - Len(a)) = x
      BY <1>5, <2>2
    <3> QED  BY <1>3, <1>5, <3>1
  <2> QED  BY <1>5, <2>1, <2>2
<1>7. Between(<<>>, s, 0)
  <2>1. CASE Within(<<>>, a, s, 0, K)
    BY <2>1 DEF Within
  <2> QED  BY <2>1 DEF Flows
<1>8. Whole(w, K)
  <2>1. Whole(a, K)
    BY DEF Flows
  <2> QED  BY <1>6, <2>1 DEF Whole
<1>9. Ahead(w, s, 0)
  <2>1. Ahead(a, s, 0)
    BY DEF Flows
  <2> QED  BY <1>6, <2>1 DEF Ahead
<1> QED  BY <1>7, <1>8, <1>9 DEF Flows, w, t

Sent == {station.lines[j] : j \in 1 .. said}

\* The two threads are never in addtext() together, and the packet window is the only place in_packetclient
\* keeps the background thread from reading.  Before the first text of TLF nothing is read.
Apart ==
    /\ background \notin {"spot", "message"} /\ screen \notin {"spot", "sending"}
    /\ background = "packet" => end.background = Len(buffer) /\ ~in_packetclient
    /\ screen \in {"entering", "welcome", "window", "reading"} => in_packetclient
    /\ screen \in {"welcome", "reading"} => end.screen = Len(buffer)
    /\ screen = "welcome" => log = <<>>
    /\ log = <<>> => /\ screen \notin {"window", "reading"} /\ background # "packet"
                     /\ in_packetclient \/ prsock # "open"

\* What was read is whole lines and the beginning of the next one, what is to come the rest of it and
\* whole lines.
FlowInv ==
    OneSource =>
        /\ said <= Len(station.lines) /\ Apart
        /\ log = <<>> => buffer = <<>>
        /\ ToCome(stream, Sent)
        /\ Flows(buffer, added, stream, 0, Sent)

(* No line is for this station: nothing is changed in the text. *)
LEMMA QuietText ==
    ASSUME NEW s \in Seq(Char),
           \A k \in 1 .. Len(s) : IsText(s[k]) => s[k][1].kind \notin {"talk", "private"}
    PROVE  Private(s) = s
<1>1. ~Begins(s, {"talk", "private"})
  <2>1. s # <<>> => 1 \in 1 .. Len(s)
    OBVIOUS
  <2> QED  BY <2>1 DEF Begins, First
<1> QED  BY <1>1 DEF Private

(* What the cluster has sent.                                               *)
LEMMA SentLines ==
    ASSUME ClusterInv, FlowInv, OneSource
    PROVE  /\ Sent \in SUBSET ClusterLine
           /\ \A l \in Sent : l.length < Columns /\ l.kind \notin {"talk", "private"}
<1>1. /\ station.lines \in Seq(ClusterLine) /\ said <= Len(station.lines) /\ said \in Nat
  BY StationAssumption DEF ClusterInv, FlowInv
<1>2. /\ \A j \in 1 .. said : j \in 1 .. Len(station.lines)
      /\ \A j \in 1 .. Len(station.lines) : station.lines[j] \in ClusterLine
      /\ DOMAIN station.lines = 1 .. Len(station.lines)
  BY <1>1, ElementsOf
<1>3. \A j \in 1 .. said : /\ station.lines[j] \in ClusterLine /\ station.lines[j].length < Columns
                           /\ station.lines[j].kind \notin {"talk", "private"}
  BY <1>2 DEF OneSource
<1> QED  BY <1>3 DEF Sent

(* None of a fragment is private.                                           *)
LEMMA QuietRead ==
    ASSUME NEW K \in SUBSET ClusterLine, \A l \in K : l.kind \notin {"talk", "private"},
           NEW s \in Seq(Char), ToCome(s, K), NEW k \in 0 .. Len(s)
    PROVE  Private(Sanitize(SubSeq(s, 1, k))) = Sanitize(SubSeq(s, 1, k))
<1> DEFINE t == SubSeq(s, 1, k)
           P == {i \in DOMAIN t : t[i] # CR}
           u == Sanitize(t)
<1>1. k \in Nat /\ Len(s) \in Nat /\ k <= Len(s)
  OBVIOUS
<1>2. t \in Seq(Char) /\ Len(t) = k /\ \A i \in 1 .. k : t[i] = s[i] /\ i \in 1 .. Len(s)
  BY <1>1
<1> HIDE DEF t
<1>3. u \in Seq(Char) /\ \A j \in 1 .. Len(u) : \E i \in 1 .. Len(t) : u[j] = t[i]
  <2> HIDE DEF P
  <2>1. /\ Picked(t, P) \in Seq(Char)
        /\ \A j \in 1 .. Len(Picked(t, P)) : \E i \in 1 .. Len(t) : i \in P /\ Picked(t, P)[j] = t[i]
    BY <1>2, PickedFrom
  <2>2. u = Picked(t, P)
    BY DEF Sanitize, P
  <2> HIDE DEF u
  <2> QED  BY <2>1, <2>2
<1> HIDE DEF u
<1>4. \A i \in 1 .. Len(s) : IsText(s[i]) => s[i][1].kind \notin {"talk", "private"}
  <2> TAKE i \in 1 .. Len(s)
  <2>1. s[i] = NL \/ s[i] = CR \/ s[i][1] \in K
    BY DEF ToCome
  <2> QED  BY <2>1, Characters
<1>5. \A j \in 1 .. Len(u) : IsText(u[j]) => u[j][1].kind \notin {"talk", "private"}
  <2> TAKE j \in 1 .. Len(u)
  <2>1. PICK i \in 1 .. Len(t) : u[j] = t[i]
    BY <1>3
  <2>2. u[j] = s[i] /\ i \in 1 .. Len(s)
    BY <1>2, <2>1
  <2> QED  BY <1>4, <2>2
<1>6. Private(u) = u
  BY <1>3, <1>5, QuietText
<1> QED  BY <1>6 DEF u, t

(* A fragment, in the invariant. *)
LEMMA ReadFlows ==
    ASSUME ClusterInv, FlowInv, OneSource, NEW k \in Fragments, NEW v, NEW quiet,
           NEW thread \in {"screen", "background"}, end[thread] = Len(buffer),
           AddTextAs(thread, Sanitize(SubSeq(stream, 1, k)), v, quiet),
           stream' = SubSeq(stream, k + 1, Len(stream)), UNCHANGED cleared
    PROVE  /\ ToCome(stream', Sent) /\ Flows(buffer', added', stream', 0, Sent)
           /\ log # <<>> => log' # <<>>
<1> DEFINE s == Sanitize(SubSeq(stream, 1, k))
           r == Put(buffer, s)
<1>1. k \in 0 .. Len(stream) /\ stream \in Seq(Char) /\ buffer \in Seq(Char) /\ added \in Seq(Seq(Char))
      /\ s \in Seq(Char)
  BY StreamRead DEF ClusterInv, TableInv
<1>2. ToCome(stream, Sent) /\ Flows(buffer, added, stream, 0, Sent)
  BY DEF FlowInv
<1>3. Private(s) = s
  BY <1>1, <1>2, SentLines, QuietRead
<1>4. Flows(r.buffer, added \o Full(r.lines), stream, k, Sent)
  BY <1>1, <1>2, SentLines, FlowRead
<1>5. /\ buffer' = r.buffer /\ added' = added \o Full(r.lines) /\ (log # <<>> => log' # <<>>)
      /\ buffer' \in Seq(Char) /\ added' \in Seq(Seq(Char))
  <2>1. /\ buffer' \in Seq(Char) /\ TableInv'
        /\ buffer' = Put(buffer, Private(s)).buffer
        /\ added' = added \o Full(Put(buffer, Private(s)).lines)
        /\ (log # <<>> => log' # <<>>)
    BY <1>1, TextAdded DEF Put
  <2> HIDE DEF s
  <2> QED  BY <1>3, <2>1 DEF TableInv
<1> HIDE DEF r
<1>6. Flows(buffer', added', stream, k, Sent)
  BY <1>4, <1>5
<1> QED  BY <1>1, <1>2, <1>5, <1>6, SentLines, FlowRest

(* TLF's own text is whole lines, and the first text is not empty. *)
LEMMA OwnText ==
    /\ Welcome \in Seq(TlfChar \cup {NL}) /\ Welcome \o LoggedIn \in Seq(TlfChar \cup {NL})
    /\ \A s \in {Welcome, Welcome \o LoggedIn} :
          /\ Private(s) = s
          /\ Put(<<>>, s).buffer = <<>> /\ Put(<<>>, s).lines # <<>>
          /\ Put(<<>>, s).lines \in Seq(Seq(TlfChar))
<1> DEFINE S == TlfChar \cup {NL}
<1>1. S \subseteq Char /\ NL \in S /\ CR \notin S
  BY Characters DEF TlfChar, Char, NL, CR
<1>2. \A nr \in {0, 1} : Ended(LineOf(nr, "tlf", 1)) \in Seq(S)
  <2> TAKE nr \in {0, 1}
  <2> DEFINE l == LineOf(nr, "tlf", 1)
  <2>1. l \in ClusterLine /\ l.length = 1 /\ l.kind = "tlf"
    BY OwnLines DEF LineOf
  <2>2. \A i \in 1 .. 1 : <<l, i>> \in S
    BY <2>1 DEF TlfChar
  <2>3. Cells(l) = [i \in 1 .. 1 |-> <<l, i>>]
    BY <2>1 DEF Cells
  <2> HIDE DEF l, S
  <2>4. Cells(l) \in Seq(S)
    BY <2>2, <2>3
  <2>5. Append(Cells(l), NL) \in Seq(S)
    BY <1>1, <2>4, AppendGives
  <2> QED  BY <2>5 DEF Ended, l
<1>3. <<NL>> \in Seq(S)
  BY <1>1
<1> DEFINE e0 == Ended(LineOf(0, "tlf", 1))
           e1 == Ended(LineOf(1, "tlf", 1))
<1>4. e0 \in Seq(S) /\ e1 \in Seq(S)
  BY <1>2
<1> HIDE DEF S
<1>5. /\ <<NL>> = Append(<<>>, NL) /\ <<>> \in Seq(S)
  BY NothingIn
<1>6. \A t \in Seq(S) : t \o <<NL>> = Append(t, NL)
  BY <1>1
<1>7. Welcome = Append(e0, NL) /\ LoggedIn = Append(e1, NL)
  BY <1>4, <1>6 DEF Welcome, LoggedIn
<1> HIDE DEF e0, e1
<1>8. Welcome \in Seq(S) /\ Welcome \o LoggedIn = Append(Welcome \o e1, NL) /\ Welcome \o e1 \in Seq(S)
  <2>1. Welcome \in Seq(S)
    BY <1>1, <1>4, <1>7, AppendGives
  <2>2. Welcome \o e1 \in Seq(S) /\ Welcome \o Append(e1, NL) = Append(Welcome \o e1, NL)
    BY <1>1, <1>4, <2>1, JoinedLists
  <2> QED  BY <1>7, <2>1, <2>2
<1>9. ASSUME NEW t \in Seq(S)
      PROVE  /\ Append(t, NL) \in Seq(S)
             /\ Private(Append(t, NL)) = Append(t, NL)
             /\ Put(<<>>, Append(t, NL)).buffer = <<>> /\ Put(<<>>, Append(t, NL)).lines # <<>>
             /\ Put(<<>>, Append(t, NL)).lines \in Seq(Seq(TlfChar))
  <2> DEFINE s == Append(t, NL)
  <2>1. s \in Seq(S) /\ t \in Seq(Char) /\ s \in Seq(Char)
    BY <1>1, AppendGives
  <2>2. Private(s) = s
    <3>1. \A k \in 1 .. Len(s) : s[k] \in S
      BY <2>1, ElementsOf
    <3>2. \A k \in 1 .. Len(s) : IsText(s[k]) => s[k][1].kind \notin {"talk", "private"}
      BY <3>1, Characters DEF S, TlfChar
    <3> HIDE DEF s
    <3> QED  BY <2>1, <3>2, QuietText
  <2>3. Put(<<>>, s).lines \in Seq(Seq(TlfChar))
    <3> HIDE DEF s
    <3> QED  BY <2>1, TlfSplit DEF S
  <2>4. Put(<<>>, s) = Joined(Put(<<>>, t), NL) /\ Put(<<>>, t) \in Assembled
    <3>1. <<>> \in Seq(Char) /\ NL \in Char
      BY <1>1, NothingIn
    <3> QED  BY <2>1, <3>1, PutMore, PutTight
  <2>5. Put(<<>>, s).buffer = <<>> /\ Put(<<>>, s).lines = Append(Put(<<>>, t).lines, Put(<<>>, t).buffer)
    BY <2>4 DEF Joined
  <2>6. Put(<<>>, s).lines # <<>>
    <3>1. Put(<<>>, t).lines \in Seq(Seq(Char)) /\ Put(<<>>, t).buffer \in Seq(Char)
      BY <2>4 DEF Assembled
    <3> QED  BY <2>5, <3>1, AppendGives
  <2> QED  BY <2>1, <2>2, <2>3, <2>5, <2>6
<1>10. \A s \in {Welcome, Welcome \o LoggedIn} : \E t \in Seq(S) : s = Append(t, NL)
  BY <1>4, <1>7, <1>8
<1> QED  BY <1>9, <1>10 DEF S

(* TLF's first text, in the invariant. *)
LEMMA OwnFlows ==
    ASSUME ClusterInv, FlowInv, OneSource, log = <<>>, NEW s \in {Welcome, Welcome \o LoggedIn}, NEW v, NEW quiet,
           end.screen = Len(buffer), AddTextAs("screen", s, v, quiet), UNCHANGED <<cleared, stream>>
    PROVE  /\ Flows(buffer', added', stream, 0, Sent)
           /\ log' # <<>>
<1>1. s \in Seq(Char)
  BY OwnLines
<1>2. /\ buffer' = Put(buffer, Private(s)).buffer
      /\ added' = added \o Full(Put(buffer, Private(s)).lines)
      /\ (Put(buffer, Private(s)).lines # <<>> => log' # <<>>)
  BY <1>1, TextAdded DEF Put
<1>3. buffer = <<>> /\ Private(s) = s
  BY OwnText DEF FlowInv
<1>4. /\ Put(<<>>, s).buffer = <<>> /\ Put(<<>>, s).lines # <<>>
      /\ Put(<<>>, s).lines \in Seq(Seq(TlfChar))
  BY OwnText
<1>5. Flows(<<>>, added, stream, 0, Sent) /\ Sent \in SUBSET ClusterLine /\ added \in Seq(Seq(Char))
      /\ stream \in Seq(Char)
  BY <1>3, SentLines DEF FlowInv, ClusterInv, TableInv
<1>6. Flows(<<>>, added \o Full(Put(<<>>, s).lines), stream, 0, Sent)
  BY <1>4, <1>5, FlowTlf
<1>7. buffer' = <<>> /\ added' = added \o Full(Put(<<>>, s).lines) /\ log' # <<>>
  BY <1>2, <1>3, <1>4
<1> QED  BY <1>6, <1>7

(* It holds at the start.                                                   *)
LEMMA FlowInit == ClusterInit => FlowInv
<1> SUFFICES ASSUME ClusterInit, OneSource PROVE FlowInv
  BY DEF FlowInv
<1>1. /\ said = 0 /\ stream = <<>> /\ buffer = <<>> /\ added = <<>> /\ station \in Stations
      /\ screen \in {"entering", "loop"} /\ background \in {"off", "loop"}
      /\ screen = "entering" => in_packetclient
      /\ in_packetclient \/ prsock # "open"
  <2>1. \E opened \in BOOLEAN : /\ prsock = IF opened THEN "open" ELSE "none"
                                /\ screen = IF opened THEN "entering" ELSE "loop"
                                /\ background = IF opened THEN "off" ELSE "loop"
                                /\ in_packetclient = opened
    BY DEF ClusterInit
  <2>2. said = 0 /\ stream = <<>> /\ buffer = <<>> /\ added = <<>> /\ station \in Stations
    BY DEF ClusterInit
  <2> QED  BY <2>1, <2>2
<1>2. Len(station.lines) \in Nat
  BY <1>1, StationAssumption
<1>3. Len(<<>>) = 0
  OBVIOUS
<1>4. ToCome(<<>>, Sent) /\ Flows(<<>>, <<>>, <<>>, 0, Sent)
  BY <1>3 DEF ToCome, Flows, Between, Whole, Ahead
<1>5. Apart
  BY <1>1 DEF Apart
<1> QED  BY <1>1, <1>2, <1>4, <1>5 DEF FlowInv

\* What a step leaves that neither reads nor adds text.
SameFlow == UNCHANGED <<station, said, stream, buffer, log, added>>

(* A step without text keeps it.                                            *)
LEMMA SameFlows ==
    ASSUME FlowInv, OneSource, SameFlow, Apart'
    PROVE  FlowInv'
<1>1. OneSource' /\ Sent' = Sent
  BY DEF OneSource, Sent, SameFlow
<1>2. /\ said' <= Len(station'.lines)
      /\ log' = <<>> => buffer' = <<>>
      /\ ToCome(stream', Sent) /\ Flows(buffer', added', stream', 0, Sent)
  BY DEF FlowInv, SameFlow
<1> QED  BY <1>1, <1>2 DEF FlowInv

(* A step with text, after which some is shown, keeps it. *)
LEMMA TextFlows ==
    ASSUME FlowInv, OneSource, UNCHANGED <<station, said>>, Apart', log' # <<>>,
           ToCome(stream', Sent), Flows(buffer', added', stream', 0, Sent)
    PROVE  FlowInv'
<1>1. OneSource' /\ Sent' = Sent /\ said' <= Len(station'.lines)
  BY DEF OneSource, Sent, FlowInv
<1> QED  BY <1>1 DEF FlowInv

(* A thread comes into addtext() while the other is not there.              *)
LEMMA EnterApart ==
    ASSUME ClusterInv, Apart, UNCHANGED <<in_packetclient, prsock, buffer, log>>,
           \/ ReceivePacket
           \/ (Greet \/ ReadWindow)
    PROVE  Apart'
<1>1. CASE ReceivePacket
  <2>1. /\ Enters("background") /\ background' = "packet" /\ screen' = screen
        /\ ~in_packetclient /\ prsock = "open"
    BY <1>1 DEF ReceivePacket
  <2>2. end'["background"] = Len(buffer)
    BY <2>1, Entering
  <2> QED  BY <2>1, <2>2 DEF Apart
<1>2. CASE Greet \/ ReadWindow
  <2>1. /\ Enters("screen") /\ background' = background
        /\ \/ screen = "entering" /\ log = <<>> /\ screen' = "welcome"
           \/ screen = "window" /\ screen' = "reading"
    BY <1>2 DEF Greet, ReadWindow
  <2>2. end'["screen"] = Len(buffer)
    BY <2>1, Entering
  <2> QED  BY <2>1, <2>2 DEF Apart
<1> QED  BY <1>1, <1>2

(* A step without text keeps the threads apart. *)
LEMMA QuietApart ==
    ASSUME Apart,
           ReceiveFails \/ EndTlfSpot \/ EndOwnSpot \/ SendSpot \/ Packet \/ OpenWithoutLines \/ WindowFails
           \/ ScrollView \/ ResumeEditing \/ ViewLog \/ TypeCommand \/ Kill \/ Leave \/ Closes
           \/ UNCHANGED clusterVars
    PROVE  Apart'
<1>1. CASE ReceiveFails
  <2>1. UNCHANGED <<place, buffer, log>> /\ (prsock' = "open" => prsock = "open")
    BY <1>1 DEF ReceiveFails, CleanupTelnet, text
  <2> QED  BY <2>1 DEF Apart, place
<1>2. CASE EndTlfSpot \/ EndOwnSpot \/ SendSpot \/ OpenWithoutLines
  <2>1. /\ UNCHANGED <<end, in_packetclient, prsock, buffer, log>>
        /\ background' \in {background, "loop"} /\ screen' \in {screen, "loop", "crashed"}
    BY <1>2 DEF EndTlfSpot, EndOwnSpot, SendSpot, OpenWithoutLines, link, text
  <2> QED  BY <2>1 DEF Apart
<1>3. CASE Packet
  <2>1. /\ UNCHANGED <<end, prsock, buffer, log, background>> /\ background # "packet"
        /\ in_packetclient' /\ screen' = "entering"
    BY <1>3 DEF Packet, link, text
  <2> QED  BY <2>1 DEF Apart
<1>4. CASE WindowFails
  <2>1. /\ UNCHANGED <<end, in_packetclient, buffer, log>> /\ (prsock' = "open" => prsock = "open")
        /\ background' \in {background, "loop"} /\ screen' = "loop"
    BY <1>4 DEF WindowFails, CleanupTelnet, Back, text
  <2> QED  BY <2>1 DEF Apart
<1>5. CASE ScrollView \/ ResumeEditing \/ ViewLog \/ TypeCommand \/ Kill \/ Closes \/ UNCHANGED clusterVars
  <2>1. UNCHANGED <<place, prsock, buffer, log>>
    BY <1>5 DEF ScrollView, ResumeEditing, ViewLog, TypeCommand, Kill, Closes, clusterVars, KeepsText, link, text
  <2> QED  BY <2>1 DEF Apart, place
<1>6. CASE Leave
  <2>1. /\ UNCHANGED <<end, prsock, buffer, log>> /\ screen = "window" /\ in_packetclient' = FALSE
        /\ background' \in {background, "loop"} /\ screen' = "loop"
    BY <1>6 DEF Leave, Typing, Back, link, text
  <2> QED  BY <2>1 DEF Apart
<1> QED  BY <1>1, <1>2, <1>3, <1>4, <1>5, <1>6

(* Every step keeps it.                                                     *)
LEMMA FlowNext == ClusterInv /\ FlowInv /\ [ClusterNext]_clusterVars => FlowInv'
<1> SUFFICES ASSUME ClusterInv, FlowInv, [ClusterNext]_clusterVars, OneSource'
             PROVE  FlowInv'
  BY DEF FlowInv
<1>1. station' = station
  BY DEF ClusterNext, clusterVars, Reading, Adding, Opening, ReceivePacket, AddPacket, ReadWindow, AddRead,
         ReceiveFails, HandleClusterMsg, AddClusterMsg, HandleTlfSpot, AddTlfSpot, EndTlfSpot, AddLocalSpot,
         AddOwnSpot, EndOwnSpot, SendSpot, Packet, Reconnect, Greet, LogIn, OpenWindow, OpenWithoutLines,
         WindowFails, ScrollView, ResumeEditing, ViewLog, TypeCommand, Kill, SendLine, AddLine, Leave, Says,
         Closes, KeepsText
<1>2. OneSource
  BY <1>1 DEF OneSource
<1>3. /\ said <= Len(station.lines) /\ Apart /\ (log = <<>> => buffer = <<>>)
      /\ ToCome(stream, Sent) /\ Flows(buffer, added, stream, 0, Sent)
  BY <1>2 DEF FlowInv
<1>4. /\ Len(station.messages) = 0 /\ station.spots = 0 /\ station.commands = 0
      /\ taken \in Nat /\ made \in Nat /\ said \in Nat /\ ~(made < 0) /\ ~(taken < 0)
  BY <1>2 DEF OneSource, ClusterInv
<1>5. CASE Reading \/ Greet
  <2>1. SameFlow /\ UNCHANGED <<in_packetclient, prsock>>
    BY <1>5 DEF Reading, ReceivePacket, ReadWindow, Greet, SameFlow, link, text
  <2>2. Apart'
    BY <1>3, <1>5, <2>1, EnterApart DEF Reading, SameFlow
  <2> QED  BY <1>2, <2>1, <2>2, SameFlows
<1>6. CASE AddPacket
  <2>1. PICK k \in Fragments :
           /\ AddTextAs("background", Sanitize(SubSeq(stream, 1, k)),
                        IF Is("telnet") THEN [view EXCEPT !.state = "EDITING"] ELSE view,
                        lanspotflg \/ cl_send_inhibit)
           /\ stream' = SubSeq(stream, k + 1, Len(stream))
    BY <1>6 DEF AddPacket, Read, AddText
  <2>2. /\ UNCHANGED <<said, cleared, screen, in_packetclient, prsock>>
        /\ background = "packet" /\ background' = "loop"
    BY <1>6 DEF AddPacket, link
  <2>3. /\ end.background = Len(buffer) /\ ~in_packetclient /\ log # <<>>
        /\ screen \notin {"entering", "welcome", "window", "reading"}
    BY <1>3, <2>2 DEF Apart
  <2>4. ToCome(stream', Sent) /\ Flows(buffer', added', stream', 0, Sent) /\ log' # <<>>
    BY <1>2, <2>1, <2>2, <2>3, ReadFlows
  <2>5. Apart'
    BY <1>3, <2>2, <2>3, <2>4 DEF Apart
  <2> QED  BY <1>1, <1>2, <2>2, <2>4, <2>5, TextFlows
<1>7. CASE AddRead
  <2>1. PICK k \in Fragments :
           /\ AddTextAs("screen", Sanitize(SubSeq(stream, 1, k)), view, lanspotflg \/ cl_send_inhibit)
           /\ stream' = SubSeq(stream, k + 1, Len(stream))
    BY <1>7 DEF AddRead, Read, AddText
  <2>2. /\ UNCHANGED <<said, cleared, background, in_packetclient, prsock>>
        /\ screen = "reading" /\ screen' = "window"
    BY <1>7 DEF AddRead, link
  <2>3. end.screen = Len(buffer) /\ in_packetclient /\ background # "packet" /\ log # <<>>
    BY <1>3, <2>2 DEF Apart
  <2>4. ToCome(stream', Sent) /\ Flows(buffer', added', stream', 0, Sent) /\ log' # <<>>
    BY <1>2, <2>1, <2>2, <2>3, ReadFlows
  <2>5. Apart'
    BY <1>3, <2>2, <2>3, <2>4 DEF Apart
  <2> QED  BY <1>1, <1>2, <2>2, <2>4, <2>5, TextFlows
<1>8. CASE HandleClusterMsg \/ AddClusterMsg \/ HandleTlfSpot \/ AddTlfSpot \/ AddLocalSpot \/ AddOwnSpot
           \/ SendLine \/ AddLine
  <2>1. \/ taken < Len(station.messages) \/ made < station.spots \/ made < station.commands
        \/ background \in {"spot", "message"} \/ screen \in {"spot", "sending"}
    BY <1>8 DEF HandleClusterMsg, AddClusterMsg, HandleTlfSpot, Message, AddTlfSpot, AddLocalSpot, AddOwnSpot,
                SendLine, AddLine
  <2> QED  BY <1>3, <1>4, <2>1 DEF Apart
<1>9. CASE ReceiveFails \/ EndTlfSpot \/ EndOwnSpot \/ SendSpot \/ Packet \/ OpenWithoutLines \/ WindowFails
           \/ ScrollView \/ ResumeEditing \/ ViewLog \/ TypeCommand \/ Kill \/ Leave \/ Closes
           \/ UNCHANGED clusterVars
  <2>1. SameFlow
    BY <1>9 DEF ReceiveFails, EndTlfSpot, EndOwnSpot, SendSpot, Packet, OpenWithoutLines, WindowFails,
                ScrollView, ResumeEditing, ViewLog, TypeCommand, Kill, Leave, Closes, clusterVars,
                CleanupTelnet, KeepsText, SameFlow, link, text
  <2>2. Apart'
    BY <1>3, <1>9, QuietApart
  <2> QED  BY <1>2, <2>1, <2>2, SameFlows
<1>10. CASE Reconnect
  <2>1. PICK opens \in Connects : InitPacket(opens)
    BY <1>10 DEF Reconnect
  <2>2. /\ buffer' = <<>> /\ stream' = <<>> /\ UNCHANGED <<said, log, added, background, end>>
        /\ in_packetclient' = TRUE /\ screen' = "entering" /\ background # "packet"
    BY <1>10, <2>1 DEF Reconnect, InitPacket
  <2>3. Len(<<>>) = 0
    OBVIOUS
  <2>4. ToCome(<<>>, Sent) /\ Between(<<>>, <<>>, 0) /\ Ahead(added, <<>>, 0)
    BY <2>3 DEF ToCome, Between, Ahead
  <2>5. Flows(<<>>, added, <<>>, 0, Sent)
    BY <1>3, <2>4 DEF Flows
  <2>6. Apart'
    BY <1>3, <2>2 DEF Apart
  <2>7. Sent' = Sent
    BY <1>1, <2>2 DEF Sent
  <2> QED  BY <1>1, <1>3, <2>2, <2>4, <2>5, <2>6, <2>7 DEF FlowInv
<1>11. CASE LogIn
  <2>1. /\ AddTextAs("screen", Welcome \o LoggedIn, view, lanspotflg \/ cl_send_inhibit) /\ screen = "welcome"
        /\ UNCHANGED <<said, stream, cleared, prsock>> /\ screen' = "loop" /\ in_packetclient' = FALSE
        /\ background' \in {background, "loop"}
    BY <1>11 DEF LogIn, Login, AddText, Back
  <2>2. log = <<>> /\ end.screen = Len(buffer) /\ background # "packet"
    BY <1>3, <2>1 DEF Apart
  <2>3. Flows(buffer', added', stream, 0, Sent) /\ log' # <<>>
    BY <1>2, <2>1, <2>2, OwnFlows
  <2>4. Apart'
    BY <1>3, <2>1, <2>2, <2>3 DEF Apart
  <2> QED  BY <1>1, <1>2, <1>3, <2>1, <2>3, <2>4, TextFlows
<1>12. CASE OpenWindow
  <2>1. UNCHANGED <<said, stream, cleared, background, in_packetclient, prsock>> /\ screen' = "window"
    BY <1>12 DEF OpenWindow, link
  <2>2. CASE screen = "welcome" /\ AddText("screen", Welcome, Editing)
    <3>1. /\ log = <<>> /\ end.screen = Len(buffer) /\ in_packetclient /\ background # "packet"
          /\ AddTextAs("screen", Welcome, Editing, lanspotflg \/ cl_send_inhibit)
      BY <1>3, <2>2 DEF Apart, AddText
    <3>2. Flows(buffer', added', stream, 0, Sent) /\ log' # <<>>
      BY <1>2, <2>1, <3>1, OwnFlows
    <3>3. Apart'
      BY <1>3, <2>1, <3>1, <3>2 DEF Apart
    <3> QED  BY <1>1, <1>2, <1>3, <2>1, <3>2, <3>3, TextFlows
  <2>3. CASE screen = "entering" /\ log # <<>> /\ UNCHANGED <<end, text>>
    <3>1. SameFlow /\ in_packetclient
      BY <1>1, <1>3, <2>1, <2>3 DEF SameFlow, text, Apart
    <3>2. Apart'
      BY <1>3, <2>1, <2>3, <3>1 DEF Apart, SameFlow
    <3> QED  BY <1>2, <3>1, <3>2, SameFlows
  <2> QED  BY <1>12, <2>2, <2>3 DEF OpenWindow
<1>13. CASE Says
  <2> DEFINE l == station.lines[said + 1]
  <2>1. /\ stream' = stream \o FromCluster(l) /\ said < Len(station.lines) /\ said' = said + 1
        /\ UNCHANGED <<buffer, added, log, screen, background, end, in_packetclient, prsock>>
    BY <1>13 DEF Says, place, text
  <2>2. /\ station.lines \in Seq(ClusterLine) /\ Len(station.lines) \in Nat
        /\ DOMAIN station.lines = 1 .. Len(station.lines)
        /\ \A i, j \in DOMAIN station.lines : i < j => station.lines[i].nr < station.lines[j].nr
    BY StationAssumption, ElementsOf DEF ClusterInv
  <2>3. /\ said + 1 \in 1 .. Len(station.lines) /\ l \in ClusterLine
        /\ \A j \in 1 .. said : station.lines[j].nr < l.nr
    <3>1. said + 1 \in 1 .. Len(station.lines) /\ \A j \in 1 .. said : j \in 1 .. Len(station.lines) /\ j < said + 1
      BY <1>4, <2>1, <2>2
    <3> QED  BY <2>2, <3>1, ElementsOf
  <2>4. Sent' = Sent \cup {l}
    <3>1. 1 .. said + 1 = (1 .. said) \cup {said + 1}
      BY <1>4
    <3> QED  BY <1>1, <2>1, <3>1 DEF Sent
  <2> HIDE DEF l
  <2>5. \A m \in Sent : m.nr < l.nr
    BY <2>3 DEF Sent
  <2>6. buffer \in Seq(Char) /\ added \in Seq(Seq(Char)) /\ stream \in Seq(Char) /\ Sent \in SUBSET ClusterLine
    BY <1>2, SentLines DEF ClusterInv, TableInv
  <2>7. /\ ToCome(stream \o FromCluster(l), Sent \cup {l})
        /\ Flows(buffer, added, stream \o FromCluster(l), 0, Sent \cup {l})
    BY <1>3, <2>3, <2>5, <2>6, FlowMore
  <2>8. said' <= Len(station'.lines)
    BY <1>1, <1>4, <2>1, <2>2
  <2>9. Apart'
    BY <1>3, <2>1 DEF Apart
  <2> QED  BY <1>1, <1>3, <2>1, <2>4, <2>7, <2>8, <2>9 DEF FlowInv
<1> QED  BY <1>5, <1>6, <1>7, <1>8, <1>9, <1>10, <1>11, <1>12, <1>13 DEF ClusterNext, Adding, Opening

(* With it all lines are whole.                                             *)
LEMMA FlowWhole == ClusterInv /\ FlowInv => LinesWhole
<1> SUFFICES ASSUME ClusterInv, FlowInv, OneSource
             PROVE  /\ \A i \in DOMAIN Given : \E j \in 1 .. said : Given[i] = Cells(station.lines[j])
                    /\ \A i, j \in DOMAIN Given : i < j => First(Given[i]).nr < First(Given[j]).nr
  BY DEF LinesWhole
<1> DEFINE P == {i \in DOMAIN added : First(added[i]).kind # "tlf"}
<1>1. added \in Seq(Seq(Char)) /\ Whole(added, Sent)
  BY DEF ClusterInv, TableInv, FlowInv, Flows
<1>2. Given = Picked(added, P)
  BY DEF Given
<1>3. \A x \in P : OfCluster(added[x])
  BY DEF OfCluster
<1> HIDE DEF P
<1>4. /\ Given \in Seq(Seq(Char))
      /\ \A k \in 1 .. Len(Given) : \E x \in 1 .. Len(added) : x \in P /\ Given[k] = added[x]
      /\ \A j, k \in 1 .. Len(Given) : j < k =>
            \E x, y \in 1 .. Len(added) : /\ x < y /\ x \in P /\ y \in P
                                          /\ Given[j] = added[x] /\ Given[k] = added[y]
  <2> DEFINE S == Seq(Char)
             g == Picked(added, P)
  <2>1. added \in Seq(S)
    BY <1>1
  <2> HIDE DEF S
  <2>2. g \in Seq(S)
    BY <2>1, PickedFrom
  <2>3. \A k \in 1 .. Len(g) : \E x \in 1 .. Len(added) : x \in P /\ g[k] = added[x]
    BY <2>1, PickedFrom
  <2>4. ASSUME NEW j \in 1 .. Len(g), NEW k \in 1 .. Len(g), j < k
        PROVE  \E x, y \in 1 .. Len(added) : x < y /\ x \in P /\ y \in P /\ g[j] = added[x] /\ g[k] = added[y]
    BY <2>1, <2>4, PickedFrom
  <2> HIDE DEF g
  <2> QED  BY <1>2, <2>2, <2>3, <2>4 DEF S, g
<1>5. DOMAIN Given = 1 .. Len(Given)
  BY <1>4, ElementsOf
<1>6. ASSUME NEW k \in 1 .. Len(Given)
      PROVE  \E j \in 1 .. said : Given[k] = Cells(station.lines[j])
  <2>1. PICK x \in 1 .. Len(added) : x \in P /\ Given[k] = added[x]
    BY <1>4
  <2>2. PICK l \in Sent : added[x] = Cells(l)
    BY <1>1, <1>3, <2>1 DEF Whole
  <2> QED  BY <2>1, <2>2 DEF Sent
<1>7. ASSUME NEW j \in 1 .. Len(Given), NEW k \in 1 .. Len(Given), j < k
      PROVE  First(Given[j]).nr < First(Given[k]).nr
  <2>1. PICK x \in 1 .. Len(added), y \in 1 .. Len(added) :
           x < y /\ x \in P /\ y \in P /\ Given[j] = added[x] /\ Given[k] = added[y]
    BY <1>4, <1>7
  <2>2. First(added[x]).nr < First(added[y]).nr
    BY <1>1, <1>3, <2>1 DEF Whole
  <2> QED  BY <2>1, <2>2
<1> QED  BY <1>5, <1>6, <1>7

(* The cluster window shows the last lines that pass its filter, in order   *)
(* and without a gap but for the lines that filled the table, whatever the  *)
(* sizes of table and window (addlog() and getclusterinfo()).               *)
THEOREM ShowsNewest == ClusterSpec => []ClusterShowsNewest
<1>1. ClusterInv => ClusterShowsNewest
  BY TableShows DEF ClusterInv
<1> QED  BY <1>1, ClusterInitInv, ClusterNextInv, PTL DEF ClusterSpec

(* Each line of the cluster gets to the window whole and in its order,       *)
(* however its text is cut into fragments, whoever reads them and whatever   *)
(* is lost with a connection (addtext(), receive_packet() and packet()).     *)
THEOREM WholeLines == ClusterSpec => []LinesWhole
<1> QED  BY FlowInit, FlowNext, FlowWhole, ClusterInitInv, ClusterNextInv, PTL DEF ClusterSpec
===============================================================================
