-------------------------- MODULE CaclUpdateProofs --------------------------
(***************************************************************************)
(* Proofs about CaclUpdate, for every set of namespaces, tables and update *)
(* threads; and, for one namespace, that it implements AclSync.            *)
(***************************************************************************)
EXTENDS CaclUpdate, TLAPS

\* The type of the variables each part of the system assigns, so that a step that
\* leaves a part alone keeps its type in one go.
DbType ==
    /\ type \in [NS -> [Tables -> TableTypes]]
    /\ rules \in [NS -> [Tables -> Contents]]
    /\ redfish \in BOOLEAN

EventsType ==
    /\ tblEv \in [NS -> BOOLEAN]
    /\ ruleEv \in [NS -> SUBSET Tables]
    /\ featEv \in BOOLEAN

MainType ==
    /\ mpc \in MainPCs
    /\ cur \in NS
    /\ sub \in SUBSET NS
    /\ todo \in SUBSET NS
    /\ redfishAllowed \in BOOLEAN

SharedType ==
    /\ tablesInfo \in [Tables -> TableTypes]
    /\ rulesInfo \in [Tables -> Contents]

SyncType ==
    /\ lock \in [NS -> Workers \union {Main, None}]
    /\ num \in [NS -> Nat]
    /\ updateThread \in [NS -> Workers \union {None}]
    /\ exc \in SUBSET NS

WorkerType ==
    /\ wpc \in [Workers -> WorkerPCs]
    /\ wns \in [Workers -> NS]
    /\ captured \in [Workers -> Nat]
    /\ plan \in [Workers -> [Tables -> Contents]]

KernelType ==
    /\ installed \in [NS -> [Tables -> Contents] \union {Broken}]
    /\ failed \in [NS -> BOOLEAN]

HistType ==
    /\ seenT \in [NS -> [Tables -> TableTypes]]
    /\ seenR \in [NS -> [Tables -> Contents]]
    /\ missed \in [NS -> BOOLEAN]

BoundsType == changes \in Nat /\ faults \in Nat

\* TypeOK, part by part.
LEMMA TypeOKParts ==
    TypeOK <=> /\ DbType /\ EventsType /\ MainType /\ SharedType /\ SyncType
               /\ WorkerType /\ KernelType /\ HistType /\ BoundsType
  BY DEF TypeOK, DbType, EventsType, MainType, SharedType, SyncType, WorkerType,
         KernelType, HistType, BoundsType

\* Empty tables of rows are rows.
LEMMA EmptyTyped ==
    /\ EmptyTypes \in [Tables -> TableTypes]
    /\ EmptyRules \in [Tables -> Contents]
  BY CaclAssumption DEF EmptyTypes, EmptyRules, TableTypes

\* What a translation yields is a rule set per table.
LEMMA TranslateTyped ==
    ASSUME NEW types \in [Tables -> TableTypes],
           NEW contents \in [Tables -> Contents],
           NEW allowed \in BOOLEAN
    PROVE  Translate(types, contents, allowed) \in [Tables -> Contents]
  BY CaclAssumption DEF Translate

-----------------------------------------------------------------------------
\* A step of the daemon, the operator or systemd keeps the types.
LEMMA TypeStep ==
    ASSUME TypeOK, [Next]_vars
    PROVE  TypeOK'
<1> USE DEF TypeOK
<1> USE DEF db, events, main, shared, sync, worker, kernel, hist, bounds
<1>1. ASSUME NEW ns \in NS, NEW t \in Tables, NEW ty \in TableTypes, SetTable(ns, t, ty)
      PROVE  TypeOK'
  BY <1>1 DEF SetTable, OperatorStep, TableTypes
<1>2. ASSUME NEW ns \in NS, NEW t \in Tables, NEW c \in Contents, SetRules(ns, t, c) PROVE TypeOK'
  BY <1>2 DEF SetRules, OperatorStep
<1>3. CASE ToggleRedfish
  BY <1>3 DEF ToggleRedfish, OperatorStep, Dead
<1>4. ASSUME NEW ns \in NS, BootReadTables(ns) PROVE TypeOK'
  BY <1>4 DEF BootReadTables, MainPCs
<1>5. CASE BootReadRules
  BY <1>5 DEF BootReadRules, MainPCs
<1>6. CASE BootInstall
  BY <1>6, TranslateTyped DEF BootInstall, MainPCs
<1>7. CASE BootSubscribe
  BY <1>7, EmptyTyped, CaclAssumption DEF BootSubscribe, MainPCs
<1>8. CASE MainCheck
  BY <1>8 DEF MainCheck, MainPCs
<1>9. CASE MainKill
  BY <1>9, EmptyTyped, CaclAssumption DEF MainKill, Unsubscribe, MainPCs, WorkerPCs, LockedPCs
<1>10. CASE MainTimeout
  BY <1>10 DEF MainTimeout, MainPCs
<1>11. ASSUME NEW ns \in NS, MainDrainTables(ns) PROVE TypeOK'
  BY <1>11 DEF MainDrainTables, MainPCs
<1>12. CASE MainDrainRules
  BY <1>12 DEF MainDrainRules, MainPCs
<1>13. CASE MainKeyError
  BY <1>13 DEF MainKeyError, MainExit, Unsubscribe, MainPCs
<1>14. CASE MainNotifyDone
  BY <1>14 DEF MainNotifyDone, MainPCs
<1>15. ASSUME NEW ns \in NS, MainCount(ns) PROVE TypeOK'
  BY <1>15 DEF MainCount, MainPCs
<1>16. ASSUME NEW w \in Workers, MainSpawn(w) PROVE TypeOK'
  BY <1>16 DEF MainSpawn, MainPCs, WorkerPCs, LockedPCs
<1>17. CASE MainNoSpawn
  BY <1>17 DEF MainNoSpawn, MainPCs
<1>18. ASSUME NEW w \in Workers, WorkerConnect(w) PROVE TypeOK'
  BY <1>18 DEF WorkerConnect, WorkerPCs, LockedPCs
<1>19. ASSUME NEW w \in Workers, WorkerNotStable(w) PROVE TypeOK'
  BY <1>19 DEF WorkerNotStable, WorkerPCs, LockedPCs
<1>20. ASSUME NEW w \in Workers, WorkerStable(w) PROVE TypeOK'
  BY <1>20 DEF WorkerStable, WorkerPCs, LockedPCs
<1>21. ASSUME NEW w \in Workers, WorkerError(w) PROVE TypeOK'
  BY <1>21, EmptyTyped, CaclAssumption DEF WorkerError, WorkerEnds, WorkerPCs, LockedPCs
<1>22. ASSUME NEW w \in Workers, WorkerReadTables(w) PROVE TypeOK'
  BY <1>22 DEF WorkerReadTables, WorkerPCs, LockedPCs
<1>23. ASSUME NEW w \in Workers, WorkerReadRules(w) PROVE TypeOK'
  BY <1>23 DEF WorkerReadRules, WorkerPCs, LockedPCs
<1>24. ASSUME NEW w \in Workers, WorkerTranslate(w) PROVE TypeOK'
  BY <1>24, TranslateTyped DEF WorkerTranslate, WorkerPCs, LockedPCs
<1>25. ASSUME NEW w \in Workers, WorkerInstall(w) PROVE TypeOK'
  BY <1>25, EmptyTyped, CaclAssumption DEF WorkerInstall, WorkerEnds, WorkerPCs, LockedPCs
<1>26. ASSUME NEW w \in Workers, WorkerRecord(w) PROVE TypeOK'
  BY <1>26 DEF WorkerRecord, WorkerPCs, LockedPCs
<1>27. ASSUME NEW w \in Workers, WorkerReset(w) PROVE TypeOK'
  BY <1>27, EmptyTyped, CaclAssumption DEF WorkerReset, WorkerEnds, WorkerPCs, LockedPCs
<1>28. CASE BootRaise
  <2>1. DbType'
    BY <1>28 DEF BootRaise, MainExit, Unsubscribe, DbType
  <2>2. EventsType'
    BY <1>28 DEF BootRaise, MainExit, Unsubscribe, EventsType
  <2>3. MainType'
    BY <1>28 DEF BootRaise, MainExit, Unsubscribe, MainPCs, MainType
  <2>4. SharedType'
    BY <1>28 DEF BootRaise, MainExit, Unsubscribe, SharedType
  <2>5. SyncType'
    BY <1>28 DEF BootRaise, MainExit, Unsubscribe, SyncType
  <2>6. WorkerType'
    BY <1>28 DEF BootRaise, MainExit, Unsubscribe, MainPCs, WorkerType
  <2>7. KernelType'
    BY <1>28 DEF BootRaise, MainExit, Unsubscribe, KernelType
  <2>8. HistType'
    BY <1>28 DEF BootRaise, MainExit, Unsubscribe, HistType
  <2>9. BoundsType'
    BY <1>28 DEF BootRaise, MainExit, Unsubscribe, BoundsType
  <2> QED
    BY ONLY <2>1, <2>2, <2>3, <2>4, <2>5, <2>6, <2>7, <2>8, <2>9
    DEF TypeOK, DbType, EventsType, MainType, SharedType, SyncType, WorkerType,
        KernelType, HistType, BoundsType
<1>29. CASE MainSpawnFails
  <2>1. DbType'
    BY <1>29 DEF MainSpawnFails, MainExit, Unsubscribe, DbType
  <2>2. EventsType'
    BY <1>29 DEF MainSpawnFails, MainExit, Unsubscribe, EventsType
  <2>3. MainType'
    BY <1>29 DEF MainSpawnFails, MainExit, Unsubscribe, MainPCs, MainType
  <2>4. SharedType'
    BY <1>29 DEF MainSpawnFails, MainExit, Unsubscribe, SharedType
  <2>5. SyncType'
    BY <1>29 DEF MainSpawnFails, MainExit, Unsubscribe, SyncType
  <2>6. WorkerType'
    BY <1>29 DEF MainSpawnFails, MainExit, Unsubscribe, MainPCs, WorkerType
  <2>7. KernelType'
    BY <1>29 DEF MainSpawnFails, MainExit, Unsubscribe, KernelType
  <2>8. HistType'
    BY <1>29 DEF MainSpawnFails, MainExit, Unsubscribe, HistType
  <2>9. BoundsType'
    BY <1>29 DEF MainSpawnFails, MainExit, Unsubscribe, BoundsType
  <2> QED
    BY ONLY <2>1, <2>2, <2>3, <2>4, <2>5, <2>6, <2>7, <2>8, <2>9
    DEF TypeOK, DbType, EventsType, MainType, SharedType, SyncType, WorkerType,
        KernelType, HistType, BoundsType
<1>30. ASSUME NEW w \in Workers, WorkerRaise(w) PROVE TypeOK'
  <2>1. DbType'
    BY <1>30 DEF WorkerRaise, LockedPCs, DbType
  <2>2. EventsType'
    BY <1>30 DEF WorkerRaise, LockedPCs, EventsType
  <2>3. MainType'
    BY <1>30 DEF WorkerRaise, WorkerPCs, LockedPCs, MainType
  <2>4. SharedType'
    BY <1>30 DEF WorkerRaise, LockedPCs, SharedType
  <2>5. SyncType'
    BY <1>30 DEF WorkerRaise, LockedPCs, SyncType
  <2>6. WorkerType'
    BY <1>30 DEF WorkerRaise, WorkerPCs, LockedPCs, WorkerType
  <2>7. KernelType'
    BY <1>30 DEF WorkerRaise, LockedPCs, KernelType
  <2>8. HistType'
    BY <1>30 DEF WorkerRaise, LockedPCs, HistType
  <2>9. BoundsType'
    BY <1>30 DEF WorkerRaise, LockedPCs, BoundsType
  <2> QED
    BY ONLY <2>1, <2>2, <2>3, <2>4, <2>5, <2>6, <2>7, <2>8, <2>9
    DEF TypeOK, DbType, EventsType, MainType, SharedType, SyncType, WorkerType,
        KernelType, HistType, BoundsType
<1>31. CASE Restart
  BY <1>31 DEF Restart, Dead, MainPCs
<1>32. CASE UNCHANGED vars
  BY <1>32 DEF vars
<1>33. CASE BootInstallFails
  <2>1. Translate(tablesInfo, rulesInfo, redfishAllowed) \in [Tables -> Contents]
    BY TranslateTyped
  <2>2. KernelType' /\ BoundsType'
    BY <1>33, <2>1 DEF BootInstallFails, SomeCommandFails, KernelType, BoundsType
  <2>3. MainType'
    BY <1>33 DEF BootInstallFails, MainPCs, MainType
  <2> QED
    BY <1>33, <2>2, <2>3 DEF BootInstallFails, MainType, KernelType, BoundsType
<1>34. ASSUME NEW w \in Workers, WorkerInstallFails(w) PROVE TypeOK'
  <2>1. KernelType' /\ BoundsType'
    BY <1>34 DEF WorkerInstallFails, SomeCommandFails, KernelType, BoundsType
  <2>2. WorkerType' /\ SyncType'
    BY <1>34, EmptyTyped, CaclAssumption
    DEF WorkerInstallFails, WorkerEnds, WorkerPCs, LockedPCs, WorkerType, SyncType
  <2> QED
    BY <1>34, <2>1, <2>2 DEF WorkerInstallFails, WorkerType, SyncType, KernelType, BoundsType
<1> QED
  BY <1>1, <1>2, <1>3, <1>4, <1>5, <1>6, <1>7, <1>8, <1>9, <1>10, <1>11, <1>12, <1>13, <1>14,
     <1>15, <1>16, <1>17, <1>18, <1>19, <1>20, <1>21, <1>22, <1>23, <1>24, <1>25, <1>26, <1>27,
     <1>28, <1>29, <1>30, <1>31, <1>32, <1>33, <1>34
  DEF Next, Operator, Boot, Loop, Update, Fault

(* Type correctness: every reachable state of the daemon is well typed,    *)
(* whatever the namespaces, tables, threads and bounds.                    *)
THEOREM TypeCorrect == Spec => []TypeOK
<1>1. Init => TypeOK
  BY EmptyTyped, CaclAssumption
  DEF Init, TypeOK, MainPCs, WorkerPCs
<1>2. TypeOK /\ [Next]_vars => TypeOK'
  BY TypeStep
<1> QED
  BY <1>1, <1>2, PTL DEF Spec

-----------------------------------------------------------------------------
(* The inductive invariant behind the safety properties.                   *)

\* update_thread is exactly the live thread of a namespace; after a kill or a failed
\* start nobody looks at it any more.
ThreadInv ==
    /\ \A w \in Workers : wpc[w] # "idle" => updateThread[wns[w]] = w
    /\ ~Dead => \A ns \in NS : updateThread[ns] # None =>
          wpc[updateThread[ns]] # "idle" /\ wns[updateThread[ns]] = ns

\* The lock of a namespace is held by the thread that updates it, or by the main thread
\* between counting and spawning.
LockInv ==
    /\ \A w \in Workers : wpc[w] \in LockedPCs => lock[wns[w]] = w
    /\ mpc = "spawn" => lock[cur] = Main

\* A thread that resets has recorded its exception.
RecordInv == \A w \in Workers : wpc[w] = "reset" => wns[w] \in exc

\* Outside of exceptions a thread works for a positive count that only grows.
Counted == {"start", "sleep", "raised"} \union LockedPCs

CountInv ==
    /\ \A w \in Workers :
          wpc[w] \in Counted => Dead \/ wns[w] \in exc \/
                               (0 < captured[w] /\ captured[w] <= num[wns[w]])
    /\ mpc = "spawn" => cur \in exc \/ 0 < num[cur]

\* Notifications wait in todo only between draining and spawning.
TodoInv ==
    /\ Dead => sub = {}
    /\ mpc \notin {"drainRules", "notify", "spawn"} => todo = {}
    /\ mpc = "drainRules" => todo \subseteq {cur}

Control == TypeOK /\ ThreadInv /\ LockInv /\ RecordInv /\ CountInv /\ TodoInv

\* Spawning, the end of an update and the clean-up after an exception keep
\* update_thread in step with the thread that lives.
LEMMA ThreadStep ==
    ASSUME Control, [Next]_vars
    PROVE  ThreadInv'
<1> USE DEF TypeOK, ThreadInv, Dead, db, events, main, shared, sync, worker, kernel, hist, bounds
<1>0. TypeOK /\ ThreadInv /\ LockInv /\ CaclAssumption
  BY CaclAssumption DEF Control
<1>1. CASE Operator
  BY <1>0, <1>1 DEF Operator, SetTable, SetRules, ToggleRedfish, OperatorStep
<1>2. CASE Boot \/ BootInstallFails
  BY <1>0, <1>2 DEF Boot, BootReadTables, BootReadRules, BootInstall, BootInstallFails, BootSubscribe
<1>3. CASE MainCheck \/ MainTimeout \/ MainDrainRules \/ MainNotifyDone \/ MainNoSpawn
  BY <1>0, <1>3
  DEF MainCheck, MainTimeout, MainDrainRules, MainNotifyDone, MainNoSpawn
<1>4. ASSUME NEW ns \in NS, MainDrainTables(ns) \/ MainCount(ns) PROVE ThreadInv'
  BY <1>0, <1>4 DEF MainDrainTables, MainCount
<1>5. ASSUME NEW w \in Workers, WorkerNotStable(w) PROVE ThreadInv'
  BY <1>0, <1>5 DEF WorkerNotStable
<1>6. CASE MainKill
  BY <1>0, <1>6 DEF MainKill, Unsubscribe
<1>7. CASE MainKeyError
  BY <1>0, <1>7 DEF MainKeyError, MainExit, Unsubscribe
<1>8. ASSUME NEW w \in Workers, MainSpawn(w) PROVE ThreadInv'
  BY <1>0, <1>8 DEF MainSpawn, LockInv
<1>9. ASSUME NEW w \in Workers, WorkerConnect(w) PROVE ThreadInv'
  BY <1>0, <1>9 DEF WorkerConnect
<1>10. ASSUME NEW w \in Workers, WorkerStable(w) PROVE ThreadInv'
  BY <1>0, <1>10 DEF WorkerStable
<1>11. ASSUME NEW w \in Workers, WorkerError(w) PROVE ThreadInv'
  BY <1>0, <1>11 DEF WorkerError, WorkerEnds
<1>12. ASSUME NEW w \in Workers, WorkerReadTables(w) PROVE ThreadInv'
  BY <1>0, <1>12 DEF WorkerReadTables
<1>13. ASSUME NEW w \in Workers, WorkerReadRules(w) PROVE ThreadInv'
  BY <1>0, <1>13 DEF WorkerReadRules
<1>14. ASSUME NEW w \in Workers, WorkerTranslate(w) PROVE ThreadInv'
  BY <1>0, <1>14 DEF WorkerTranslate
<1>15. ASSUME NEW w \in Workers, WorkerInstall(w) \/ WorkerInstallFails(w) PROVE ThreadInv'
  <2>1. CASE WorkerInstall(w)
    BY <1>0, <2>1 DEF WorkerInstall, WorkerEnds
  <2>2. CASE WorkerInstallFails(w)
    BY <1>0, <2>2 DEF WorkerInstallFails, WorkerEnds
  <2> QED
    BY <1>15, <2>1, <2>2
<1>16. ASSUME NEW w \in Workers, WorkerRecord(w) PROVE ThreadInv'
  BY <1>0, <1>16 DEF WorkerRecord
<1>17. ASSUME NEW w \in Workers, WorkerReset(w) PROVE ThreadInv'
  BY <1>0, <1>17 DEF WorkerReset, WorkerEnds, LockInv
<1>18. CASE BootRaise
  BY <1>0, <1>18 DEF BootRaise, MainExit, Unsubscribe
<1>19. CASE MainSpawnFails
  BY <1>0, <1>19 DEF MainSpawnFails, MainExit, Unsubscribe
<1>20. ASSUME NEW w \in Workers, WorkerRaise(w) PROVE ThreadInv'
  BY <1>0, <1>20 DEF WorkerRaise, LockedPCs
<1>21. CASE Restart
  BY <1>0, <1>21 DEF Restart
<1>22. CASE UNCHANGED vars
  BY <1>0, <1>22 DEF vars
<1> QED
  BY <1>1, <1>2, <1>3, <1>4, <1>5, <1>6, <1>7, <1>8, <1>9, <1>10, <1>11, <1>12, <1>13, <1>14,
     <1>15, <1>16, <1>17, <1>18, <1>19, <1>20, <1>21, <1>22
  DEF Next, Operator, Boot, Loop, Update, Fault

\* Nobody else takes the lock of a namespace from the thread that updates it, or from
\* the main thread between counting and spawning.
LEMMA LockStep ==
    ASSUME Control, [Next]_vars
    PROVE  LockInv'
<1> USE DEF TypeOK, LockInv, ThreadInv, LockedPCs, Dead
<1> USE DEF db, events, main, shared, sync, worker, kernel, hist, bounds
<1>0. TypeOK /\ ThreadInv /\ LockInv /\ CaclAssumption
  BY CaclAssumption DEF Control
<1>1. CASE Operator
  BY <1>0, <1>1 DEF Operator, SetTable, SetRules, ToggleRedfish, OperatorStep
<1>2. CASE Boot \/ BootInstallFails
  BY <1>0, <1>2 DEF Boot, BootReadTables, BootReadRules, BootInstall, BootInstallFails, BootSubscribe
<1>3. CASE MainCheck \/ MainTimeout \/ MainDrainRules \/ MainNotifyDone \/ MainNoSpawn
  BY <1>0, <1>3
  DEF MainCheck, MainTimeout, MainDrainRules, MainNotifyDone, MainNoSpawn
<1>4. ASSUME NEW ns \in NS, MainDrainTables(ns) \/ MainCount(ns) PROVE LockInv'
  BY <1>0, <1>4 DEF MainDrainTables, MainCount
<1>5. ASSUME NEW w \in Workers, WorkerNotStable(w) PROVE LockInv'
  BY <1>0, <1>5 DEF WorkerNotStable
<1>6. CASE MainKill
  BY <1>0, <1>6 DEF MainKill, Unsubscribe
<1>7. CASE MainKeyError
  BY <1>0, <1>7 DEF MainKeyError, MainExit, Unsubscribe
<1>8. ASSUME NEW w \in Workers, MainSpawn(w) PROVE LockInv'
  BY <1>0, <1>8 DEF MainSpawn
<1>9. ASSUME NEW w \in Workers, WorkerConnect(w) PROVE LockInv'
  BY <1>0, <1>9 DEF WorkerConnect
<1>10. ASSUME NEW w \in Workers, WorkerStable(w) PROVE LockInv'
  BY <1>0, <1>10 DEF WorkerStable
<1>11. ASSUME NEW w \in Workers, WorkerError(w) PROVE LockInv'
  BY <1>0, <1>11 DEF WorkerError, WorkerEnds
<1>12. ASSUME NEW w \in Workers, WorkerReadTables(w) PROVE LockInv'
  BY <1>0, <1>12 DEF WorkerReadTables
<1>13. ASSUME NEW w \in Workers, WorkerReadRules(w) PROVE LockInv'
  BY <1>0, <1>13 DEF WorkerReadRules
<1>14. ASSUME NEW w \in Workers, WorkerTranslate(w) PROVE LockInv'
  BY <1>0, <1>14 DEF WorkerTranslate
<1>15. ASSUME NEW w \in Workers, WorkerInstall(w) \/ WorkerInstallFails(w) PROVE LockInv'
  <2>1. CASE WorkerInstall(w)
    BY <1>0, <2>1 DEF WorkerInstall, WorkerEnds
  <2>2. CASE WorkerInstallFails(w)
    BY <1>0, <2>2 DEF WorkerInstallFails, WorkerEnds
  <2> QED
    BY <1>15, <2>1, <2>2
<1>16. ASSUME NEW w \in Workers, WorkerRecord(w) PROVE LockInv'
  BY <1>0, <1>16 DEF WorkerRecord
<1>17. ASSUME NEW w \in Workers, WorkerReset(w) PROVE LockInv'
  BY <1>0, <1>17 DEF WorkerReset, WorkerEnds
<1>18. CASE BootRaise
  BY <1>0, <1>18 DEF BootRaise, MainExit, Unsubscribe
<1>19. CASE MainSpawnFails
  BY <1>0, <1>19 DEF MainSpawnFails, MainExit, Unsubscribe
<1>20. ASSUME NEW w \in Workers, WorkerRaise(w) PROVE LockInv'
  BY <1>0, <1>20 DEF WorkerRaise
<1>21. CASE Restart
  BY <1>0, <1>21 DEF Restart
<1>22. CASE UNCHANGED vars
  BY <1>0, <1>22 DEF vars
<1> QED
  BY <1>1, <1>2, <1>3, <1>4, <1>5, <1>6, <1>7, <1>8, <1>9, <1>10, <1>11, <1>12, <1>13, <1>14,
     <1>15, <1>16, <1>17, <1>18, <1>19, <1>20, <1>21, <1>22
  DEF Next, Operator, Boot, Loop, Update, Fault

\* An exception is recorded before the thread resets, and the record stays.
LEMMA RecordStep ==
    ASSUME Control, [Next]_vars
    PROVE  RecordInv'
<1> USE DEF TypeOK, RecordInv, Dead, db, events, main, shared, sync, worker, kernel, hist, bounds
<1>0. TypeOK /\ RecordInv
  BY DEF Control
<1>1. CASE Operator
  BY <1>0, <1>1 DEF Operator, SetTable, SetRules, ToggleRedfish, OperatorStep
<1>2. CASE Boot \/ BootInstallFails
  BY <1>0, <1>2 DEF Boot, BootReadTables, BootReadRules, BootInstall, BootInstallFails, BootSubscribe
<1>3. CASE MainCheck \/ MainTimeout \/ MainDrainRules \/ MainNotifyDone \/ MainNoSpawn
  BY <1>0, <1>3
  DEF MainCheck, MainTimeout, MainDrainRules, MainNotifyDone, MainNoSpawn
<1>4. ASSUME NEW ns \in NS, MainDrainTables(ns) \/ MainCount(ns) PROVE RecordInv'
  BY <1>0, <1>4 DEF MainDrainTables, MainCount
<1>5. ASSUME NEW w \in Workers, WorkerNotStable(w) PROVE RecordInv'
  BY <1>0, <1>5 DEF WorkerNotStable
<1>6. CASE MainKill
  BY <1>0, <1>6 DEF MainKill, Unsubscribe
<1>7. CASE MainKeyError
  BY <1>0, <1>7 DEF MainKeyError, MainExit, Unsubscribe
<1>8. ASSUME NEW w \in Workers, MainSpawn(w) PROVE RecordInv'
  BY <1>0, <1>8 DEF MainSpawn
<1>9. ASSUME NEW w \in Workers, WorkerConnect(w) PROVE RecordInv'
  BY <1>0, <1>9 DEF WorkerConnect
<1>10. ASSUME NEW w \in Workers, WorkerStable(w) PROVE RecordInv'
  BY <1>0, <1>10 DEF WorkerStable
<1>11. ASSUME NEW w \in Workers, WorkerError(w) PROVE RecordInv'
  BY <1>0, <1>11 DEF WorkerError, WorkerEnds
<1>12. ASSUME NEW w \in Workers, WorkerReadTables(w) PROVE RecordInv'
  BY <1>0, <1>12 DEF WorkerReadTables
<1>13. ASSUME NEW w \in Workers, WorkerReadRules(w) PROVE RecordInv'
  BY <1>0, <1>13 DEF WorkerReadRules
<1>14. ASSUME NEW w \in Workers, WorkerTranslate(w) PROVE RecordInv'
  BY <1>0, <1>14 DEF WorkerTranslate
<1>15. ASSUME NEW w \in Workers, WorkerInstall(w) \/ WorkerInstallFails(w) PROVE RecordInv'
  BY <1>0, <1>15 DEF WorkerInstall, WorkerInstallFails, WorkerEnds
<1>16. ASSUME NEW w \in Workers, WorkerRecord(w) PROVE RecordInv'
  BY <1>0, <1>16 DEF WorkerRecord
<1>17. ASSUME NEW w \in Workers, WorkerReset(w) PROVE RecordInv'
  BY <1>0, <1>17 DEF WorkerReset, WorkerEnds
<1>18. CASE BootRaise
  BY <1>0, <1>18 DEF BootRaise, MainExit, Unsubscribe
<1>19. CASE MainSpawnFails
  BY <1>0, <1>19 DEF MainSpawnFails, MainExit, Unsubscribe
<1>20. ASSUME NEW w \in Workers, WorkerRaise(w) PROVE RecordInv'
  BY <1>0, <1>20 DEF WorkerRaise
<1>21. CASE Restart
  BY <1>0, <1>21 DEF Restart
<1>22. CASE UNCHANGED vars
  BY <1>0, <1>22 DEF vars
<1> QED
  BY <1>1, <1>2, <1>3, <1>4, <1>5, <1>6, <1>7, <1>8, <1>9, <1>10, <1>11, <1>12, <1>13, <1>14,
     <1>15, <1>16, <1>17, <1>18, <1>19, <1>20, <1>21, <1>22
  DEF Next, Operator, Boot, Loop, Update, Fault

\* While a thread lives, the counter of its namespace is only counted up.
LEMMA CountStep ==
    ASSUME Control, [Next]_vars
    PROVE  CountInv'
<1> USE DEF TypeOK, CountInv, Counted, LockedPCs, ThreadInv, LockInv, RecordInv, Dead
<1> USE DEF db, events, main, shared, sync, worker, kernel, hist, bounds
<1>0. TypeOK /\ ThreadInv /\ LockInv /\ RecordInv /\ CountInv /\ CaclAssumption
  BY CaclAssumption DEF Control
<1>1. CASE Operator
  BY <1>0, <1>1 DEF Operator, SetTable, SetRules, ToggleRedfish, OperatorStep
<1>2. CASE Boot \/ BootInstallFails
  BY <1>0, <1>2 DEF Boot, BootReadTables, BootReadRules, BootInstall, BootInstallFails, BootSubscribe
<1>3. CASE MainCheck \/ MainTimeout \/ MainDrainRules \/ MainNotifyDone \/ MainNoSpawn
  BY <1>0, <1>3
  DEF MainCheck, MainTimeout, MainDrainRules, MainNotifyDone, MainNoSpawn
<1>4. ASSUME NEW ns \in NS, MainDrainTables(ns) \/ MainCount(ns) PROVE CountInv'
  <2>1. CASE MainDrainTables(ns)
    BY <1>0, <2>1 DEF MainDrainTables
  <2>2. CASE MainCount(ns)
    <3>1. \A n \in NS : num'[n] \in Nat /\ num[n] <= num'[n]
      BY <1>0, <2>2 DEF MainCount
    <3>2. 0 < num'[ns] /\ cur' = ns
      BY <1>0, <2>2 DEF MainCount
    <3>3. UNCHANGED worker /\ exc' = exc /\ mpc = "notify" /\ mpc' = "spawn"
      BY <2>2 DEF MainCount
    <3> QED
      BY <1>0, <3>1, <3>2, <3>3
  <2> QED
    BY <1>4, <2>1, <2>2
<1>5. ASSUME NEW w \in Workers, WorkerNotStable(w) PROVE CountInv'
  BY <1>0, <1>5 DEF WorkerNotStable
<1>6. CASE MainKill
  BY <1>0, <1>6 DEF MainKill, Unsubscribe
<1>7. CASE MainKeyError
  BY <1>0, <1>7 DEF MainKeyError, MainExit, Unsubscribe
<1>8. ASSUME NEW w \in Workers, MainSpawn(w) PROVE CountInv'
  BY <1>0, <1>8 DEF MainSpawn
<1>9. ASSUME NEW w \in Workers, WorkerConnect(w) PROVE CountInv'
  BY <1>0, <1>9 DEF WorkerConnect
<1>10. ASSUME NEW w \in Workers, WorkerStable(w) PROVE CountInv'
  BY <1>0, <1>10 DEF WorkerStable
<1>11. ASSUME NEW w \in Workers, WorkerError(w) PROVE CountInv'
  <2>1. \A v \in Workers : wpc[v] # "idle" /\ v # w => wns[v] # wns[w]
    BY <1>0, <1>11 DEF WorkerError, WorkerEnds
  <2>2. \A v \in Workers : wpc'[v] # "idle" => v # w /\ wpc'[v] = wpc[v]
    BY <1>0, <1>11 DEF WorkerError, WorkerEnds
  <2>3. /\ \A ns \in NS : ns # wns[w] => num'[ns] = num[ns]
        /\ wns' = wns /\ mpc' = mpc /\ cur' = cur /\ exc' = exc
        /\ \A v \in Workers : v # w => captured'[v] = captured[v]
    BY <1>0, <1>11 DEF WorkerError, WorkerEnds
  <2>4. mpc = "spawn" => cur # wns[w] \/ cur \in exc
    BY <1>0, <1>11 DEF WorkerError, WorkerEnds
  <2> QED
    BY <1>0, <2>1, <2>2, <2>3, <2>4
<1>12. ASSUME NEW w \in Workers, WorkerReadTables(w) PROVE CountInv'
  BY <1>0, <1>12 DEF WorkerReadTables
<1>13. ASSUME NEW w \in Workers, WorkerReadRules(w) PROVE CountInv'
  BY <1>0, <1>13 DEF WorkerReadRules
<1>14. ASSUME NEW w \in Workers, WorkerTranslate(w) PROVE CountInv'
  BY <1>0, <1>14 DEF WorkerTranslate
<1>15. ASSUME NEW w \in Workers, WorkerInstall(w) \/ WorkerInstallFails(w) PROVE CountInv'
  <2>1. \A v \in Workers : wpc[v] # "idle" /\ v # w => wns[v] # wns[w]
    BY <1>0, <1>15 DEF WorkerInstall, WorkerInstallFails, WorkerEnds
  <2>2. \A v \in Workers : wpc'[v] # "idle" => v # w /\ wpc'[v] = wpc[v]
    BY <1>0, <1>15 DEF WorkerInstall, WorkerInstallFails, WorkerEnds
  <2>3. /\ \A ns \in NS : ns # wns[w] => num'[ns] = num[ns]
        /\ wns' = wns /\ mpc' = mpc /\ cur' = cur /\ exc' = exc
        /\ \A v \in Workers : v # w => captured'[v] = captured[v]
    BY <1>0, <1>15 DEF WorkerInstall, WorkerInstallFails, WorkerEnds
  <2>4. mpc = "spawn" => cur # wns[w] \/ cur \in exc
    BY <1>0, <1>15 DEF WorkerInstall, WorkerInstallFails, WorkerEnds
  <2> QED
    BY <1>0, <2>1, <2>2, <2>3, <2>4
<1>16. ASSUME NEW w \in Workers, WorkerRecord(w) PROVE CountInv'
  BY <1>0, <1>16 DEF WorkerRecord
<1>17. ASSUME NEW w \in Workers, WorkerReset(w) PROVE CountInv'
  <2>1. \A v \in Workers : wpc[v] # "idle" /\ v # w => wns[v] # wns[w]
    BY <1>0, <1>17 DEF WorkerReset, WorkerEnds
  <2>2. \A v \in Workers : wpc'[v] # "idle" => v # w /\ wpc'[v] = wpc[v]
    BY <1>0, <1>17 DEF WorkerReset, WorkerEnds
  <2>3. /\ \A ns \in NS : ns # wns[w] => num'[ns] = num[ns]
        /\ wns' = wns /\ mpc' = mpc /\ cur' = cur /\ exc' = exc
        /\ \A v \in Workers : v # w => captured'[v] = captured[v]
    BY <1>0, <1>17 DEF WorkerReset, WorkerEnds
  <2>4. mpc = "spawn" => cur # wns[w] \/ cur \in exc
    BY <1>0, <1>17 DEF WorkerReset, WorkerEnds
  <2> QED
    BY <1>0, <2>1, <2>2, <2>3, <2>4
<1>18. CASE BootRaise
  BY <1>0, <1>18 DEF BootRaise, MainExit, Unsubscribe
<1>19. CASE MainSpawnFails
  BY <1>0, <1>19 DEF MainSpawnFails, MainExit, Unsubscribe
<1>20. ASSUME NEW w \in Workers, WorkerRaise(w) PROVE CountInv'
  BY <1>0, <1>20 DEF WorkerRaise
<1>21. CASE Restart
  BY <1>0, <1>21 DEF Restart
<1>22. CASE UNCHANGED vars
  BY <1>0, <1>22 DEF vars
<1> QED
  BY <1>1, <1>2, <1>3, <1>4, <1>5, <1>6, <1>7, <1>8, <1>9, <1>10, <1>11, <1>12, <1>13, <1>14,
     <1>15, <1>16, <1>17, <1>18, <1>19, <1>20, <1>21, <1>22
  DEF Next, Operator, Boot, Loop, Update, Fault

\* The namespaces to notify are those of the notifications just drained.
LEMMA TodoStep ==
    ASSUME Control, [Next]_vars
    PROVE  TodoInv'
<1> USE DEF TypeOK, TodoInv, Dead, db, events, main, shared, sync, worker, kernel, hist, bounds
<1>0. TypeOK /\ TodoInv
  BY DEF Control
<1>1. CASE Operator
  BY <1>0, <1>1 DEF Operator, SetTable, SetRules, ToggleRedfish, OperatorStep
<1>2. CASE Boot \/ BootInstallFails
  BY <1>0, <1>2 DEF Boot, BootReadTables, BootReadRules, BootInstall, BootInstallFails, BootSubscribe
<1>3. CASE MainCheck \/ MainTimeout \/ MainDrainRules \/ MainNotifyDone \/ MainNoSpawn
  BY <1>0, <1>3
  DEF MainCheck, MainTimeout, MainDrainRules, MainNotifyDone, MainNoSpawn
<1>4. ASSUME NEW ns \in NS, MainDrainTables(ns) \/ MainCount(ns) PROVE TodoInv'
  BY <1>0, <1>4 DEF MainDrainTables, MainCount
<1>5. ASSUME NEW w \in Workers, WorkerNotStable(w) PROVE TodoInv'
  BY <1>0, <1>5 DEF WorkerNotStable
<1>6. CASE MainKill
  BY <1>0, <1>6 DEF MainKill, Unsubscribe
<1>7. CASE MainKeyError
  BY <1>0, <1>7 DEF MainKeyError, MainExit, Unsubscribe
<1>8. ASSUME NEW w \in Workers, MainSpawn(w) PROVE TodoInv'
  BY <1>0, <1>8 DEF MainSpawn
<1>9. ASSUME NEW w \in Workers, WorkerConnect(w) PROVE TodoInv'
  BY <1>0, <1>9 DEF WorkerConnect
<1>10. ASSUME NEW w \in Workers, WorkerStable(w) PROVE TodoInv'
  BY <1>0, <1>10 DEF WorkerStable
<1>11. ASSUME NEW w \in Workers, WorkerError(w) PROVE TodoInv'
  BY <1>0, <1>11 DEF WorkerError, WorkerEnds
<1>12. ASSUME NEW w \in Workers, WorkerReadTables(w) PROVE TodoInv'
  BY <1>0, <1>12 DEF WorkerReadTables
<1>13. ASSUME NEW w \in Workers, WorkerReadRules(w) PROVE TodoInv'
  BY <1>0, <1>13 DEF WorkerReadRules
<1>14. ASSUME NEW w \in Workers, WorkerTranslate(w) PROVE TodoInv'
  BY <1>0, <1>14 DEF WorkerTranslate
<1>15. ASSUME NEW w \in Workers, WorkerInstall(w) \/ WorkerInstallFails(w) PROVE TodoInv'
  BY <1>0, <1>15 DEF WorkerInstall, WorkerInstallFails, WorkerEnds
<1>16. ASSUME NEW w \in Workers, WorkerRecord(w) PROVE TodoInv'
  BY <1>0, <1>16 DEF WorkerRecord
<1>17. ASSUME NEW w \in Workers, WorkerReset(w) PROVE TodoInv'
  BY <1>0, <1>17 DEF WorkerReset, WorkerEnds
<1>18. CASE BootRaise
  BY <1>0, <1>18 DEF BootRaise, MainExit, Unsubscribe
<1>19. CASE MainSpawnFails
  BY <1>0, <1>19 DEF MainSpawnFails, MainExit, Unsubscribe
<1>20. ASSUME NEW w \in Workers, WorkerRaise(w) PROVE TodoInv'
  BY <1>0, <1>20 DEF WorkerRaise
<1>21. CASE Restart
  BY <1>0, <1>21 DEF Restart
<1>22. CASE UNCHANGED vars
  BY <1>0, <1>22 DEF vars
<1> QED
  BY <1>1, <1>2, <1>3, <1>4, <1>5, <1>6, <1>7, <1>8, <1>9, <1>10, <1>11, <1>12, <1>13, <1>14,
     <1>15, <1>16, <1>17, <1>18, <1>19, <1>20, <1>21, <1>22
  DEF Next, Operator, Boot, Loop, Update, Fault

\* A step that leaves the rows and what was read of them alone keeps every change from
\* being lost if whatever owes a reading before the step owes it after.
LEMMA OwedSuffices ==
    ASSUME NoLostChange,
           UNCHANGED <<type, rules, seenT, seenR, missed>>,
           \A ns \in NS : TablesOwed(ns) => TablesOwed(ns)',
           \A ns \in NS, t \in Tables :
               type[ns][t] = "ctrl" /\ RulesOwed(ns, t) => RulesOwed(ns, t)'
    PROVE  NoLostChange'
  BY DEF NoLostChange

\* A thread that the step leaves at its place still counts.
LEMMA ThreadAtFrame ==
    ASSUME NEW ns \in NS, NEW pcs, ThreadAt(ns, pcs),
           \A w \in Workers : wns[w] = ns /\ wpc[w] \in pcs =>
               wns'[w] = ns /\ wpc'[w] \in pcs
    PROVE  ThreadAt(ns, pcs)'
  BY DEF ThreadAt

\* No step loses a change: the one that drains a notification hands the debt on to todo,
\* the one that spawns or finds a thread hands it to the thread, the one that raises to exc.
LEMMA NoLostStep ==
    ASSUME Control, NoLostChange, [Next]_vars
    PROVE  NoLostChange'
<1> USE DEF Dead, db, events, main, shared, sync, worker, kernel, hist, bounds
<1>0. /\ TypeOK /\ ThreadInv /\ LockInv /\ RecordInv /\ CountInv /\ TodoInv
      /\ CaclAssumption
  BY CaclAssumption DEF Control
<1>1. ASSUME NEW ns \in NS, NEW t \in Tables, NEW ty \in TableTypes, SetTable(ns, t, ty)
      PROVE  NoLostChange'
  <2>1. /\ \A n \in NS : n # ns => type'[n] = type[n]
        /\ tblEv'[ns] \/ ns \notin sub
        /\ \A n \in NS : tblEv[n] => tblEv'[n]
        /\ UNCHANGED <<rules, ruleEv, mpc, sub, todo, exc, wpc, wns, seenT, seenR, missed>>
    BY <1>0, <1>1 DEF SetTable, OperatorStep, TypeOK
  <2> QED
    BY <1>0, <2>1 DEF NoLostChange, TablesOwed, RulesOwed, ThreadAt
<1>2. ASSUME NEW ns \in NS, NEW t \in Tables, NEW c \in Contents, SetRules(ns, t, c)
      PROVE  NoLostChange'
  <2>1. /\ \A n \in NS, u \in Tables : n # ns \/ u # t => rules'[n][u] = rules[n][u]
        /\ t \in ruleEv'[ns] \/ ns \notin sub
        /\ \A n \in NS, u \in Tables : u \in ruleEv[n] => u \in ruleEv'[n]
        /\ UNCHANGED <<type, tblEv, mpc, sub, todo, exc, wpc, wns, seenT, seenR, missed>>
    BY <1>0, <1>2 DEF SetRules, OperatorStep, TypeOK
  <2> QED
    BY <1>0, <2>1 DEF NoLostChange, TablesOwed, RulesOwed, ThreadAt
<1>3. ASSUME NEW ns \in NS, BootReadTables(ns) PROVE NoLostChange'
  <2>1. /\ seenT'[ns] = type[ns]
        /\ \A n \in NS : n # ns => seenT'[n] = seenT[n] /\ missed'[n] = missed[n]
        /\ ns \notin sub /\ ~Dead /\ ~Dead'
        /\ UNCHANGED <<type, rules, tblEv, ruleEv, sub, todo, exc, wpc, wns, seenR>>
    BY <1>0, <1>3 DEF BootReadTables, TypeOK
  <2> QED
    BY <1>0, <2>1 DEF NoLostChange, TablesOwed, RulesOwed, ThreadAt
<1>4. CASE BootReadRules
  <2>1. /\ seenR'[cur] = rules[cur]
        /\ \A n \in NS : n # cur => seenR'[n] = seenR[n]
        /\ ~Dead /\ ~Dead'
        /\ UNCHANGED <<type, rules, tblEv, ruleEv, sub, todo, exc, wpc, wns, seenT, missed>>
    BY <1>0, <1>4 DEF BootReadRules, TypeOK
  <2> QED
    BY <1>0, <2>1 DEF NoLostChange, TablesOwed, RulesOwed, ThreadAt
<1>5. CASE BootSubscribe
  <2>1. /\ type[cur] = EmptyTypes \/ tblEv'[cur]
        /\ type[cur] = EmptyTypes /\ seenT[cur] # EmptyTypes => missed'[cur]
        /\ \A n \in NS : n # cur => tblEv'[n] = tblEv[n] /\ ruleEv'[n] = ruleEv[n]
                                    /\ missed'[n] = missed[n] /\ (n \in sub' <=> n \in sub)
        /\ ~Dead /\ ~Dead'
        /\ UNCHANGED <<type, rules, todo, exc, wpc, wns, seenT, seenR>>
    BY <1>0, <1>5 DEF BootSubscribe, TypeOK
  <2> QED
    BY <1>0, <2>1 DEF NoLostChange, TablesOwed, RulesOwed, ThreadAt, EmptyTypes
<1>6. ASSUME NEW w \in Workers, WorkerReadTables(w) PROVE NoLostChange'
  <2>1. /\ seenT'[wns[w]] = type[wns[w]]
        /\ wpc'[w] = "readRules" /\ wns[w] \in NS
        /\ \A n \in NS : n # wns[w] => seenT'[n] = seenT[n] /\ missed'[n] = missed[n]
        /\ \A v \in Workers : v # w => wpc'[v] = wpc[v]
        /\ UNCHANGED <<type, rules, mpc, tblEv, ruleEv, sub, todo, exc, wns, seenR>>
    BY <1>0, <1>6 DEF WorkerReadTables, TypeOK
  <2> QED
    BY <1>0, <2>1 DEF NoLostChange, TablesOwed, RulesOwed, ThreadAt
<1>7. ASSUME NEW w \in Workers, WorkerReadRules(w) PROVE NoLostChange'
  <2>1. /\ seenR'[wns[w]] = rules[wns[w]]
        /\ wpc[w] = "readRules" /\ wns[w] \in NS
        /\ \A n \in NS : n # wns[w] => seenR'[n] = seenR[n]
        /\ \A v \in Workers : v # w => wpc'[v] = wpc[v]
        /\ UNCHANGED <<type, rules, mpc, tblEv, ruleEv, sub, todo, exc, wns, seenT, missed>>
    BY <1>0, <1>7 DEF WorkerReadRules, TypeOK
  <2> QED
    BY <1>0, <2>1 DEF NoLostChange, TablesOwed, RulesOwed, ThreadAt
<1>8. CASE ToggleRedfish
  <2>1. ASSUME NEW m \in NS, TablesOwed(m) PROVE TablesOwed(m)'
    BY <1>0, <1>8, <2>1 DEF ToggleRedfish, OperatorStep, TablesOwed, ThreadAt, TypeOK
  <2>2. ASSUME NEW m \in NS, NEW u \in Tables, type[m][u] = "ctrl", RulesOwed(m, u)
        PROVE  RulesOwed(m, u)'
    BY <1>0, <1>8, <2>1, <2>2 DEF ToggleRedfish, OperatorStep, RulesOwed, ThreadAt, TypeOK
  <2> QED
    BY <1>8, <2>1, <2>2, OwedSuffices DEF ToggleRedfish, OperatorStep
<1>9. CASE BootInstall \/ BootInstallFails
  <2>1. ASSUME NEW m \in NS, TablesOwed(m) PROVE TablesOwed(m)'
    BY <1>0, <1>9, <2>1 DEF BootInstall, BootInstallFails, TablesOwed, ThreadAt, TypeOK
  <2>2. ASSUME NEW m \in NS, NEW u \in Tables, type[m][u] = "ctrl", RulesOwed(m, u)
        PROVE  RulesOwed(m, u)'
    BY <1>0, <1>9, <2>1, <2>2 DEF BootInstall, BootInstallFails, RulesOwed, ThreadAt, TypeOK
  <2> QED
    BY <1>9, <2>1, <2>2, OwedSuffices DEF BootInstall, BootInstallFails
<1>10. CASE MainCheck
  <2>1. ASSUME NEW m \in NS, TablesOwed(m) PROVE TablesOwed(m)'
    BY <1>0, <1>10, <2>1 DEF MainCheck, TablesOwed, ThreadAt, TypeOK
  <2>2. ASSUME NEW m \in NS, NEW u \in Tables, type[m][u] = "ctrl", RulesOwed(m, u)
        PROVE  RulesOwed(m, u)'
    BY <1>0, <1>10, <2>1, <2>2 DEF MainCheck, RulesOwed, ThreadAt, TypeOK
  <2> QED
    BY <1>10, <2>1, <2>2, OwedSuffices DEF MainCheck
<1>11. CASE MainTimeout
  <2>1. ASSUME NEW m \in NS, TablesOwed(m) PROVE TablesOwed(m)'
    BY <1>0, <1>11, <2>1 DEF MainTimeout, TablesOwed, ThreadAt, TypeOK
  <2>2. ASSUME NEW m \in NS, NEW u \in Tables, type[m][u] = "ctrl", RulesOwed(m, u)
        PROVE  RulesOwed(m, u)'
    BY <1>0, <1>11, <2>1, <2>2 DEF MainTimeout, RulesOwed, ThreadAt, TypeOK
  <2> QED
    BY <1>11, <2>1, <2>2, OwedSuffices DEF MainTimeout
<1>12. CASE MainNotifyDone
  <2>1. ASSUME NEW m \in NS, TablesOwed(m) PROVE TablesOwed(m)'
    BY <1>0, <1>12, <2>1 DEF MainNotifyDone, TablesOwed, ThreadAt, TypeOK
  <2>2. ASSUME NEW m \in NS, NEW u \in Tables, type[m][u] = "ctrl", RulesOwed(m, u)
        PROVE  RulesOwed(m, u)'
    BY <1>0, <1>12, <2>1, <2>2 DEF MainNotifyDone, RulesOwed, ThreadAt, TypeOK
  <2> QED
    BY <1>12, <2>1, <2>2, OwedSuffices DEF MainNotifyDone
<1>13. CASE MainKill
  <2>1. ASSUME NEW m \in NS, TablesOwed(m) PROVE TablesOwed(m)'
    BY <1>0, <1>13, <2>1 DEF MainKill, Unsubscribe, TablesOwed, ThreadAt, TypeOK
  <2>2. ASSUME NEW m \in NS, NEW u \in Tables, type[m][u] = "ctrl", RulesOwed(m, u)
        PROVE  RulesOwed(m, u)'
    BY <1>0, <1>13, <2>1, <2>2 DEF MainKill, Unsubscribe, RulesOwed, ThreadAt, TypeOK, TablesOwed
  <2> QED
    BY <1>13, <2>1, <2>2, OwedSuffices DEF MainKill, Unsubscribe
<1>14. CASE MainKeyError
  <2>1. ASSUME NEW m \in NS, TablesOwed(m) PROVE TablesOwed(m)'
    BY <1>0, <1>14, <2>1 DEF MainKeyError, MainExit, Unsubscribe, TablesOwed, ThreadAt, TypeOK
  <2>2. ASSUME NEW m \in NS, NEW u \in Tables, type[m][u] = "ctrl", RulesOwed(m, u)
        PROVE  RulesOwed(m, u)'
    BY <1>0, <1>14, <2>1, <2>2
    DEF MainKeyError, MainExit, Unsubscribe, RulesOwed, ThreadAt, TypeOK, TablesOwed
  <2> QED
    BY <1>14, <2>1, <2>2, OwedSuffices DEF MainKeyError, MainExit, Unsubscribe
<1>15. CASE BootRaise
  <2>1. ASSUME NEW m \in NS, TablesOwed(m) PROVE TablesOwed(m)'
    BY <1>0, <1>15, <2>1 DEF BootRaise, MainExit, Unsubscribe, TablesOwed, ThreadAt, TypeOK
  <2>2. ASSUME NEW m \in NS, NEW u \in Tables, type[m][u] = "ctrl", RulesOwed(m, u)
        PROVE  RulesOwed(m, u)'
    BY <1>0, <1>15, <2>1, <2>2
    DEF BootRaise, MainExit, Unsubscribe, RulesOwed, ThreadAt, TypeOK, TablesOwed
  <2> QED
    BY <1>15, <2>1, <2>2, OwedSuffices DEF BootRaise, MainExit, Unsubscribe
<1>16. CASE MainSpawnFails
  <2>1. ASSUME NEW m \in NS, TablesOwed(m) PROVE TablesOwed(m)'
    BY <1>0, <1>16, <2>1 DEF MainSpawnFails, MainExit, Unsubscribe, TablesOwed, ThreadAt, TypeOK
  <2>2. ASSUME NEW m \in NS, NEW u \in Tables, type[m][u] = "ctrl", RulesOwed(m, u)
        PROVE  RulesOwed(m, u)'
    BY <1>0, <1>16, <2>1, <2>2
    DEF MainSpawnFails, MainExit, Unsubscribe, RulesOwed, ThreadAt, TypeOK, TablesOwed
  <2> QED
    BY <1>16, <2>1, <2>2, OwedSuffices DEF MainSpawnFails, MainExit, Unsubscribe
<1>17. CASE Restart
  <2>1. ASSUME NEW m \in NS, TablesOwed(m) PROVE TablesOwed(m)'
    BY <1>0, <1>17, <2>1 DEF Restart, TablesOwed, ThreadAt, TypeOK, TodoInv
  <2>2. ASSUME NEW m \in NS, NEW u \in Tables, type[m][u] = "ctrl", RulesOwed(m, u)
        PROVE  RulesOwed(m, u)'
    BY <1>0, <1>17, <2>1, <2>2 DEF Restart, RulesOwed, ThreadAt, TypeOK, TablesOwed, TodoInv
  <2> QED
    BY <1>17, <2>1, <2>2, OwedSuffices DEF Restart
<1>18. ASSUME NEW ns \in NS, MainDrainTables(ns) PROVE NoLostChange'
  <2>1. ASSUME NEW m \in NS, TablesOwed(m) PROVE TablesOwed(m)'
    BY <1>0, <1>18, <2>1 DEF MainDrainTables, TablesOwed, ThreadAt, TypeOK, TodoInv
  <2>2. ASSUME NEW m \in NS, NEW u \in Tables, type[m][u] = "ctrl", RulesOwed(m, u)
        PROVE  RulesOwed(m, u)'
    BY <1>0, <1>18, <2>1, <2>2 DEF MainDrainTables, RulesOwed, ThreadAt, TypeOK
  <2> QED
    BY <1>18, <2>1, <2>2, OwedSuffices DEF MainDrainTables
<1>19. CASE MainDrainRules
  <2>1. ASSUME NEW m \in NS, TablesOwed(m) PROVE TablesOwed(m)'
    BY <1>0, <1>19, <2>1 DEF MainDrainRules, TablesOwed, ThreadAt, TypeOK, TodoInv
  <2>2. ASSUME NEW m \in NS, NEW u \in Tables, type[m][u] = "ctrl", RulesOwed(m, u)
        PROVE  RulesOwed(m, u)'
    BY <1>0, <1>19, <2>1, <2>2
    DEF MainDrainRules, RulesOwed, ThreadAt, TypeOK, TablesOwed, TodoInv
  <2> QED
    BY <1>19, <2>1, <2>2, OwedSuffices DEF MainDrainRules
<1>20. ASSUME NEW ns \in NS, MainCount(ns) PROVE NoLostChange'
  <2>1. ASSUME NEW m \in NS, TablesOwed(m) PROVE TablesOwed(m)'
    BY <1>0, <1>20, <2>1 DEF MainCount, TablesOwed, ThreadAt, TypeOK
  <2>2. ASSUME NEW m \in NS, NEW u \in Tables, type[m][u] = "ctrl", RulesOwed(m, u)
        PROVE  RulesOwed(m, u)'
    BY <1>0, <1>20, <2>1, <2>2 DEF MainCount, RulesOwed, ThreadAt, TypeOK
  <2> QED
    BY <1>20, <2>1, <2>2, OwedSuffices DEF MainCount
<1>21. ASSUME NEW w \in Workers, MainSpawn(w) PROVE NoLostChange'
  <2>1. ASSUME NEW m \in NS, TablesOwed(m) PROVE TablesOwed(m)'
    BY <1>0, <1>21, <2>1 DEF MainSpawn, TablesOwed, ThreadAt, TypeOK
  <2>2. ASSUME NEW m \in NS, NEW u \in Tables, type[m][u] = "ctrl", RulesOwed(m, u)
        PROVE  RulesOwed(m, u)'
    BY <1>0, <1>21, <2>1, <2>2 DEF MainSpawn, RulesOwed, ThreadAt, TypeOK
  <2> QED
    BY <1>21, <2>1, <2>2, OwedSuffices DEF MainSpawn
<1>22. CASE MainNoSpawn
  <2>1. ASSUME NEW m \in NS, TablesOwed(m) PROVE TablesOwed(m)'
    <3>1. CASE m # cur
      BY <1>0, <1>22, <2>1, <3>1 DEF MainNoSpawn, TablesOwed, ThreadAt, TypeOK
    <3>2. CASE m = cur
      \* The live thread of the namespace does not hold the lock, so it has not
      \* read yet, or it has raised.
      <4>1. PICK v \in Workers : v = updateThread[cur] /\ wpc[v] # "idle" /\ wns[v] = cur
        BY <1>0, <1>22 DEF MainNoSpawn, ThreadInv, TypeOK
      <4>2. wpc[v] \notin LockedPCs
        BY <1>0, <1>22, <4>1 DEF MainNoSpawn, LockInv
      <4>3. wpc[v] \in {"start", "sleep", "raised"} \/ cur \in exc
        BY <1>0, <4>1, <4>2 DEF RecordInv, TypeOK, WorkerPCs
      <4> QED
        BY <1>22, <3>2, <4>1, <4>3 DEF MainNoSpawn, TablesOwed, ThreadAt
    <3> QED
      BY <3>1, <3>2
  <2>2. ASSUME NEW m \in NS, NEW u \in Tables, type[m][u] = "ctrl", RulesOwed(m, u)
        PROVE  RulesOwed(m, u)'
    BY <1>0, <1>22, <2>1, <2>2 DEF MainNoSpawn, RulesOwed, ThreadAt, TypeOK
  <2> QED
    BY <1>22, <2>1, <2>2, OwedSuffices DEF MainNoSpawn
<1>23. ASSUME NEW w \in Workers, WorkerConnect(w) PROVE NoLostChange'
  <2>1. ASSUME NEW m \in NS, TablesOwed(m) PROVE TablesOwed(m)'
    BY <1>0, <1>23, <2>1 DEF WorkerConnect, TablesOwed, ThreadAt, TypeOK
  <2>2. ASSUME NEW m \in NS, NEW u \in Tables, type[m][u] = "ctrl", RulesOwed(m, u)
        PROVE  RulesOwed(m, u)'
    BY <1>0, <1>23, <2>1, <2>2 DEF WorkerConnect, RulesOwed, ThreadAt, TypeOK
  <2> QED
    BY <1>23, <2>1, <2>2, OwedSuffices DEF WorkerConnect
<1>24. ASSUME NEW w \in Workers, WorkerNotStable(w) PROVE NoLostChange'
  <2>1. ASSUME NEW m \in NS, TablesOwed(m) PROVE TablesOwed(m)'
    BY <1>0, <1>24, <2>1 DEF WorkerNotStable, TablesOwed, ThreadAt, TypeOK
  <2>2. ASSUME NEW m \in NS, NEW u \in Tables, type[m][u] = "ctrl", RulesOwed(m, u)
        PROVE  RulesOwed(m, u)'
    BY <1>0, <1>24, <2>1, <2>2 DEF WorkerNotStable, RulesOwed, ThreadAt, TypeOK
  <2> QED
    BY <1>24, <2>1, <2>2, OwedSuffices DEF WorkerNotStable
<1>25. ASSUME NEW w \in Workers, WorkerStable(w) PROVE NoLostChange'
  <2>1. ASSUME NEW m \in NS, TablesOwed(m) PROVE TablesOwed(m)'
    BY <1>0, <1>25, <2>1 DEF WorkerStable, TablesOwed, ThreadAt, TypeOK
  <2>2. ASSUME NEW m \in NS, NEW u \in Tables, type[m][u] = "ctrl", RulesOwed(m, u)
        PROVE  RulesOwed(m, u)'
    BY <1>0, <1>25, <2>1, <2>2 DEF WorkerStable, RulesOwed, ThreadAt, TypeOK
  <2> QED
    BY <1>25, <2>1, <2>2, OwedSuffices DEF WorkerStable
<1>26. ASSUME NEW w \in Workers, WorkerTranslate(w) PROVE NoLostChange'
  <2>1. ASSUME NEW m \in NS, TablesOwed(m) PROVE TablesOwed(m)'
    BY <1>0, <1>26, <2>1 DEF WorkerTranslate, TablesOwed, ThreadAt, TypeOK
  <2>2. ASSUME NEW m \in NS, NEW u \in Tables, type[m][u] = "ctrl", RulesOwed(m, u)
        PROVE  RulesOwed(m, u)'
    BY <1>0, <1>26, <2>1, <2>2 DEF WorkerTranslate, RulesOwed, ThreadAt, TypeOK
  <2> QED
    BY <1>26, <2>1, <2>2, OwedSuffices DEF WorkerTranslate
<1>27. ASSUME NEW w \in Workers, WorkerInstall(w) \/ WorkerInstallFails(w) PROVE NoLostChange'
  <2>1. ASSUME NEW m \in NS, TablesOwed(m) PROVE TablesOwed(m)'
    BY <1>0, <1>27, <2>1 DEF WorkerInstall, WorkerInstallFails, WorkerEnds, TablesOwed, ThreadAt, TypeOK
  <2>2. ASSUME NEW m \in NS, NEW u \in Tables, type[m][u] = "ctrl", RulesOwed(m, u)
        PROVE  RulesOwed(m, u)'
    BY <1>0, <1>27, <2>1, <2>2 DEF WorkerInstall, WorkerInstallFails, WorkerEnds, RulesOwed, ThreadAt, TypeOK
  <2> QED
    BY <1>27, <2>1, <2>2, OwedSuffices DEF WorkerInstall, WorkerInstallFails, WorkerEnds
<1>28. ASSUME NEW w \in Workers, WorkerRecord(w) PROVE NoLostChange'
  <2>1. ASSUME NEW m \in NS, TablesOwed(m) PROVE TablesOwed(m)'
    BY <1>0, <1>28, <2>1 DEF WorkerRecord, TablesOwed, ThreadAt, TypeOK
  <2>2. ASSUME NEW m \in NS, NEW u \in Tables, type[m][u] = "ctrl", RulesOwed(m, u)
        PROVE  RulesOwed(m, u)'
    BY <1>0, <1>28, <2>1, <2>2 DEF WorkerRecord, RulesOwed, ThreadAt, TypeOK
  <2> QED
    BY <1>28, <2>1, <2>2, OwedSuffices DEF WorkerRecord
<1>29. ASSUME NEW w \in Workers, WorkerReset(w) PROVE NoLostChange'
  <2>1. ASSUME NEW m \in NS, TablesOwed(m) PROVE TablesOwed(m)'
    BY <1>0, <1>29, <2>1 DEF WorkerReset, WorkerEnds, TablesOwed, ThreadAt, TypeOK, RecordInv
  <2>2. ASSUME NEW m \in NS, NEW u \in Tables, type[m][u] = "ctrl", RulesOwed(m, u)
        PROVE  RulesOwed(m, u)'
    BY <1>0, <1>29, <2>1, <2>2 DEF WorkerReset, WorkerEnds, RulesOwed, ThreadAt, TypeOK
  <2> QED
    BY <1>29, <2>1, <2>2, OwedSuffices DEF WorkerReset, WorkerEnds
<1>30. ASSUME NEW w \in Workers, WorkerRaise(w) PROVE NoLostChange'
  <2>1. ASSUME NEW m \in NS, TablesOwed(m) PROVE TablesOwed(m)'
    BY <1>0, <1>30, <2>1 DEF WorkerRaise, TablesOwed, ThreadAt, TypeOK, LockedPCs
  <2>2. ASSUME NEW m \in NS, NEW u \in Tables, type[m][u] = "ctrl", RulesOwed(m, u)
        PROVE  RulesOwed(m, u)'
    BY <1>0, <1>30, <2>1, <2>2 DEF WorkerRaise, RulesOwed, ThreadAt, TypeOK, TablesOwed, LockedPCs
  <2> QED
    BY <1>30, <2>1, <2>2, OwedSuffices DEF WorkerRaise
<1>31. ASSUME NEW w \in Workers, WorkerError(w) PROVE NoLostChange'
  <2>1. ASSUME NEW m \in NS, TablesOwed(m) PROVE TablesOwed(m)'
    <3>1. CASE m # wns[w]
      BY <1>0, <1>31, <2>1, <3>1 DEF WorkerError, WorkerEnds, TablesOwed, ThreadAt, TypeOK
    <3>2. CASE m = wns[w]
      \* Only an exception can have taken the count from a thread.
      <4>1. Dead \/ wns[w] \in exc
        <5>1. /\ num[wns[w]] \in Nat /\ captured[w] \in Nat /\ wpc[w] \in Counted
              /\ num[wns[w]] <= captured[w]
              /\ ~(num[wns[w]] = captured[w] /\ captured[w] > 0)
          BY <1>0, <1>31 DEF WorkerError, TypeOK, Counted
        <5>2. ~(0 < captured[w] /\ captured[w] <= num[wns[w]])
          BY <5>1
        <5> QED
          BY <1>0, <5>1, <5>2 DEF CountInv
      <4> QED
        BY <1>31, <3>2, <4>1 DEF WorkerError, TablesOwed
    <3> QED
      BY <3>1, <3>2
  <2>2. ASSUME NEW m \in NS, NEW u \in Tables, type[m][u] = "ctrl", RulesOwed(m, u)
        PROVE  RulesOwed(m, u)'
    BY <1>0, <1>31, <2>1, <2>2 DEF WorkerError, WorkerEnds, RulesOwed, ThreadAt, TypeOK
  <2> QED
    BY <1>31, <2>1, <2>2, OwedSuffices DEF WorkerError, WorkerEnds
<1>32. CASE UNCHANGED vars
  BY <1>32 DEF vars, NoLostChange, TablesOwed, RulesOwed, ThreadAt
<1> QED
  BY <1>1, <1>2, <1>3, <1>4, <1>5, <1>6, <1>7, <1>8, <1>9, <1>10, <1>11, <1>12, <1>13, <1>14,
     <1>15, <1>16, <1>17, <1>18, <1>19, <1>20, <1>21, <1>22, <1>23, <1>24, <1>25, <1>26, <1>27,
     <1>28, <1>29, <1>30, <1>31, <1>32
  DEF Next, Operator, Boot, Loop, Update, Fault

\* The daemon starts under control: nothing is locked and no thread lives.
LEMMA InitControl == Init => Control
<1> SUFFICES ASSUME Init PROVE Control
  OBVIOUS
<1>1. TypeOK
  BY EmptyTyped, CaclAssumption DEF Init, TypeOK, MainPCs, WorkerPCs
<1>2. ThreadInv /\ LockInv /\ RecordInv /\ CountInv /\ TodoInv
  BY CaclAssumption
  DEF Init, ThreadInv, LockInv, RecordInv, CountInv, TodoInv, Dead, Counted, LockedPCs
<1> QED
  BY <1>1, <1>2 DEF Control

(* The control part: thread table, locks, counters and the set of          *)
(* namespaces to notify agree with the places of the threads.              *)
THEOREM ControlInvariant == Spec => []Control
<1>1. Control /\ [Next]_vars => Control'
  BY TypeStep, ThreadStep, LockStep, RecordStep, CountStep, TodoStep DEF Control
<1> QED
  BY <1>1, InitControl, PTL DEF Spec

(* No namespace ever has two update threads, for any number of namespaces, *)
(* threads, changes and exceptions.                                        *)
THEOREM SingleUpdaterHolds == Spec => []SingleUpdater
<1>1. Control => SingleUpdater
  BY DEF Control, ThreadInv, SingleUpdater
<1> QED
  BY <1>1, ControlInvariant, PTL

(* The debouncing loses no change of the ACLs in any namespace.            *)
THEOREM NoChangeLost == Spec => []NoLostChange
<1>1. Init => NoLostChange
  BY DEF Init, NoLostChange, RulesOwed, TablesOwed
<1>2. Control /\ NoLostChange /\ [Next]_vars => NoLostChange'
  BY NoLostStep
<1> QED
  BY <1>1, <1>2, ControlInvariant, PTL DEF Spec
-----------------------------------------------------------------------------
(* On a device with one namespace the attributes that the threads share    *)
(* have one user, and caclmgrd implements AclSync.                         *)

BootPCs == {"boot", "bootRules", "bootInstall", "bootSub"}

\* During the start nothing is subscribed and no update thread is left.
BootInv == mpc \in BootPCs => sub = {} /\ \A w \in Workers : wpc[w] = "idle"

\* The daemon knows the switch of the feature, unless its notification waits.
FeatInv == ~Dead /\ ~featEv => redfishAllowed = redfish

\* What the rows that the last update read ask for.
Own == Translate(seenT[Host], seenR[Host], redfishAllowed)

\* What a reading left in the attributes is there when the translation looks at it.
ReadInv ==
    /\ mpc \in {"bootRules", "bootInstall"} => tablesInfo = seenT[Host]
    /\ mpc = "bootInstall" => rulesInfo = seenR[Host]
    /\ \A w \in Workers :
          /\ wpc[w] \in {"readRules", "translate"} => tablesInfo = seenT[Host]
          /\ wpc[w] = "translate" => rulesInfo = seenR[Host]

\* What is about to be programmed is what was read, unless another update follows.
PlanInv == \A w \in Workers : wpc[w] = "install" => Dead \/ Host \in todo \/ plan[w] = Own

\* So is what is programmed, unless a command of it failed.
HeldInv ==
    mpc \notin {"boot", "bootRules", "bootInstall"}
        => \/ Dead \/ Host \in todo \union exc \/ num[Host] # 0
           \/ failed[Host] \/ installed[Host] = Own

HostInv == BootInv /\ FeatInv /\ ReadInv /\ PlanInv /\ HeldInv

\* Nothing is subscribed before the last namespace is programmed, and a new start waits for
\* the threads of the last.
LEMMA BootStep ==
    ASSUME NS = {Host}, Control, HostInv, [Next]_vars
    PROVE  BootInv'
<1> USE DEF TypeOK, Dead, BootInv, BootPCs, ThreadInv, TodoInv
<1> USE DEF db, events, main, shared, sync, worker, kernel, hist, bounds
<1>0. /\ NS = {Host} /\ TypeOK /\ ThreadInv /\ LockInv /\ RecordInv /\ CountInv /\ TodoInv
      /\ BootInv /\ CaclAssumption
  BY CaclAssumption DEF Control, HostInv
<1>1. CASE Operator
  BY <1>0, <1>1 DEF Operator, SetTable, SetRules, ToggleRedfish, OperatorStep
<1>2. ASSUME NEW ns \in NS, BootReadTables(ns) PROVE BootInv'
  BY <1>0, <1>2 DEF BootReadTables
<1>3. CASE BootReadRules
  BY <1>0, <1>3 DEF BootReadRules
<1>4. CASE BootInstall \/ BootInstallFails
  BY <1>0, <1>4 DEF BootInstall, BootInstallFails
<1>5. CASE BootSubscribe
  BY <1>0, <1>5 DEF BootSubscribe
<1>6. CASE MainCheck \/ MainTimeout \/ MainNotifyDone
  BY <1>0, <1>6 DEF MainCheck, MainTimeout, MainNotifyDone
<1>7. CASE MainKill
  BY <1>0, <1>7 DEF MainKill, Unsubscribe
<1>8. ASSUME NEW ns \in NS, MainDrainTables(ns) PROVE BootInv'
  BY <1>0, <1>8 DEF MainDrainTables
<1>9. CASE MainDrainRules
  BY <1>0, <1>9 DEF MainDrainRules
<1>10. CASE MainKeyError
  BY <1>0, <1>10 DEF MainKeyError, MainExit, Unsubscribe
<1>11. ASSUME NEW ns \in NS, MainCount(ns) PROVE BootInv'
  BY <1>0, <1>11 DEF MainCount
<1>12. ASSUME NEW w \in Workers, MainSpawn(w) PROVE BootInv'
  BY <1>0, <1>12 DEF MainSpawn
<1>13. CASE MainNoSpawn
  BY <1>0, <1>13 DEF MainNoSpawn
<1>14. ASSUME NEW w \in Workers, WorkerConnect(w) \/ WorkerNotStable(w) \/ WorkerStable(w)
      PROVE  BootInv'
  BY <1>0, <1>14 DEF WorkerConnect, WorkerNotStable, WorkerStable
<1>15. ASSUME NEW w \in Workers, WorkerError(w) PROVE BootInv'
  BY <1>0, <1>15 DEF WorkerError, WorkerEnds
<1>16. ASSUME NEW w \in Workers, WorkerReadTables(w) PROVE BootInv'
  BY <1>0, <1>16 DEF WorkerReadTables
<1>17. ASSUME NEW w \in Workers, WorkerReadRules(w) PROVE BootInv'
  BY <1>0, <1>17 DEF WorkerReadRules
<1>18. ASSUME NEW w \in Workers, WorkerTranslate(w) PROVE BootInv'
  BY <1>0, <1>18 DEF WorkerTranslate
<1>19. ASSUME NEW w \in Workers, WorkerInstall(w) \/ WorkerInstallFails(w) PROVE BootInv'
  BY <1>0, <1>19 DEF WorkerInstall, WorkerInstallFails, WorkerEnds
<1>20. ASSUME NEW w \in Workers, WorkerRecord(w) PROVE BootInv'
  BY <1>0, <1>20 DEF WorkerRecord
<1>21. ASSUME NEW w \in Workers, WorkerReset(w) PROVE BootInv'
  BY <1>0, <1>21 DEF WorkerReset, WorkerEnds
<1>22. CASE BootRaise
  BY <1>0, <1>22 DEF BootRaise, MainExit, Unsubscribe
<1>23. CASE MainSpawnFails
  BY <1>0, <1>23 DEF MainSpawnFails, MainExit, Unsubscribe
<1>24. ASSUME NEW w \in Workers, WorkerRaise(w) PROVE BootInv'
  BY <1>0, <1>24 DEF WorkerRaise, LockedPCs
<1>25. CASE Restart
  BY <1>0, <1>25 DEF Restart
<1>26. CASE UNCHANGED vars
  BY <1>0, <1>26 DEF vars
<1> QED
  BY <1>1, <1>2, <1>3, <1>4, <1>5, <1>6, <1>7, <1>8, <1>9, <1>10, <1>11, <1>12, <1>13, <1>14,
     <1>15, <1>16, <1>17, <1>18, <1>19, <1>20, <1>21, <1>22, <1>23, <1>24, <1>25, <1>26
  DEF Next, Operator, Boot, Loop, Update, Fault

\* The notification goes with its handling, and a new start reads the switch.
LEMMA FeatStep ==
    ASSUME NS = {Host}, Control, HostInv, [Next]_vars
    PROVE  FeatInv'
<1> USE DEF TypeOK, Dead, FeatInv, TodoInv
<1> USE DEF db, events, main, shared, sync, worker, kernel, hist, bounds
<1>0. NS = {Host} /\ TypeOK /\ ThreadInv /\ LockInv /\ RecordInv /\ CountInv /\ TodoInv /\ FeatInv
  BY CaclAssumption DEF Control, HostInv
<1>1. CASE Operator
  BY <1>0, <1>1 DEF Operator, SetTable, SetRules, ToggleRedfish, OperatorStep
<1>2. ASSUME NEW ns \in NS, BootReadTables(ns) PROVE FeatInv'
  BY <1>0, <1>2 DEF BootReadTables
<1>3. CASE BootReadRules
  BY <1>0, <1>3 DEF BootReadRules
<1>4. CASE BootInstall \/ BootInstallFails
  BY <1>0, <1>4 DEF BootInstall, BootInstallFails
<1>5. CASE BootSubscribe
  BY <1>0, <1>5 DEF BootSubscribe
<1>6. CASE MainCheck \/ MainTimeout \/ MainNotifyDone
  BY <1>0, <1>6 DEF MainCheck, MainTimeout, MainNotifyDone
<1>7. CASE MainKill
  BY <1>0, <1>7 DEF MainKill, Unsubscribe
<1>8. ASSUME NEW ns \in NS, MainDrainTables(ns) PROVE FeatInv'
  BY <1>0, <1>8 DEF MainDrainTables
<1>9. CASE MainDrainRules
  BY <1>0, <1>9 DEF MainDrainRules
<1>10. CASE MainKeyError
  BY <1>0, <1>10 DEF MainKeyError, MainExit, Unsubscribe
<1>11. ASSUME NEW ns \in NS, MainCount(ns) PROVE FeatInv'
  BY <1>0, <1>11 DEF MainCount
<1>12. ASSUME NEW w \in Workers, MainSpawn(w) PROVE FeatInv'
  BY <1>0, <1>12 DEF MainSpawn
<1>13. CASE MainNoSpawn
  BY <1>0, <1>13 DEF MainNoSpawn
<1>14. ASSUME NEW w \in Workers, WorkerConnect(w) \/ WorkerNotStable(w) \/ WorkerStable(w)
      PROVE  FeatInv'
  BY <1>0, <1>14 DEF WorkerConnect, WorkerNotStable, WorkerStable
<1>15. ASSUME NEW w \in Workers, WorkerError(w) PROVE FeatInv'
  BY <1>0, <1>15 DEF WorkerError, WorkerEnds
<1>16. ASSUME NEW w \in Workers, WorkerReadTables(w) PROVE FeatInv'
  BY <1>0, <1>16 DEF WorkerReadTables
<1>17. ASSUME NEW w \in Workers, WorkerReadRules(w) PROVE FeatInv'
  BY <1>0, <1>17 DEF WorkerReadRules
<1>18. ASSUME NEW w \in Workers, WorkerTranslate(w) PROVE FeatInv'
  BY <1>0, <1>18 DEF WorkerTranslate
<1>19. ASSUME NEW w \in Workers, WorkerInstall(w) \/ WorkerInstallFails(w) PROVE FeatInv'
  BY <1>0, <1>19 DEF WorkerInstall, WorkerInstallFails, WorkerEnds
<1>20. ASSUME NEW w \in Workers, WorkerRecord(w) PROVE FeatInv'
  BY <1>0, <1>20 DEF WorkerRecord
<1>21. ASSUME NEW w \in Workers, WorkerReset(w) PROVE FeatInv'
  BY <1>0, <1>21 DEF WorkerReset, WorkerEnds
<1>22. CASE BootRaise
  BY <1>0, <1>22 DEF BootRaise, MainExit, Unsubscribe
<1>23. CASE MainSpawnFails
  BY <1>0, <1>23 DEF MainSpawnFails, MainExit, Unsubscribe
<1>24. ASSUME NEW w \in Workers, WorkerRaise(w) PROVE FeatInv'
  BY <1>0, <1>24 DEF WorkerRaise
<1>25. CASE Restart
  BY <1>0, <1>25 DEF Restart
<1>26. CASE UNCHANGED vars
  BY <1>0, <1>26 DEF vars
<1> QED
  BY <1>1, <1>2, <1>3, <1>4, <1>5, <1>6, <1>7, <1>8, <1>9, <1>10, <1>11, <1>12, <1>13, <1>14,
     <1>15, <1>16, <1>17, <1>18, <1>19, <1>20, <1>21, <1>22, <1>23, <1>24, <1>25, <1>26
  DEF Next, Operator, Boot, Loop, Update, Fault

\* One thread at a time reads, and none while the start does.
LEMMA ReadStep ==
    ASSUME NS = {Host}, Control, HostInv, [Next]_vars
    PROVE  ReadInv'
<1> USE DEF TypeOK, Dead, ReadInv, BootInv, BootPCs, ThreadInv
<1> USE DEF db, events, main, shared, sync, worker, kernel, hist, bounds
<1>0. /\ NS = {Host} /\ TypeOK /\ ThreadInv /\ LockInv /\ RecordInv /\ CountInv /\ TodoInv
      /\ BootInv /\ ReadInv
  BY CaclAssumption DEF Control, HostInv
<1>1. CASE Operator
  BY <1>0, <1>1 DEF Operator, SetTable, SetRules, ToggleRedfish, OperatorStep
<1>2. ASSUME NEW ns \in NS, BootReadTables(ns) PROVE ReadInv'
  BY <1>0, <1>2 DEF BootReadTables
<1>3. CASE BootReadRules
  BY <1>0, <1>3 DEF BootReadRules
<1>4. CASE BootInstall \/ BootInstallFails
  BY <1>0, <1>4 DEF BootInstall, BootInstallFails
<1>5. CASE BootSubscribe
  BY <1>0, <1>5 DEF BootSubscribe
<1>6. CASE MainCheck \/ MainTimeout \/ MainNotifyDone
  BY <1>0, <1>6 DEF MainCheck, MainTimeout, MainNotifyDone
<1>7. CASE MainKill
  BY <1>0, <1>7 DEF MainKill, Unsubscribe
<1>8. ASSUME NEW ns \in NS, MainDrainTables(ns) PROVE ReadInv'
  BY <1>0, <1>8 DEF MainDrainTables
<1>9. CASE MainDrainRules
  BY <1>0, <1>9 DEF MainDrainRules
<1>10. CASE MainKeyError
  BY <1>0, <1>10 DEF MainKeyError, MainExit, Unsubscribe
<1>11. ASSUME NEW ns \in NS, MainCount(ns) PROVE ReadInv'
  BY <1>0, <1>11 DEF MainCount
<1>12. ASSUME NEW w \in Workers, MainSpawn(w) PROVE ReadInv'
  BY <1>0, <1>12 DEF MainSpawn
<1>13. CASE MainNoSpawn
  BY <1>0, <1>13 DEF MainNoSpawn
<1>14. ASSUME NEW w \in Workers, WorkerConnect(w) \/ WorkerNotStable(w) \/ WorkerStable(w)
      PROVE  ReadInv'
  BY <1>0, <1>14 DEF WorkerConnect, WorkerNotStable, WorkerStable
<1>15. ASSUME NEW w \in Workers, WorkerError(w) PROVE ReadInv'
  BY <1>0, <1>15 DEF WorkerError, WorkerEnds
<1>16. ASSUME NEW w \in Workers, WorkerReadTables(w) PROVE ReadInv'
  BY <1>0, <1>16 DEF WorkerReadTables
<1>17. ASSUME NEW w \in Workers, WorkerReadRules(w) PROVE ReadInv'
  BY <1>0, <1>17 DEF WorkerReadRules
<1>18. ASSUME NEW w \in Workers, WorkerTranslate(w) PROVE ReadInv'
  BY <1>0, <1>18 DEF WorkerTranslate
<1>19. ASSUME NEW w \in Workers, WorkerInstall(w) \/ WorkerInstallFails(w) PROVE ReadInv'
  BY <1>0, <1>19 DEF WorkerInstall, WorkerInstallFails, WorkerEnds
<1>20. ASSUME NEW w \in Workers, WorkerRecord(w) PROVE ReadInv'
  BY <1>0, <1>20 DEF WorkerRecord
<1>21. ASSUME NEW w \in Workers, WorkerReset(w) PROVE ReadInv'
  BY <1>0, <1>21 DEF WorkerReset, WorkerEnds
<1>22. CASE BootRaise
  BY <1>0, <1>22 DEF BootRaise, MainExit, Unsubscribe
<1>23. CASE MainSpawnFails
  BY <1>0, <1>23 DEF MainSpawnFails, MainExit, Unsubscribe
<1>24. ASSUME NEW w \in Workers, WorkerRaise(w) PROVE ReadInv'
  BY <1>0, <1>24 DEF WorkerRaise
<1>25. CASE Restart
  BY <1>0, <1>25 DEF Restart
<1>26. CASE UNCHANGED vars
  BY <1>0, <1>26 DEF vars
<1> QED
  BY <1>1, <1>2, <1>3, <1>4, <1>5, <1>6, <1>7, <1>8, <1>9, <1>10, <1>11, <1>12, <1>13, <1>14,
     <1>15, <1>16, <1>17, <1>18, <1>19, <1>20, <1>21, <1>22, <1>23, <1>24, <1>25, <1>26
  DEF Next, Operator, Boot, Loop, Update, Fault

\* A change of the switch after the translation is handed on in todo, which a thread that
\* holds the lock keeps there.
LEMMA PlanStep ==
    ASSUME NS = {Host}, Control, HostInv, [Next]_vars
    PROVE  PlanInv'
<1> USE DEF TypeOK, Dead, PlanInv, Own, BootInv, BootPCs, ThreadInv, ReadInv, TodoInv, LockInv,
         LockedPCs
<1> USE DEF db, events, main, shared, sync, worker, kernel, hist, bounds
<1>0. /\ NS = {Host} /\ TypeOK /\ ThreadInv /\ LockInv /\ RecordInv /\ CountInv /\ TodoInv
      /\ BootInv /\ ReadInv /\ PlanInv /\ CaclAssumption
  BY CaclAssumption DEF Control, HostInv
<1>1. CASE Operator
  BY <1>0, <1>1 DEF Operator, SetTable, SetRules, ToggleRedfish, OperatorStep
<1>2. ASSUME NEW ns \in NS, BootReadTables(ns) PROVE PlanInv'
  BY <1>0, <1>2 DEF BootReadTables
<1>3. CASE BootReadRules
  BY <1>0, <1>3 DEF BootReadRules
<1>4. CASE BootInstall \/ BootInstallFails
  BY <1>0, <1>4 DEF BootInstall, BootInstallFails
<1>5. CASE BootSubscribe
  BY <1>0, <1>5 DEF BootSubscribe
<1>6. CASE MainCheck \/ MainTimeout \/ MainNotifyDone
  BY <1>0, <1>6 DEF MainCheck, MainTimeout, MainNotifyDone
<1>7. CASE MainKill
  BY <1>0, <1>7 DEF MainKill, Unsubscribe
<1>8. ASSUME NEW ns \in NS, MainDrainTables(ns) PROVE PlanInv'
  BY <1>0, <1>8 DEF MainDrainTables
<1>9. CASE MainDrainRules
  BY <1>0, <1>9 DEF MainDrainRules
<1>10. CASE MainKeyError
  BY <1>0, <1>10 DEF MainKeyError, MainExit, Unsubscribe
<1>11. ASSUME NEW ns \in NS, MainCount(ns) PROVE PlanInv'
  BY <1>0, <1>11 DEF MainCount
<1>12. ASSUME NEW w \in Workers, MainSpawn(w) PROVE PlanInv'
  BY <1>0, <1>12 DEF MainSpawn
<1>13. CASE MainNoSpawn
  BY <1>0, <1>13 DEF MainNoSpawn
<1>14. ASSUME NEW w \in Workers, WorkerConnect(w) \/ WorkerNotStable(w) \/ WorkerStable(w)
      PROVE  PlanInv'
  BY <1>0, <1>14 DEF WorkerConnect, WorkerNotStable, WorkerStable
<1>15. ASSUME NEW w \in Workers, WorkerError(w) PROVE PlanInv'
  BY <1>0, <1>15 DEF WorkerError, WorkerEnds
<1>16. ASSUME NEW w \in Workers, WorkerReadTables(w) PROVE PlanInv'
  BY <1>0, <1>16 DEF WorkerReadTables
<1>17. ASSUME NEW w \in Workers, WorkerReadRules(w) PROVE PlanInv'
  BY <1>0, <1>17 DEF WorkerReadRules
<1>18. ASSUME NEW w \in Workers, WorkerTranslate(w) PROVE PlanInv'
  BY <1>0, <1>18 DEF WorkerTranslate
<1>19. ASSUME NEW w \in Workers, WorkerInstall(w) \/ WorkerInstallFails(w) PROVE PlanInv'
  BY <1>0, <1>19 DEF WorkerInstall, WorkerInstallFails, WorkerEnds
<1>20. ASSUME NEW w \in Workers, WorkerRecord(w) PROVE PlanInv'
  BY <1>0, <1>20 DEF WorkerRecord
<1>21. ASSUME NEW w \in Workers, WorkerReset(w) PROVE PlanInv'
  BY <1>0, <1>21 DEF WorkerReset, WorkerEnds
<1>22. CASE BootRaise
  BY <1>0, <1>22 DEF BootRaise, MainExit, Unsubscribe
<1>23. CASE MainSpawnFails
  BY <1>0, <1>23 DEF MainSpawnFails, MainExit, Unsubscribe
<1>24. ASSUME NEW w \in Workers, WorkerRaise(w) PROVE PlanInv'
  BY <1>0, <1>24 DEF WorkerRaise
<1>25. CASE Restart
  BY <1>0, <1>25 DEF Restart
<1>26. CASE UNCHANGED vars
  BY <1>0, <1>26 DEF vars
<1> QED
  BY <1>1, <1>2, <1>3, <1>4, <1>5, <1>6, <1>7, <1>8, <1>9, <1>10, <1>11, <1>12, <1>13, <1>14,
     <1>15, <1>16, <1>17, <1>18, <1>19, <1>20, <1>21, <1>22, <1>23, <1>24, <1>25, <1>26
  DEF Next, Operator, Boot, Loop, Update, Fault

\* An update ends with its plan in iptables; until then it is counted.
LEMMA HeldStep ==
    ASSUME NS = {Host}, Control, HostInv, [Next]_vars
    PROVE  HeldInv'
<1> USE DEF TypeOK, Dead, HeldInv, Own, BootInv, BootPCs, ReadInv, PlanInv, TodoInv, CountInv,
         Counted, RecordInv, LockedPCs
<1> USE DEF db, events, main, shared, sync, worker, kernel, hist, bounds
<1>0. /\ NS = {Host} /\ TypeOK /\ ThreadInv /\ LockInv /\ RecordInv /\ CountInv /\ TodoInv
      /\ BootInv /\ ReadInv /\ PlanInv /\ HeldInv
  BY CaclAssumption DEF Control, HostInv
<1>1. CASE Operator
  BY <1>0, <1>1 DEF Operator, SetTable, SetRules, ToggleRedfish, OperatorStep
<1>2. ASSUME NEW ns \in NS, BootReadTables(ns) PROVE HeldInv'
  BY <1>0, <1>2 DEF BootReadTables
<1>3. CASE BootReadRules
  BY <1>0, <1>3 DEF BootReadRules
<1>4. CASE BootInstall \/ BootInstallFails
  BY <1>0, <1>4 DEF BootInstall, BootInstallFails, SomeCommandFails
<1>5. CASE BootSubscribe
  BY <1>0, <1>5 DEF BootSubscribe
<1>6. CASE MainCheck \/ MainTimeout \/ MainNotifyDone
  BY <1>0, <1>6 DEF MainCheck, MainTimeout, MainNotifyDone
<1>7. CASE MainKill
  BY <1>0, <1>7 DEF MainKill, Unsubscribe
<1>8. ASSUME NEW ns \in NS, MainDrainTables(ns) PROVE HeldInv'
  BY <1>0, <1>8 DEF MainDrainTables
<1>9. CASE MainDrainRules
  BY <1>0, <1>9 DEF MainDrainRules
<1>10. CASE MainKeyError
  BY <1>0, <1>10 DEF MainKeyError, MainExit, Unsubscribe
<1>11. ASSUME NEW ns \in NS, MainCount(ns) PROVE HeldInv'
  BY <1>0, <1>11 DEF MainCount
<1>12. ASSUME NEW w \in Workers, MainSpawn(w) PROVE HeldInv'
  BY <1>0, <1>12 DEF MainSpawn
<1>13. CASE MainNoSpawn
  BY <1>0, <1>13 DEF MainNoSpawn
<1>14. ASSUME NEW w \in Workers, WorkerConnect(w) \/ WorkerNotStable(w) \/ WorkerStable(w)
      PROVE  HeldInv'
  BY <1>0, <1>14 DEF WorkerConnect, WorkerNotStable, WorkerStable
<1>15. ASSUME NEW w \in Workers, WorkerError(w) PROVE HeldInv'
  <2>1. Dead \/ Host \in exc \/ (0 < captured[w] /\ captured[w] <= num[Host])
    BY <1>0, <1>15 DEF WorkerError
  <2>2. Dead \/ Host \in exc
    <3>1. wns[w] = Host /\ captured[w] \in Nat /\ num[Host] \in Nat
      BY <1>0
    <3>2. num[Host] <= captured[w] /\ ~(num[Host] = captured[w] /\ captured[w] > 0)
      BY <3>1, <1>15 DEF WorkerError
    <3> QED
      BY <2>1, <3>1, <3>2
  <2>3. UNCHANGED <<mpc, exc>>
    BY <1>15 DEF WorkerError
  <2> QED
    BY <2>2, <2>3
<1>16. ASSUME NEW w \in Workers, WorkerReadTables(w) PROVE HeldInv'
  BY <1>0, <1>16 DEF WorkerReadTables
<1>17. ASSUME NEW w \in Workers, WorkerReadRules(w) PROVE HeldInv'
  BY <1>0, <1>17 DEF WorkerReadRules
<1>18. ASSUME NEW w \in Workers, WorkerTranslate(w) PROVE HeldInv'
  BY <1>0, <1>18 DEF WorkerTranslate
<1>19. ASSUME NEW w \in Workers, WorkerInstall(w) \/ WorkerInstallFails(w) PROVE HeldInv'
  BY <1>0, <1>19 DEF WorkerInstall, WorkerInstallFails, SomeCommandFails, WorkerEnds
<1>20. ASSUME NEW w \in Workers, WorkerRecord(w) PROVE HeldInv'
  BY <1>0, <1>20 DEF WorkerRecord
<1>21. ASSUME NEW w \in Workers, WorkerReset(w) PROVE HeldInv'
  BY <1>0, <1>21 DEF WorkerReset, WorkerEnds
<1>22. CASE BootRaise
  BY <1>0, <1>22 DEF BootRaise, MainExit, Unsubscribe
<1>23. CASE MainSpawnFails
  BY <1>0, <1>23 DEF MainSpawnFails, MainExit, Unsubscribe
<1>24. ASSUME NEW w \in Workers, WorkerRaise(w) PROVE HeldInv'
  BY <1>0, <1>24 DEF WorkerRaise
<1>25. CASE Restart
  BY <1>0, <1>25 DEF Restart
<1>26. CASE UNCHANGED vars
  BY <1>0, <1>26 DEF vars
<1> QED
  BY <1>1, <1>2, <1>3, <1>4, <1>5, <1>6, <1>7, <1>8, <1>9, <1>10, <1>11, <1>12, <1>13, <1>14,
     <1>15, <1>16, <1>17, <1>18, <1>19, <1>20, <1>21, <1>22, <1>23, <1>24, <1>25, <1>26
  DEF Next, Operator, Boot, Loop, Update, Fault

\* The start: whatever was left, the first reading is still to come.
LEMMA HostInitially == Init => HostInv
  BY DEF Init, HostInv, BootInv, FeatInv, ReadInv, PlanInv, HeldInv, BootPCs, Dead

\* With one namespace, what is read is what is programmed.
LEMMA HostInvariant ==
    ASSUME NS = {Host}
    PROVE  Spec => []HostInv
<1>1. Control /\ HostInv /\ [Next]_vars => HostInv'
  BY BootStep, FeatStep, ReadStep, PlanStep, HeldStep DEF HostInv
<1> QED
  BY <1>1, HostInitially, ControlInvariant, PTL DEF Spec

\* No thread is there to raise or to reset when nothing is owed.
LEMMA NothingUnderWay ==
    ASSUME Control, ~Owed(Host)
    PROVE  ~TablesOwed(Host) /\ \A t \in Tables : ~RulesOwed(Host, t)
<1>1. ~Dead /\ Host \in sub /\ ~Ready(Host) /\ Host \notin todo \union exc /\ num[Host] = 0
  <2>1. num[Host] \in Nat
    BY CaclAssumption DEF Control, TypeOK
  <2> QED
    BY <2>1 DEF Owed
<1>2. ASSUME NEW w \in Workers, wns[w] = Host PROVE wpc[w] \notin Counted \union {"reset"}
  <2>1. captured[w] \in Nat
    BY DEF Control, TypeOK
  <2>2. wpc[w] \in Counted => 0 < captured[w] /\ captured[w] <= 0
    BY <1>1, <1>2 DEF Control, CountInv
  <2>3. wpc[w] # "reset"
    BY <1>1, <1>2 DEF Control, RecordInv
  <2> QED
    BY <2>1, <2>2, <2>3
<1>3. ~tblEv[Host] /\ ruleEv[Host] = {}
  BY <1>1 DEF Ready
<1> QED
  BY <1>1, <1>2, <1>3 DEF TablesOwed, RulesOwed, ThreadAt, Counted, LockedPCs

\* When nothing is owed, what the last update read is in iptables ...
LEMMA OwnHeld ==
    ASSUME NS = {Host}, Control, HostInv, ~Owed(Host), ~failed[Host]
    PROVE  installed[Host] = Own
<1>1. ~Dead /\ Host \in sub /\ Host \notin todo \union exc /\ num[Host] = 0
  <2>1. num[Host] \in Nat
    BY CaclAssumption DEF Control, TypeOK
  <2> QED
    BY <2>1 DEF Owed
<1>2. mpc \notin BootPCs
  BY <1>1 DEF HostInv, BootInv
<1> QED
  BY <1>1, <1>2 DEF HostInv, HeldInv, BootPCs

\* ... and it is what CONFIG_DB asks for.
LEMMA ViewHeld ==
    ASSUME NS = {Host}, Control, NoLostChange, HostInv, ~Owed(Host), ~missed[Host],
           ~failed[Host]
    PROVE  installed[Host] = View(Host)
<1>1. seenT[Host] = type[Host]
  BY NothingUnderWay DEF NoLostChange
<1>2. \A t \in Tables : type[Host][t] = "ctrl" => seenR[Host][t] = rules[Host][t]
  BY NothingUnderWay DEF NoLostChange
<1>3. redfishAllowed = redfish
  BY DEF HostInv, FeatInv, Owed, Ready
<1>4. Own = View(Host)
  BY <1>1, <1>2, <1>3 DEF Own, View, Translate
<1> QED
  BY <1>4, OwnHeld

\* What AclSync sees of the host namespace.
SyncInv ==
    /\ View(Host) \in [Tables -> Contents]
    /\ installed[Host] \in [Tables -> Contents] \union {Broken}
    /\ missed[Host] \in BOOLEAN /\ failed[Host] \in BOOLEAN
    /\ Owed(Host) \/ missed[Host] \/ failed[Host] \/ installed[Host] = View(Host)

LEMMA SyncHeld ==
    ASSUME NS = {Host}, Control, NoLostChange, HostInv
    PROVE  SyncInv
<1>1. TypeOK /\ Host \in NS /\ NoRules \in Contents
  BY CaclAssumption DEF Control
<1>2. \A t \in Tables : rules[Host][t] \in Contents
  BY <1>1 DEF TypeOK
<1>3. View(Host) \in [Tables -> Contents]
  BY <1>1, <1>2 DEF View, Translate
<1>4. /\ installed[Host] \in [Tables -> Contents] \union {Broken}
      /\ missed[Host] \in BOOLEAN /\ failed[Host] \in BOOLEAN
  BY <1>1 DEF TypeOK
<1> QED
  BY <1>3, <1>4, ViewHeld DEF SyncInv

\* The operator leaves iptables alone, and the other steps CONFIG_DB.
LEMMA OperatorApart ==
    ASSUME [Next]_vars
    PROVE  \/ Operator /\ UNCHANGED <<installed, failed, missed>>
           \/ UNCHANGED db
<1> USE DEF db, events, main, shared, sync, worker, kernel, hist, bounds
<1>1. CASE Operator
  BY <1>1 DEF Operator, SetTable, SetRules, ToggleRedfish, OperatorStep
<1>2. CASE Boot
  BY <1>2 DEF Boot, BootReadTables, BootReadRules, BootInstall, BootSubscribe
<1>3. CASE Loop
  BY <1>3
  DEF Loop, MainCheck, MainKill, MainTimeout, MainDrainTables, MainDrainRules, MainKeyError,
      MainNotifyDone, MainCount, MainSpawn, MainNoSpawn
<1>4. ASSUME NEW w \in Workers, Update(w) PROVE UNCHANGED db
  BY <1>4
  DEF Update, WorkerConnect, WorkerNotStable, WorkerStable, WorkerError, WorkerReadTables,
      WorkerReadRules, WorkerTranslate, WorkerInstall, WorkerRecord, WorkerReset
<1>5. CASE Fault \/ Restart
  BY <1>5
  DEF Fault, BootRaise, BootInstallFails, MainSpawnFails, WorkerRaise, WorkerInstallFails, Restart
<1>6. CASE UNCHANGED vars
  BY <1>6 DEF vars
<1> QED
  BY <1>1, <1>2, <1>3, <1>4, <1>5, <1>6 DEF Next

\* iptables is only touched, and a loss only made or made good, while an update is owed.
LEMMA TouchedWhenOwed ==
    ASSUME NS = {Host}, Control, HostInv, [Next]_vars,
           ~UNCHANGED <<installed, failed, missed>>
    PROVE  Owed(Host)
<1> USE DEF db, events, main, shared, sync, worker, kernel, hist, bounds
<1>1. TypeOK /\ CountInv /\ BootInv
  BY DEF Control, HostInv
<1>2. CASE mpc \in BootPCs
  BY <1>1, <1>2 DEF BootInv, Owed
<1>3. ASSUME NEW w \in Workers, wpc[w] \in Counted PROVE Owed(Host)
  <2>1. wns[w] = Host /\ captured[w] \in Nat /\ num[Host] \in Nat
    BY <1>1 DEF TypeOK
  <2>2. Dead \/ Host \in exc \/ (0 < captured[w] /\ captured[w] <= num[Host])
    BY <1>1, <1>3, <2>1 DEF CountInv
  <2>3. Dead \/ Host \in exc \/ num[Host] > 0
    BY <2>1, <2>2
  <2> QED
    BY <2>3 DEF Owed
<1>4. CASE Operator
  BY <1>4 DEF Operator, SetTable, SetRules, ToggleRedfish, OperatorStep
<1>5. CASE Boot
  BY <1>2, <1>5 DEF Boot, BootReadTables, BootReadRules, BootInstall, BootSubscribe, BootPCs
<1>6. CASE Loop /\ ~MainKill
  BY <1>6
  DEF Loop, MainCheck, MainTimeout, MainDrainTables, MainDrainRules, MainKeyError,
      MainNotifyDone, MainCount, MainSpawn, MainNoSpawn
<1>7. ASSUME NEW w \in Workers, Update(w) PROVE Owed(Host)
  BY <1>3, <1>7
  DEF Update, WorkerConnect, WorkerNotStable, WorkerStable, WorkerError, WorkerReadTables,
      WorkerReadRules, WorkerTranslate, WorkerInstall, WorkerRecord, WorkerReset, Counted,
     LockedPCs
<1>8. CASE BootRaise \/ BootInstallFails
  BY <1>2, <1>8 DEF BootRaise, BootInstallFails, BootPCs
<1>9. CASE MainSpawnFails \/ Restart
  BY <1>9 DEF MainSpawnFails, Restart
<1>10. ASSUME NEW w \in Workers, WorkerRaise(w) \/ WorkerInstallFails(w) PROVE Owed(Host)
  BY <1>3, <1>10 DEF WorkerRaise, WorkerInstallFails, Counted, LockedPCs
<1>11. CASE UNCHANGED vars
  BY <1>11 DEF vars
<1>12. CASE MainKill
  <2>1. CASE \E w \in Workers : wpc[w] = "install"
    BY <1>3, <2>1 DEF Counted, LockedPCs
  <2>2. CASE \A w \in Workers : wpc[w] # "install"
    <3>1. \A ns \in NS : ~ThreadAt(ns, {"install"})
      BY <2>2 DEF ThreadAt
    <3>2. installed' = [ns \in NS |-> installed[ns]]
      BY <1>12, <3>1 DEF MainKill
    <3>3. UNCHANGED <<installed, failed, missed>>
      BY <1>1, <1>12, <3>2 DEF MainKill, TypeOK
    <3> QED
      BY <3>3
  <2> QED
    BY <2>1, <2>2
<1> QED
  BY <1>4, <1>5, <1>6, <1>7, <1>8, <1>9, <1>10, <1>11, <1>12 DEF Next, Fault

\* A change of CONFIG_DB that matters leaves an update owed: it leaves a notification, or
\* there is nobody subscribed yet.
LEMMA ChangeOwes ==
    ASSUME NS = {Host}, Control, Operator
    PROVE  Owed(Host)' \/ View(Host)' = View(Host)
<1> USE DEF Owed, Ready, Dead, db, events, main, shared, sync, worker, kernel, hist, bounds
<1>1. TypeOK
  BY DEF Control
<1>2. ASSUME NEW ns \in NS, NEW t \in Tables, NEW ty \in TableTypes, SetTable(ns, t, ty)
      PROVE  Owed(Host)'
  BY <1>1, <1>2 DEF SetTable, OperatorStep, TypeOK
<1>3. ASSUME NEW ns \in NS, NEW t \in Tables, NEW c \in Contents, SetRules(ns, t, c)
      PROVE  Owed(Host)'
  BY <1>1, <1>3 DEF SetRules, OperatorStep, TypeOK
<1>4. CASE ToggleRedfish
  BY <1>4 DEF ToggleRedfish, OperatorStep
<1> QED
  BY <1>2, <1>3, <1>4 DEF Operator

\* Each step is a step of AclSync, or none.
LEMMA HostSyncStep ==
    ASSUME NS = {Host}, Control, HostInv, SyncInv, SyncInv', [Next]_vars
    PROVE  [HostSync!Next]_(HostSync!vars)
<1> DEFINE o == Owed(Host)
           l == missed[Host] \/ failed[Host]
           v == View(Host)
           i == installed[Host]
<1>1. /\ v' \in [Tables -> Contents]
      /\ i' \in [Tables -> Contents] \union {Broken}
  BY DEF SyncInv
<1>2. /\ ~o => l \/ i = v
      /\ ~o' => l' \/ i' = v'
  BY DEF SyncInv
<1>3. o \/ (i' = i /\ l' = l)
  BY TouchedWhenOwed
<1>4. o \in BOOLEAN /\ o' \in BOOLEAN /\ l \in BOOLEAN /\ l' \in BOOLEAN
  BY DEF SyncInv, Owed
<1>5. CASE Operator /\ UNCHANGED <<installed, failed, missed>>
  <2>1. o' \/ v' = v
    BY <1>5, ChangeOwes
  <2>2. i' = i /\ l' = l
    BY <1>5
  <2>3. CASE o'
    <3>1. HostSync!Change
      BY <1>1, <1>4, <2>2, <2>3 DEF HostSync!Change
    <3> QED
      BY <3>1 DEF HostSync!Next
  <2>4. CASE ~o' /\ v' = v /\ o /\ ~l'
    <3>1. HostSync!Settle
      BY <1>2, <1>4, <2>4 DEF HostSync!Settle
    <3> QED
      BY <3>1 DEF HostSync!Next
  <2>5. CASE ~o' /\ v' = v /\ o /\ l'
    <3>1. HostSync!Lose
      BY <1>1, <1>4, <2>5 DEF HostSync!Lose
    <3> QED
      BY <3>1 DEF HostSync!Next
  <2>6. CASE ~o' /\ v' = v /\ ~o
    BY <1>4, <2>2, <2>6 DEF HostSync!vars
  <2> QED
    BY <2>1, <2>3, <2>4, <2>5, <2>6
<1>6. CASE UNCHANGED db
  <2>1. v' = v
    BY <1>6 DEF db, View
  <2>2. CASE o' /\ i' = i /\ l' = l
    <3>1. HostSync!Owe
      BY <1>4, <2>1, <2>2 DEF HostSync!Owe
    <3> QED
      BY <3>1 DEF HostSync!Next
  <2>3. CASE o' /\ ~(i' = i /\ l' = l)
    <3>1. HostSync!Program
      BY <1>1, <1>3, <1>4, <2>1, <2>3 DEF HostSync!Program
    <3> QED
      BY <3>1 DEF HostSync!Next
  <2>4. CASE ~o' /\ o /\ ~l'
    <3>1. HostSync!Settle
      BY <1>2, <1>4, <2>1, <2>4 DEF HostSync!Settle
    <3> QED
      BY <3>1 DEF HostSync!Next
  <2>5. CASE ~o' /\ o /\ l'
    <3>1. HostSync!Lose
      BY <1>1, <1>4, <2>1, <2>5 DEF HostSync!Lose
    <3> QED
      BY <3>1 DEF HostSync!Next
  <2>6. CASE ~o' /\ ~o
    BY <1>3, <1>4, <2>1, <2>6 DEF HostSync!vars
  <2> QED
    BY <2>2, <2>3, <2>4, <2>5, <2>6
<1> QED
  BY <1>5, <1>6, OperatorApart

(* On a device with one namespace caclmgrd implements AclSync: the debt is *)
(* cleared only by holding in iptables what CONFIG_DB asks for, or by one  *)
(* of the two losses nobody makes good (a command that failed, rows gone   *)
(* before the subscription), however changes, exceptions, failing commands *)
(* and new starts fall.                                                    *)
THEOREM SyncImplemented ==
    ASSUME NS = {Host}
    PROVE  Spec => ImplementsAclSync
<1>1. Init => HostSync!Init
  <2> SUFFICES ASSUME Init PROVE HostSync!Init
    OBVIOUS
  <2>1. NoLostChange
    BY DEF Init, NoLostChange, RulesOwed, TablesOwed
  <2>2. SyncInv
    BY <2>1, InitControl, HostInitially, SyncHeld
  <2>3. Owed(Host) = TRUE /\ (missed[Host] \/ failed[Host]) = FALSE
    BY CaclAssumption DEF Init, Owed
  <2> QED
    BY <2>2, <2>3 DEF HostSync!Init, SyncInv
<1>2. Control /\ NoLostChange /\ HostInv => SyncInv
  BY SyncHeld
<1>3. Control /\ HostInv /\ SyncInv /\ SyncInv' /\ [Next]_vars
      => [HostSync!Next]_(HostSync!vars)
  BY HostSyncStep
<1> QED
  BY <1>1, <1>2, <1>3, ControlInvariant, NoChangeLost, HostInvariant, PTL
  DEF Spec, ImplementsAclSync, HostSync!Spec

(* On a device with one namespace an update programs what it has read,     *)
(* although the rows pass through attributes of all threads, unless one of *)
(* its commands fails.                                                     *)
THEOREM OwnRowsInstalled ==
    ASSUME NS = {Host}
    PROVE  Spec => []InstalledFromOwnRows
<1>1. Control /\ HostInv => InstalledFromOwnRows
  BY OwnHeld DEF InstalledFromOwnRows, Own
<1> QED
  BY <1>1, ControlInvariant, HostInvariant, PTL
=============================================================================
