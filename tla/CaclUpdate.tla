----------------------------- MODULE CaclUpdate -----------------------------
(***************************************************************************)
(* The update machinery of scripts/caclmgrd: how a change of the control   *)
(* plane ACLs in CONFIG_DB becomes a reprogramming of iptables.            *)
(*                                                                         *)
(* The main thread programs every namespace once, subscribes, and then     *)
(* loops over select: it drains the ACL_TABLE, ACL_RULE and FEATURE        *)
(* notifications, counts a change per namespace and spawns an update       *)
(* thread when the namespace has none.  The update thread sleeps, and once *)
(* no further change was counted during its sleep it reads CONFIG_DB,      *)
(* translates and programs iptables, holding the namespace's lock.  An     *)
(* exception in an update thread makes the main thread SIGKILL the         *)
(* process; systemd (Restart=always) starts it again.                      *)
(***************************************************************************)
EXTENDS Naturals

CONSTANTS
    NS,            \* the namespaces with a CONFIG_DB connector (host and front ASICs)
    Host,          \* DEFAULT_NAMESPACE, whose CONFIG_DB holds FEATURE
    Tables,        \* the names of ACL tables
    RedfishTables, \* those that serve REDFISH
    Contents,      \* the possible rule sets of one table
    NoRules,       \* the empty rule set
    Broken,        \* iptables after a list of commands that did not all take effect
    Workers,       \* identities of update threads
    None,          \* no thread
    MaxChanges,    \* bound: changes made to CONFIG_DB
    MaxFaults      \* bound: exceptions raised and programmings with a failing command

Main == "main"   \* the main thread as the holder of a lock

ASSUME CaclAssumption ==
    /\ Host \in NS
    /\ RedfishTables \subseteq Tables
    /\ NoRules \in Contents
    /\ None \notin Workers
    /\ Main \notin Workers
    /\ Main # None
    /\ MaxChanges \in Nat
    /\ MaxFaults \in Nat

VARIABLES
    type,           \* CONFIG_DB ACL_TABLE: the type of each table, "none" if there is no row
    rules,          \* CONFIG_DB ACL_RULE: the rule set of each table
    redfish,        \* CONFIG_DB FEATURE|redfish is enabled
    tblEv,          \* ACL_TABLE notifications not yet popped
    ruleEv,         \* tables with ACL_RULE notifications not yet popped
    featEv,         \* a FEATURE|redfish notification not yet popped
    mpc,            \* where the main thread is
    cur,            \* the namespace the main thread works on
    sub,            \* namespaces whose ACL tables are subscribed
    todo,           \* ctrl_plane_acl_notification
    redfishAllowed, \* self.RedfishAllowed
    tablesInfo,     \* self._tables_db_info, one attribute for all threads
    rulesInfo,      \* self._rules_db_info, likewise
    lock,           \* who holds self.lock[namespace]
    num,            \* self.num_changes
    updateThread,   \* self.update_thread
    exc,            \* namespaces with an entry in self.thread_exceptions
    wpc,            \* where each update thread is
    wns,            \* its namespace
    captured,       \* its local num_changes
    plan,           \* its iptables_cmds
    installed,      \* what iptables holds for the control plane ACLs
    failed,         \* history: a command of the namespace's last programming failed
    seenT, seenR,   \* history: the rows the last update of the namespace read
    missed,         \* history: rows vanished between the first reading and the subscription
    changes, faults \* the bounded counters

db     == <<type, rules, redfish>>
events == <<tblEv, ruleEv, featEv>>
main   == <<mpc, cur, sub, todo, redfishAllowed>>
shared == <<tablesInfo, rulesInfo>>
sync   == <<lock, num, updateThread, exc>>
worker == <<wpc, wns, captured, plan>>
kernel == <<installed, failed>>
hist   == <<seenT, seenR, missed>>
bounds == <<changes, faults>>

vars == <<db, events, main, shared, sync, worker, kernel, hist, bounds>>

TableTypes == {"none", "ctrl", "data"}
MainPCs    == {"boot", "bootRules", "bootInstall", "bootSub", "check", "select",
               "drainRules", "notify", "spawn", "exited", "killed"}
\* inside check_and_update_control_plane_acls with the lock taken
LockedPCs  == {"readTables", "readRules", "translate", "install"}
WorkerPCs  == {"idle", "start", "sleep", "raised", "reset"} \union LockedPCs

Dead == mpc \in {"exited", "killed"}
-----------------------------------------------------------------------------
\* Mutant of Translate: tables of another type have no entry.
TranslateOmits(types, contents, allowed) ==
    [t \in {u \in Tables : types[u] = "ctrl"} |-> contents[t]]

(* get_acl_rules_and_translate_to_iptables_commands: the rules of the      *)
(* CTRLPLANE tables, those for REDFISH only while the feature is enabled.  *)
Translate(types, contents, allowed) ==
    [t \in Tables |->
        IF types[t] = "ctrl" /\ (t \in RedfishTables => allowed)
        THEN contents[t] ELSE NoRules]

\* What CONFIG_DB asks for.
View(ns) == Translate(type[ns], rules[ns], redfish)

\* Some update thread of the namespace is at one of these steps.
ThreadAt(ns, pcs) == \E w \in Workers : wns[w] = ns /\ wpc[w] \in pcs

EmptyTypes == [t \in Tables |-> "none"]
EmptyRules == [t \in Tables |-> NoRules]
-----------------------------------------------------------------------------
Init ==
    /\ type \in [NS -> [Tables -> TableTypes]]
    /\ rules \in [NS -> [Tables -> Contents]]
    /\ \A ns \in NS, t \in Tables : type[ns][t] = "none" => rules[ns][t] = NoRules
    /\ redfish \in BOOLEAN
    /\ tblEv = [ns \in NS |-> FALSE]
    /\ ruleEv = [ns \in NS |-> {}]
    /\ featEv = TRUE
    /\ mpc = "boot"
    /\ cur = Host
    /\ sub = {}
    /\ todo = {}
    /\ redfishAllowed = redfish
    /\ tablesInfo = EmptyTypes
    /\ rulesInfo = EmptyRules
    /\ lock = [ns \in NS |-> None]
    /\ num = [ns \in NS |-> 0]
    /\ updateThread = [ns \in NS |-> None]
    /\ exc = {}
    /\ wpc = [w \in Workers |-> "idle"]
    /\ wns = [w \in Workers |-> Host]
    /\ captured = [w \in Workers |-> 0]
    /\ plan = [w \in Workers |-> EmptyRules]
    /\ installed = [ns \in NS |-> EmptyRules]
    /\ failed = [ns \in NS |-> FALSE]
    /\ seenT = [ns \in NS |-> EmptyTypes]
    /\ seenR = [ns \in NS |-> EmptyRules]
    /\ missed = [ns \in NS |-> FALSE]
    /\ changes = 0
    /\ faults = 0
-----------------------------------------------------------------------------
(* CONFIG_DB, written by the operator.  A rule is added to an existing     *)
(* table and deleted before it (the leafref of the YANG model).  A change  *)
(* to a subscribed table leaves a notification; the subscriber reads the   *)
(* row when it pops it.                                                    *)

OperatorStep ==
    /\ changes < MaxChanges
    /\ changes' = changes + 1
    /\ UNCHANGED <<main, shared, sync, worker, kernel, hist, faults>>

SetTable(ns, t, ty) ==
    /\ OperatorStep
    /\ type[ns][t] # ty
    /\ ty = "none" => rules[ns][t] = NoRules
    /\ type' = [type EXCEPT ![ns][t] = ty]
    /\ tblEv' = [tblEv EXCEPT ![ns] = @ \/ ns \in sub]
    /\ UNCHANGED <<rules, redfish, ruleEv, featEv>>

SetRules(ns, t, c) ==
    /\ OperatorStep
    /\ type[ns][t] # "none"
    /\ rules[ns][t] # c
    /\ rules' = [rules EXCEPT ![ns][t] = c]
    /\ ruleEv' = [ruleEv EXCEPT ![ns] = IF ns \in sub THEN @ \union {t} ELSE @]
    /\ UNCHANGED <<type, redfish, tblEv, featEv>>

ToggleRedfish ==
    /\ OperatorStep
    /\ redfish' = ~redfish
    /\ featEv' = ~Dead
    /\ UNCHANGED <<type, rules, tblEv, ruleEv>>
-----------------------------------------------------------------------------
(* Start-up: update_control_plane_acls for every namespace, each followed  *)
(* by its subscription.  No update thread exists yet and no lock is taken. *)

BootReadTables(ns) ==
    /\ mpc = "boot"
    /\ ns \notin sub
    /\ cur' = ns
    /\ tablesInfo' = type[ns]
    /\ seenT' = [seenT EXCEPT ![ns] = type[ns]]
    /\ missed' = [missed EXCEPT ![ns] = FALSE]
    /\ mpc' = "bootRules"
    /\ UNCHANGED <<db, events, sub, todo, redfishAllowed, rulesInfo, sync, worker,
                   kernel, seenR, bounds>>

BootReadRules ==
    /\ mpc = "bootRules"
    /\ rulesInfo' = rules[cur]
    /\ seenR' = [seenR EXCEPT ![cur] = rules[cur]]
    /\ mpc' = "bootInstall"
    /\ UNCHANGED <<db, events, cur, sub, todo, redfishAllowed, tablesInfo, sync, worker,
                   kernel, seenT, missed, bounds>>

BootInstall ==
    /\ mpc = "bootInstall"
    /\ installed' = [installed EXCEPT ![cur] =
                        Translate(tablesInfo, rulesInfo, redfishAllowed)]
    /\ failed' = [failed EXCEPT ![cur] = FALSE]
    /\ mpc' = "bootSub"
    /\ UNCHANGED <<db, events, cur, sub, todo, redfishAllowed, shared, sync, worker,
                   hist, bounds>>

(* run_commands logs a command that exits nonzero and goes on with the     *)
(* next: the old rules stay, or the new ones are in place none the less,   *)
(* or something else is.  The caller is not told.                          *)
SomeCommandFails(ns, cmds) ==
    /\ faults < MaxFaults
    /\ faults' = faults + 1
    /\ \E left \in {installed[ns], Broken, cmds} :
          installed' = [installed EXCEPT ![ns] = left]
    /\ failed' = [failed EXCEPT ![ns] = TRUE]

BootInstallFails ==
    /\ mpc = "bootInstall"
    /\ SomeCommandFails(cur, Translate(tablesInfo, rulesInfo, redfishAllowed))
    /\ mpc' = "bootSub"
    /\ UNCHANGED <<db, events, cur, sub, todo, redfishAllowed, shared, sync, worker,
                   hist, changes>>

\* Mutant of BootSubscribe: existing rows are not replayed.
BootSubscribeWithoutReplay ==
    /\ mpc = "bootSub"
    /\ sub' = sub \union {cur}
    /\ mpc' = IF sub \union {cur} = NS THEN "check" ELSE "boot"
    /\ UNCHANGED <<db, events, cur, todo, redfishAllowed, shared, sync, worker, kernel,
                   hist, bounds>>

\* The SubscriberStateTable of ACL_TABLE and that of ACL_RULE replay the rows that
\* exist; rows deleted since the reading leave no trace.
BootSubscribe ==
    /\ mpc = "bootSub"
    /\ sub' = sub \union {cur}
    /\ tblEv' = [tblEv EXCEPT ![cur] = type[cur] # EmptyTypes]
    /\ ruleEv' = [ruleEv EXCEPT ![cur] = {t \in Tables : rules[cur][t] # NoRules}]
    /\ missed' = [missed EXCEPT ![cur] =
                     type[cur] = EmptyTypes /\ seenT[cur] # EmptyTypes]
    /\ mpc' = IF sub \union {cur} = NS THEN "check" ELSE "boot"
    /\ UNCHANGED <<db, featEv, cur, todo, redfishAllowed, shared, sync, worker, kernel,
                   seenT, seenR, bounds>>
-----------------------------------------------------------------------------
(* The end of the process, and systemd's restart.                          *)

\* The subscriptions go with the main thread.
Unsubscribe ==
    /\ sub' = {}
    /\ todo' = {}
    /\ tblEv' = [ns \in NS |-> FALSE]
    /\ ruleEv' = [ns \in NS |-> {}]
    /\ featEv' = FALSE

\* An exception ends the main thread; update threads are not daemon threads, so
\* they run on.
MainExit ==
    /\ mpc' = "exited"
    /\ Unsubscribe

\* os.kill(os.getpid(), SIGKILL), which may cut the commands of an update short.
MainKill ==
    /\ mpc = "check"
    /\ exc # {}
    /\ mpc' = "killed"
    /\ Unsubscribe
    /\ wpc' = [w \in Workers |-> "idle"]
    /\ captured' = [w \in Workers |-> 0]
    /\ plan' = [w \in Workers |-> EmptyRules]
    /\ \E cut \in SUBSET {ns \in NS : ThreadAt(ns, {"install"})} :
          installed' = [ns \in NS |-> IF ns \in cut THEN Broken ELSE installed[ns]]
    /\ UNCHANGED <<db, cur, redfishAllowed, shared, sync, wns, failed, hist, bounds>>

\* Any call of the first programming raises, before or amid its commands.
BootRaise ==
    /\ mpc \in {"bootRules", "bootInstall"}
    /\ faults < MaxFaults
    /\ faults' = faults + 1
    /\ MainExit
    /\ installed' \in {installed, [installed EXCEPT ![cur] = Broken]}
    /\ UNCHANGED <<db, cur, redfishAllowed, shared, sync, worker, failed, hist, changes>>

\* __init__: fresh locks and counters; the FEATURE subscription replays its rows.
Restart ==
    /\ Dead
    /\ \A w \in Workers : wpc[w] = "idle"
    /\ mpc' = "boot"
    /\ featEv' = TRUE
    /\ redfishAllowed' = redfish
    /\ lock' = [ns \in NS |-> None]
    /\ num' = [ns \in NS |-> 0]
    /\ updateThread' = [ns \in NS |-> None]
    /\ exc' = {}
    /\ UNCHANGED <<db, tblEv, ruleEv, cur, sub, todo, shared, worker, kernel, hist, bounds>>
-----------------------------------------------------------------------------
(* The loop of run().                                                      *)

\* Mutant of MainCheck: the exceptions of the threads are not looked at every time.
MainCheckSkips ==
    /\ mpc = "check"
    /\ mpc' = "select"
    /\ UNCHANGED <<db, events, cur, sub, todo, redfishAllowed, shared, sync, worker, kernel,
                   hist, bounds>>

MainCheck ==
    /\ mpc = "check"
    /\ exc = {}
    /\ mpc' = "select"
    /\ UNCHANGED <<db, events, cur, sub, todo, redfishAllowed, shared, sync, worker, kernel,
                   hist, bounds>>

Ready(ns) == tblEv[ns] \/ ruleEv[ns] # {} \/ (featEv /\ ns = Host)

\* Select.TIMEOUT after SELECT_TIMEOUT_MS
MainTimeout ==
    /\ mpc = "select"
    /\ \A ns \in NS : ~Ready(ns)
    /\ mpc' = "check"
    /\ UNCHANGED <<db, events, cur, sub, todo, redfishAllowed, shared, sync, worker, kernel,
                   hist, bounds>>

\* handle_redfish_feature_events, which books a change of the feature on the
\* namespace whose object select returned, and then the ACL_TABLE notifications.
MainDrainTables(ns) ==
    /\ mpc = "select"
    /\ Ready(ns)
    /\ cur' = ns
    /\ redfishAllowed' = IF featEv THEN redfish ELSE redfishAllowed
    /\ featEv' = FALSE
    /\ tblEv' = [tblEv EXCEPT ![ns] = FALSE]
    /\ todo' = IF tblEv[ns] \/ redfishAllowed' # redfishAllowed THEN {ns} ELSE {}
    /\ mpc' = "drainRules"
    /\ UNCHANGED <<db, ruleEv, sub, shared, sync, worker, kernel, hist, bounds>>

\* The ACL_RULE notifications: only a rule of a CTRLPLANE table counts.  The type is
\* looked up now, and the lookup raises KeyError when the table's row is gone.
MainDrainRules ==
    /\ mpc = "drainRules"
    /\ \A t \in ruleEv[cur] : type[cur][t] # "none"
    /\ ruleEv' = [ruleEv EXCEPT ![cur] = {}]
    /\ todo' = IF \E t \in ruleEv[cur] : type[cur][t] = "ctrl" THEN {cur} ELSE todo
    /\ mpc' = "notify"
    /\ UNCHANGED <<db, tblEv, featEv, cur, sub, redfishAllowed, shared, sync, worker, kernel,
                   hist, bounds>>

MainKeyError ==
    /\ mpc = "drainRules"
    /\ \E t \in ruleEv[cur] : type[cur][t] = "none"
    /\ MainExit
    /\ UNCHANGED <<db, cur, redfishAllowed, shared, sync, worker, kernel, hist, bounds>>

MainNotifyDone ==
    /\ mpc = "notify"
    /\ todo = {}
    /\ mpc' = "check"
    /\ UNCHANGED <<db, events, cur, sub, todo, redfishAllowed, shared, sync, worker, kernel,
                   hist, bounds>>

\* with self.lock[namespace]: count the change ...
MainCount(ns) ==
    /\ mpc = "notify"
    /\ ns \in todo
    /\ lock[ns] = None
    /\ lock' = [lock EXCEPT ![ns] = Main]
    /\ num' = [num EXCEPT ![ns] = @ + 1]
    /\ cur' = ns
    /\ mpc' = "spawn"
    /\ UNCHANGED <<db, events, sub, todo, redfishAllowed, shared, updateThread, exc, worker,
                   kernel, hist, bounds>>

\* ... and spawn an update thread unless there is one.
MainSpawn(w) ==
    /\ mpc = "spawn"
    /\ updateThread[cur] = None
    /\ wpc[w] = "idle"
    /\ updateThread' = [updateThread EXCEPT ![cur] = w]
    /\ wpc' = [wpc EXCEPT ![w] = "start"]
    /\ wns' = [wns EXCEPT ![w] = cur]
    /\ captured' = [captured EXCEPT ![w] = num[cur]]
    /\ lock' = [lock EXCEPT ![cur] = None]
    /\ todo' = todo \ {cur}
    /\ mpc' = "notify"
    /\ UNCHANGED <<db, events, cur, sub, redfishAllowed, shared, num, exc, plan, kernel,
                   hist, bounds>>

MainNoSpawn ==
    /\ mpc = "spawn"
    /\ updateThread[cur] # None
    /\ lock' = [lock EXCEPT ![cur] = None]
    /\ todo' = todo \ {cur}
    /\ mpc' = "notify"
    /\ UNCHANGED <<db, events, cur, sub, redfishAllowed, shared, num, updateThread, exc,
                   worker, kernel, hist, bounds>>

\* threading.Thread.start() raises "can't start new thread"
MainSpawnFails ==
    /\ mpc = "spawn"
    /\ updateThread[cur] = None
    /\ faults < MaxFaults
    /\ faults' = faults + 1
    /\ lock' = [lock EXCEPT ![cur] = None]
    /\ MainExit
    /\ UNCHANGED <<db, cur, redfishAllowed, shared, num, updateThread, exc, worker, kernel,
                   hist, changes>>
-----------------------------------------------------------------------------
(* check_and_update_control_plane_acls, the body of an update thread.      *)

\* Mutant of WorkerEnds: a missing return, the loop goes round again.
WorkerEndsWithoutReturn(w) ==
    /\ wpc' = [wpc EXCEPT ![w] = "sleep"]
    /\ UNCHANGED <<wns, captured, plan>>

\* The thread is gone with its locals.
WorkerEnds(w) ==
    /\ wpc' = [wpc EXCEPT ![w] = "idle"]
    /\ captured' = [captured EXCEPT ![w] = 0]
    /\ plan' = [plan EXCEPT ![w] = EmptyRules]
    /\ UNCHANGED wns

WorkerConnect(w) ==
    /\ wpc[w] = "start"
    /\ wpc' = [wpc EXCEPT ![w] = "sleep"]
    /\ UNCHANGED <<db, events, main, shared, sync, wns, captured, plan, kernel, hist, bounds>>

\* Mutant of WorkerNotStable: the new count is not remembered.
WorkerNotStableForgets(w) ==
    /\ wpc[w] = "sleep"
    /\ lock[wns[w]] = None
    /\ num[wns[w]] > captured[w]
    /\ UNCHANGED vars

\* More changes were counted during the sleep: sleep again.
WorkerNotStable(w) ==
    /\ wpc[w] = "sleep"
    /\ lock[wns[w]] = None
    /\ num[wns[w]] > captured[w]
    /\ captured' = [captured EXCEPT ![w] = num[wns[w]]]
    /\ UNCHANGED <<db, events, main, shared, sync, wpc, wns, plan, kernel, hist, bounds>>

\* No change for UPDATE_DELAY_SECS: apply, keeping the lock.
WorkerStable(w) ==
    /\ wpc[w] = "sleep"
    /\ lock[wns[w]] = None
    /\ num[wns[w]] = captured[w]
    /\ captured[w] > 0
    /\ lock' = [lock EXCEPT ![wns[w]] = w]
    /\ wpc' = [wpc EXCEPT ![w] = "readTables"]
    /\ UNCHANGED <<db, events, main, shared, num, updateThread, exc, wns, captured, plan,
                   kernel, hist, bounds>>

\* "Error updating ACLs": the counter was reset under this thread.
WorkerError(w) ==
    /\ wpc[w] = "sleep"
    /\ lock[wns[w]] = None
    /\ num[wns[w]] <= captured[w]
    /\ ~(num[wns[w]] = captured[w] /\ captured[w] > 0)
    /\ num' = [num EXCEPT ![wns[w]] = 0]
    /\ updateThread' = [updateThread EXCEPT ![wns[w]] = None]
    /\ WorkerEnds(w)
    /\ UNCHANGED <<db, events, main, shared, lock, exc, kernel, hist,
                   bounds>>

WorkerReadTables(w) ==
    /\ wpc[w] = "readTables"
    /\ tablesInfo' = type[wns[w]]
    /\ seenT' = [seenT EXCEPT ![wns[w]] = type[wns[w]]]
    /\ missed' = [missed EXCEPT ![wns[w]] = FALSE]
    /\ wpc' = [wpc EXCEPT ![w] = "readRules"]
    /\ UNCHANGED <<db, events, main, rulesInfo, sync, wns, captured, plan, kernel, seenR,
                   bounds>>

WorkerReadRules(w) ==
    /\ wpc[w] = "readRules"
    /\ rulesInfo' = rules[wns[w]]
    /\ seenR' = [seenR EXCEPT ![wns[w]] = rules[wns[w]]]
    /\ wpc' = [wpc EXCEPT ![w] = "translate"]
    /\ UNCHANGED <<db, events, main, tablesInfo, sync, wns, captured, plan, kernel, seenT,
                   missed, bounds>>

WorkerTranslate(w) ==
    /\ wpc[w] = "translate"
    /\ plan' = [plan EXCEPT ![w] = Translate(tablesInfo, rulesInfo, redfishAllowed)]
    /\ wpc' = [wpc EXCEPT ![w] = "install"]
    /\ UNCHANGED <<db, events, main, shared, sync, wns, captured, kernel, hist, bounds>>

WorkerInstall(w) ==
    /\ wpc[w] = "install"
    /\ installed' = [installed EXCEPT ![wns[w]] = plan[w]]
    /\ failed' = [failed EXCEPT ![wns[w]] = FALSE]
    /\ num' = [num EXCEPT ![wns[w]] = 0]
    /\ updateThread' = [updateThread EXCEPT ![wns[w]] = None]
    /\ lock' = [lock EXCEPT ![wns[w]] = None]
    /\ WorkerEnds(w)
    /\ UNCHANGED <<db, events, main, shared, exc, hist, bounds>>

\* The counter and the thread are reset all the same.
WorkerInstallFails(w) ==
    /\ wpc[w] = "install"
    /\ SomeCommandFails(wns[w], plan[w])
    /\ num' = [num EXCEPT ![wns[w]] = 0]
    /\ updateThread' = [updateThread EXCEPT ![wns[w]] = None]
    /\ lock' = [lock EXCEPT ![wns[w]] = None]
    /\ WorkerEnds(w)
    /\ UNCHANGED <<db, events, main, shared, exc, hist, changes>>

\* The connection, a reading, the translation or starting a command raises; leaving the with
\* statement releases the lock, then the handler records and resets without it.
WorkerRaise(w) ==
    /\ wpc[w] \in {"start"} \union LockedPCs
    /\ faults < MaxFaults
    /\ faults' = faults + 1
    /\ lock' = IF wpc[w] = "start" THEN lock ELSE [lock EXCEPT ![wns[w]] = None]
    /\ installed' \in {installed} \union
          (IF wpc[w] = "install" THEN {[installed EXCEPT ![wns[w]] = Broken]} ELSE {})
    /\ wpc' = [wpc EXCEPT ![w] = "raised"]
    /\ UNCHANGED <<db, events, main, shared, num, updateThread, exc, wns, captured, plan,
                   failed, hist, changes>>

\* Mutant of WorkerRecord: the exception is not passed on.
WorkerRecordNothing(w) ==
    /\ wpc[w] = "raised"
    /\ wpc' = [wpc EXCEPT ![w] = "reset"]
    /\ UNCHANGED <<db, events, main, shared, sync, wns, captured, plan, kernel, hist, bounds>>

WorkerRecord(w) ==
    /\ wpc[w] = "raised"
    /\ exc' = exc \union {wns[w]}
    /\ wpc' = [wpc EXCEPT ![w] = "reset"]
    /\ UNCHANGED <<db, events, main, shared, lock, num, updateThread, wns, captured, plan,
                   kernel, hist, bounds>>

WorkerReset(w) ==
    /\ wpc[w] = "reset"
    /\ num' = [num EXCEPT ![wns[w]] = 0]
    /\ updateThread' = [updateThread EXCEPT ![wns[w]] = None]
    /\ WorkerEnds(w)
    /\ UNCHANGED <<db, events, main, shared, lock, exc, kernel, hist,
                   bounds>>
-----------------------------------------------------------------------------
Operator ==
    \/ \E ns \in NS, t \in Tables, ty \in TableTypes : SetTable(ns, t, ty)
    \/ \E ns \in NS, t \in Tables, c \in Contents : SetRules(ns, t, c)
    \/ ToggleRedfish

Boot ==
    \/ \E ns \in NS : BootReadTables(ns)
    \/ BootReadRules
    \/ BootInstall
    \/ BootSubscribe

Loop ==
    \/ MainCheck
    \/ MainKill
    \/ MainTimeout
    \/ \E ns \in NS : MainDrainTables(ns)
    \/ MainDrainRules
    \/ MainKeyError
    \/ MainNotifyDone
    \/ \E ns \in NS : MainCount(ns)
    \/ \E w \in Workers : MainSpawn(w)
    \/ MainNoSpawn

Update(w) ==
    \/ WorkerConnect(w)
    \/ WorkerNotStable(w)
    \/ WorkerStable(w)
    \/ WorkerError(w)
    \/ WorkerReadTables(w)
    \/ WorkerReadRules(w)
    \/ WorkerTranslate(w)
    \/ WorkerInstall(w)
    \/ WorkerRecord(w)
    \/ WorkerReset(w)

Fault ==
    \/ BootRaise
    \/ BootInstallFails
    \/ MainSpawnFails
    \/ \E w \in Workers : WorkerRaise(w) \/ WorkerInstallFails(w)

Next ==
    \/ Operator
    \/ Boot
    \/ Loop
    \/ \E w \in Workers : Update(w)
    \/ Fault
    \/ Restart

(* The threads run and systemd restarts the daemon; nobody has to change   *)
(* the configuration and nothing has to fail.                              *)
Fairness ==
    /\ WF_vars(Boot)
    /\ WF_vars(Loop)
    /\ \A w \in Workers : WF_vars(Update(w))
    /\ WF_vars(Restart)

Spec == Init /\ [][Next]_vars

FairSpec == Spec /\ Fairness
-----------------------------------------------------------------------------
(* Every variable of the daemon and of its environment has its type.       *)
TypeOK ==
    /\ type \in [NS -> [Tables -> TableTypes]]
    /\ rules \in [NS -> [Tables -> Contents]]
    /\ redfish \in BOOLEAN
    /\ tblEv \in [NS -> BOOLEAN]
    /\ ruleEv \in [NS -> SUBSET Tables]
    /\ featEv \in BOOLEAN
    /\ mpc \in MainPCs
    /\ cur \in NS
    /\ sub \in SUBSET NS
    /\ todo \in SUBSET NS
    /\ redfishAllowed \in BOOLEAN
    /\ tablesInfo \in [Tables -> TableTypes]
    /\ rulesInfo \in [Tables -> Contents]
    /\ lock \in [NS -> Workers \union {Main, None}]
    /\ num \in [NS -> Nat]
    /\ updateThread \in [NS -> Workers \union {None}]
    /\ exc \in SUBSET NS
    /\ wpc \in [Workers -> WorkerPCs]
    /\ wns \in [Workers -> NS]
    /\ captured \in [Workers -> Nat]
    /\ plan \in [Workers -> [Tables -> Contents]]
    /\ installed \in [NS -> [Tables -> Contents] \union {Broken}]
    /\ failed \in [NS -> BOOLEAN]
    /\ seenT \in [NS -> [Tables -> TableTypes]]
    /\ seenR \in [NS -> [Tables -> Contents]]
    /\ missed \in [NS -> BOOLEAN]
    /\ changes \in Nat
    /\ faults \in Nat

(* A namespace never has two update threads at once, in any phase of       *)
(* theirs: the main thread spawns under the lock and the thread clears     *)
(* update_thread last, also on the path of an exception, which clears it   *)
(* without the lock.                                                       *)
SingleUpdater ==
    \A v, w \in Workers :
        wpc[v] # "idle" /\ wpc[w] # "idle" /\ wns[v] = wns[w] => v = w

\* An update still to come reads the ACL tables of the namespace again ...
TablesOwed(ns) ==
    \/ Dead
    \/ ns \notin sub
    \/ tblEv[ns]
    \/ ns \in todo \union exc
    \/ ThreadAt(ns, {"start", "sleep", "readTables", "raised"})

\* ... and the rules of table t.
RulesOwed(ns, t) ==
    \/ TablesOwed(ns)
    \/ t \in ruleEv[ns]
    \/ ThreadAt(ns, {"readRules"})

(* Debouncing loses no change: whenever the rows that the last update of a *)
(* namespace read are no longer those of CONFIG_DB, an update that will    *)
(* read them again is under way, however the changes fall between the      *)
(* draining of the two tables, the counting and the two readings of an     *)
(* update, and whatever raises.  The exception is `missed': rows deleted   *)
(* before the subscription that leave no row to be replayed.               *)
NoLostChange ==
    \A ns \in NS :
        /\ seenT[ns] # type[ns] => missed[ns] \/ TablesOwed(ns)
        /\ \A t \in Tables :
              type[ns][t] = "ctrl" /\ seenR[ns][t] # rules[ns][t] => RulesOwed(ns, t)

(* Something will still reprogram iptables in the namespace.               *)
Owed(ns) ==
    \/ Dead
    \/ ns \notin sub
    \/ Ready(ns)
    \/ ns \in todo \union exc
    \/ num[ns] > 0

(* What iptables holds in the host namespace differs from what CONFIG_DB   *)
(* asks for only while an update is owed, or after one of two losses that  *)
(* nobody makes good: rows vanished before the subscription, or a command  *)
(* of the last programming failed, which is only logged.  This is the      *)
(* abstract specification of the daemon, with the feature switch and torn  *)
(* readings included.                                                      *)
HostSync == INSTANCE AclSync WITH
    Views <- [Tables -> Contents],
    view <- View(Host),
    installed <- installed[Host],
    owed <- Owed(Host),
    lost <- missed[Host] \/ failed[Host]

ImplementsAclSync == HostSync!Spec

(* An update programs the ACLs of its own namespace: once nothing is owed, *)
(* iptables holds what the last update of this namespace read, although    *)
(* the rows pass through attributes shared by the threads of all           *)
(* namespaces; an update with a failing command is excepted.               *)
InstalledFromOwnRows ==
    \A ns \in NS :
        ~Owed(ns) /\ ~failed[ns] =>
            installed[ns] = Translate(seenT[ns], seenR[ns], redfishAllowed)

(* Once the operator stops changing the configuration, iptables settles on *)
(* it in every namespace, unless its rows vanished before the subscription *)
(* or a command of its last programming failed (no retry is made).         *)
Converges ==
    \A ns \in NS : <>[](installed[ns] = View(ns) \/ missed[ns] \/ failed[ns])

(* An exception recorded by an update thread always ends in a new start of *)
(* the daemon: the main thread never stays on a lock the thread left, and  *)
(* nothing erases the record.                                              *)
ExceptionRestarts == \A ns \in NS : (ns \in exc) ~> (mpc = "boot")
=============================================================================
