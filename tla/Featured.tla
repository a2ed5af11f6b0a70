------------------------------ MODULE Featured ------------------------------
(***************************************************************************)
(* scripts/featured: keeps the systemd services of the features as the     *)
(* FEATURE table of CONFIG_DB asks for.  At start it renders every row     *)
(* once (sync_state_field), then it handles the notifications of the table *)
(* one at a time; features marked delayed wait for the initialisation of   *)
(* the ports, for a timeout or are free after an advanced boot.  States    *)
(* given as templates and overwritten always_* states are written back.    *)
(* Meanwhile the operator changes rows and services fail.                  *)
(***************************************************************************)
EXTENDS Sequences, Naturals

CONSTANTS
    Features,
    Delayed,    \* features with delayed = True
    Rendered,   \* what the template of each feature renders to
    Template,   \* a state that is a template
    Invalid,    \* a state that is none of the four
    Absent,     \* no row, no entry
    MaxChanges, \* bound: changes by the operator
    MaxFaults   \* bound: failures of commands, services and the daemon

States   == {"enabled", "disabled", "always_enabled", "always_disabled"}
Immutable == {"always_enabled", "always_disabled"}
Unset == "unset"  \* the state None of an entry made by setdefault

ASSUME FeaturedAssumption ==
    /\ Delayed \subseteq Features
    /\ Rendered \in [Features -> States]
    /\ {Template, Invalid, Absent} \cap (States \union {Unset}) = {}
    /\ Template # Invalid /\ Template # Absent /\ Invalid # Absent
    /\ MaxChanges \in Nat
    /\ MaxFaults \in Nat

VARIABLES
    row,       \* CONFIG_DB FEATURE: the state field
    events,    \* notifications of each row not yet popped, "set" or "del"
    portInit,  \* APPL_DB PORT_TABLE has PortInitDone
    portEv,    \* its notification is waiting
    mpc,       \* where the daemon is
    snap,      \* the table as read at start
    todo,      \* features still to be looked at, at start or by enable_delayed_services
    job,       \* the feature it works on, the state to reach, and who asked
    cached,    \* _cached_config: the state of each entry
    delayedOn, \* is_delayed_enabled
    stateDb,   \* STATE_DB FEATURE
    unit,      \* systemd: the unit file is enabled, or disabled (masked)
    up,        \* systemd: the service runs
    missed,    \* history: rows deleted after they were read at start and before the subscription
    failed,    \* history: the commands of the latest change of the row failed
    unfiled,   \* history: started although its unit file could not be enabled
    changes, faults

hist   == <<missed, failed, unfiled>>
config == <<row, events, portInit, portEv>>
memory == <<snap, todo, job, cached, delayedOn>>
system == <<stateDb, unit, up>>
bounds == <<changes, faults>>
vars   == <<config, mpc, memory, system, hist, bounds>>

Rows == States \union {Template, Invalid, Absent}

Render(f, r) == IF r = Template THEN Rendered[f] ELSE r

Enables(s) == s \in {"enabled", "always_enabled"}

\* The transitions of update_feature_state.
Allowed(from, to) ==
    \/ from = Unset
    \/ from \in Immutable /\ to \in Immutable
    \/ from \notin Immutable /\ to \notin Immutable

NoJob == [feature |-> Absent, state |-> Unset, by |-> "none"]
Subscribed == mpc \notin {"snapshot", "boot", "dead"} /\ job.by # "start"

Init ==
    /\ row \in [Features -> States \union {Template, Absent}]
    /\ unit \in [Features -> {"enabled", "disabled"}]
    /\ up = [f \in Features |-> unit[f] = "enabled"]
    /\ stateDb = [f \in Features |-> "none"]
    /\ events = [f \in Features |-> <<>>]
    /\ portInit = FALSE
    /\ portEv = FALSE
    /\ mpc = "snapshot"
    /\ snap = [f \in Features |-> Absent]
    /\ todo = {}
    /\ job = NoJob
    /\ cached = [f \in Features |-> Absent]
    /\ delayedOn \in BOOLEAN \* TRUE after an advanced boot
    /\ missed = [f \in Features |-> FALSE]
    /\ failed = [f \in Features |-> FALSE]
    /\ unfiled = [f \in Features |-> FALSE]
    /\ changes = 0
    /\ faults = 0
-----------------------------------------------------------------------------
(* The environment.                                                        *)

Notify(f, op) ==
    events' = IF Subscribed THEN [events EXCEPT ![f] = Append(@, op)] ELSE events

SetRow(f, r) ==
    /\ changes < MaxChanges
    /\ changes' = changes + 1
    /\ row[f] # r
    /\ row' = [row EXCEPT ![f] = r]
    /\ Notify(f, IF r = Absent THEN "del" ELSE "set")
    /\ UNCHANGED <<portInit, portEv, mpc, memory, system, hist, faults>>

PortInitDone ==
    /\ ~portInit
    /\ portInit' = TRUE
    /\ portEv' = Subscribed
    /\ UNCHANGED <<row, events, mpc, memory, system, hist, bounds>>

ServiceFails(f) ==
    /\ faults < MaxFaults
    /\ up[f]
    /\ faults' = faults + 1
    /\ up' = [up EXCEPT ![f] = FALSE]
    /\ UNCHANGED <<config, mpc, memory, stateDb, unit, hist, changes>>
-----------------------------------------------------------------------------
(* The start of the daemon: render_all_feature_states.                     *)

Snapshot ==
    /\ mpc = "snapshot"
    /\ snap' = row
    /\ todo' = {f \in Features : row[f] # Absent}
    /\ mpc' = "boot"
    /\ UNCHANGED <<config, job, cached, delayedOn, system, hist, bounds>>

\* Mutant of Waits: the flag is read the wrong way round.
WaitsOnce(f) == f \in Delayed /\ delayedOn

Waits(f) == f \in Delayed /\ ~delayedOn

\* The cache takes the feature before it is started or stopped, so that
\* update_feature_state compares the state with itself.
SyncStateField(f) ==
    /\ mpc = "boot"
    /\ f \in todo
    /\ snap[f] # Invalid
    /\ cached' = [cached EXCEPT ![f] = Render(f, snap[f])]
    /\ job' = [feature |-> f, state |-> Render(f, snap[f]), by |-> "start"]
    /\ mpc' = IF Waits(f) THEN "resync" ELSE "apply"
    /\ UNCHANGED <<config, snap, todo, delayedOn, system, hist, bounds>>

\* Mutant of RegisterCallbacks: only later changes are notified.
RegisterWithoutReplay ==
    /\ mpc = "boot"
    /\ todo = {}
    /\ missed' = [f \in Features |-> row[f] = Absent /\ cached[f] # Absent]
    /\ mpc' = "loop"
    /\ UNCHANGED <<config, memory, system, failed, unfiled, bounds>>

\* Both subscriptions replay what the tables hold.
RegisterCallbacks ==
    /\ mpc = "boot"
    /\ todo = {}
    /\ events' = [f \in Features |-> IF row[f] = Absent THEN <<>> ELSE <<"set">>]
    /\ portEv' = portInit
    /\ missed' = [f \in Features |-> row[f] = Absent /\ cached[f] # Absent]
    /\ mpc' = "loop"
    /\ UNCHANGED <<row, portInit, memory, system, failed, unfiled, bounds>>

\* The process is gone, with its subscriptions.
Gone ==
    /\ mpc' = "dead"
    /\ events' = [f \in Features |-> <<>>]
    /\ portEv' = FALSE
    /\ todo' = {}
    /\ job' = NoJob
    /\ cached' = [f \in Features |-> Absent]
    /\ snap' = [f \in Features |-> Absent]

\* ValueError: a state that is none of the four.
InvalidState ==
    /\ \/ mpc = "boot" /\ \E f \in todo : snap[f] = Invalid
       \/ mpc = "loop" /\ \E f \in Features :
              events[f] # <<>> /\ Head(events[f]) = "set" /\ row[f] = Invalid
    /\ Gone
    /\ UNCHANGED <<row, portInit, delayedOn, system, hist, bounds>>

Killed ==
    /\ mpc # "dead"
    /\ faults < MaxFaults
    /\ faults' = faults + 1
    /\ Gone
    /\ UNCHANGED <<row, portInit, delayedOn, system, hist, changes>>

\* featured.timer, or the operator.
Restart ==
    /\ mpc = "dead"
    /\ mpc' = "snapshot"
    /\ delayedOn' = FALSE
    /\ UNCHANGED <<config, snap, todo, job, cached, system, hist, bounds>>
-----------------------------------------------------------------------------
(* The loop: one notification at a time.                                   *)

Pop(f, op) ==
    /\ mpc = "loop"
    /\ events[f] # <<>>
    /\ Head(events[f]) = op
    /\ events' = [events EXCEPT ![f] = Tail(@)]

\* The service is left alone.
Deregister(f) ==
    /\ Pop(f, "del")
    /\ cached' = [cached EXCEPT ![f] = Absent]
    /\ stateDb' = [stateDb EXCEPT ![f] = "none"]
    /\ missed' = [missed EXCEPT ![f] = FALSE]
    /\ failed' = [failed EXCEPT ![f] = FALSE]
    /\ UNCHANGED <<row, portInit, portEv, mpc, snap, todo, job, delayedOn, unit, up,
                   unfiled, bounds>>

\* Mutant of Entry: no entry is made.
EntryOrAbsent(f) == cached[f]

Entry(f) == IF cached[f] = Absent THEN Unset ELSE cached[f]

\* The row went meanwhile, or asks for what the cache has.
NothingNew(f) ==
    /\ Pop(f, "set")
    /\ \/ row[f] = Absent /\ UNCHANGED cached
       \/ row[f] # Invalid /\ Render(f, row[f]) = Entry(f) /\ UNCHANGED cached
    /\ UNCHANGED <<row, portInit, portEv, mpc, snap, todo, job, delayedOn, system, hist,
                   bounds>>

\* A new state: to be applied now, when the delayed services are enabled, or never.
Change(f) ==
    /\ Pop(f, "set")
    /\ row[f] \notin {Absent, Invalid}
    /\ LET new == Render(f, row[f])
           old == Entry(f)
           ok  == Allowed(old, new)
       IN  /\ new # old
           /\ cached' = [cached EXCEPT ![f] = IF ok /\ Waits(f) THEN new ELSE old]
           /\ job' = [feature |-> f, state |-> IF ok THEN new ELSE old, by |-> "handler"]
           /\ failed' = [failed EXCEPT ![f] = @ /\ ~(ok /\ Waits(f))]
           /\ mpc' = IF ok /\ ~Waits(f) THEN "apply" ELSE "resync"
    /\ UNCHANGED <<row, portInit, portEv, snap, todo, delayedOn, system, missed, unfiled,
                   bounds>>

\* enable_delayed_services
EnableDelayed ==
    /\ delayedOn' = TRUE
    /\ todo' = {f \in Delayed : cached[f] \in States}
    /\ mpc' = "delayed"
    /\ UNCHANGED <<row, events, portInit, snap, job, cached, system, hist, bounds>>

PortListener ==
    /\ mpc = "loop"
    /\ portEv
    /\ portEv' = FALSE
    /\ EnableDelayed

\* Mutant of PortTimeout: the timeout, too, waits for the ports.
PortTimeoutAfterInit ==
    /\ mpc = "loop"
    /\ ~delayedOn
    /\ portInit
    /\ ~portEv /\ \A f \in Features : events[f] = <<>>
    /\ EnableDelayed
    /\ UNCHANGED portEv

\* select times out, PORT_INIT_TIMEOUT_SEC after the start.
PortTimeout ==
    /\ mpc = "loop"
    /\ ~delayedOn
    /\ ~portEv /\ \A f \in Features : events[f] = <<>>
    /\ EnableDelayed
    /\ UNCHANGED portEv

StartDelayed(f) ==
    /\ mpc = "delayed"
    /\ f \in todo
    /\ job' = [feature |-> f, state |-> cached[f], by |-> "delayed"]
    /\ mpc' = "apply"
    /\ UNCHANGED <<config, snap, todo, cached, delayedOn, system, hist, bounds>>

DelayedDone ==
    /\ mpc = "delayed"
    /\ todo = {}
    /\ mpc' = "loop"
    /\ UNCHANGED <<config, memory, system, hist, bounds>>
-----------------------------------------------------------------------------
(* enable_feature and disable_feature, and what follows them.              *)

\* Back to where the job came from.
Leave ==
    /\ todo' = todo \ {job.feature}
    /\ job' = NoJob
    /\ mpc' = CASE job.by = "start"   -> "boot"
                [] job.by = "handler" -> "loop"
                [] job.by = "delayed" -> "delayed"

\* Success or not, the start resyncs the state it rendered; the handler resyncs and caches
\* the new state, or after a failure resyncs the old one; the delayed go without.
Applied(ok) ==
    /\ failed' = [failed EXCEPT ![job.feature] = ~ok \/ (@ /\ job.by = "delayed")]
    /\ cached' = [cached EXCEPT ![job.feature] =
                     IF ok /\ job.by = "handler" THEN job.state ELSE @]
    /\ IF job.by = "delayed" THEN Leave
       ELSE /\ job' = [job EXCEPT !.state =
                          IF ok \/ @ = cached[job.feature] THEN @ ELSE cached[job.feature]]
            /\ mpc' = "resync"
            /\ UNCHANGED <<todo>>

Target == IF Enables(job.state) THEN "enabled" ELSE "disabled"

\* The unit file is in the state already: nothing is run.
Skip ==
    /\ mpc = "apply"
    /\ unit[job.feature] = Target
    /\ stateDb' = [stateDb EXCEPT ![job.feature] = Target]
    /\ Applied(TRUE)
    /\ UNCHANGED <<config, snap, delayedOn, unit, up, missed, unfiled, bounds>>

\* Mutant of Run: the service is not stopped.
RunWithoutStop ==
    /\ mpc = "apply"
    /\ unit[job.feature] # Target
    /\ unit' = [unit EXCEPT ![job.feature] = Target]
    /\ up' = [up EXCEPT ![job.feature] = @ \/ Enables(job.state)]
    /\ stateDb' = [stateDb EXCEPT ![job.feature] = Target]
    /\ unfiled' = [unfiled EXCEPT ![job.feature] = FALSE]
    /\ Applied(TRUE)
    /\ UNCHANGED <<config, snap, delayedOn, missed, bounds>>

\* unmask, enable, start; or stop, disable, mask
Run ==
    /\ mpc = "apply"
    /\ unit[job.feature] # Target
    /\ unit' = [unit EXCEPT ![job.feature] = Target]
    /\ up' = [up EXCEPT ![job.feature] = Enables(job.state)]
    /\ stateDb' = [stateDb EXCEPT ![job.feature] = Target]
    /\ unfiled' = [unfiled EXCEPT ![job.feature] = FALSE]
    /\ Applied(TRUE)
    /\ UNCHANGED <<config, snap, delayedOn, missed, bounds>>

\* "enable" is run without raising, for the sake of generated units: when it fails, for
\* whatever reason, the service is started all the same and nothing is reported.
EnableFails ==
    /\ mpc = "apply"
    /\ unit[job.feature] = "disabled" /\ Enables(job.state)
    /\ faults < MaxFaults
    /\ faults' = faults + 1
    /\ up' = [up EXCEPT ![job.feature] = TRUE]
    /\ stateDb' = [stateDb EXCEPT ![job.feature] = "enabled"]
    /\ unfiled' = [unfiled EXCEPT ![job.feature] = TRUE]
    /\ Applied(TRUE)
    /\ UNCHANGED <<config, snap, delayedOn, unit, missed, changes>>

\* One of the other commands fails; those before it have had their effect.
RunFails ==
    /\ mpc = "apply"
    /\ unit[job.feature] # Target
    /\ faults < MaxFaults
    /\ faults' = faults + 1
    /\ \/ UNCHANGED <<unit, up>>
       \/ unit' = [unit EXCEPT ![job.feature] = Target]
          /\ up' = [up EXCEPT ![job.feature] = @ /\ Enables(job.state)]
       \/ UNCHANGED unit
          /\ up' = [up EXCEPT ![job.feature] = @ /\ Enables(job.state)]
    /\ stateDb' = [stateDb EXCEPT ![job.feature] = "failed"]
    /\ Applied(FALSE)
    /\ UNCHANGED <<config, snap, delayedOn, missed, unfiled, changes>>

\* resync_feature_state: read the row ...
ResyncRead ==
    /\ mpc = "resync"
    /\ LET now == row[job.feature] IN
        IF now # job.state /\ (job.state \in Immutable \/ now \notin States)
        THEN mpc' = "write" /\ UNCHANGED <<todo, job>>
        ELSE Leave
    /\ UNCHANGED <<config, snap, cached, delayedOn, system, hist, bounds>>

\* ... and write it back, which creates it again if it has gone.  A state None is written
\* as a string that is no state.
ResyncWrite ==
    /\ mpc = "write"
    /\ row' = [row EXCEPT ![job.feature] = IF job.state = Unset THEN Invalid ELSE job.state]
    /\ Notify(job.feature, "set")
    /\ Leave
    /\ UNCHANGED <<portInit, portEv, snap, cached, delayedOn, system, hist, bounds>>
-----------------------------------------------------------------------------
Environment ==
    \/ \E f \in Features, r \in Rows : SetRow(f, r)
    \/ PortInitDone
    \/ \E f \in Features : ServiceFails(f)

Daemon ==
    \/ Snapshot
    \/ \E f \in Features : SyncStateField(f)
    \/ RegisterCallbacks
    \/ InvalidState
    \/ \E f \in Features : Deregister(f) \/ NothingNew(f) \/ Change(f)
    \/ PortListener
    \/ PortTimeout
    \/ \E f \in Features : StartDelayed(f)
    \/ DelayedDone
    \/ Skip
    \/ Run
    \/ ResyncRead
    \/ ResyncWrite

Next == Environment \/ Daemon \/ Killed \/ Restart \/ RunFails \/ EnableFails

Spec == Init /\ [][Next]_vars

\* The daemon runs, and its clock; nobody has to start it again.
FairSpec == Spec /\ WF_vars(Daemon)
-----------------------------------------------------------------------------
(* Properties *)

Jobs == [feature : Features \union {Absent}, state : States \union {Unset},
         by : {"none", "start", "handler", "delayed"}]

\* The type of the state.
TypeOK ==
    /\ row \in [Features -> Rows]
    /\ events \in [Features -> Seq({"set", "del"})]
    /\ portInit \in BOOLEAN
    /\ portEv \in BOOLEAN
    /\ mpc \in {"snapshot", "boot", "loop", "delayed", "apply", "resync", "write", "dead"}
    /\ snap \in [Features -> Rows]
    /\ todo \in SUBSET Features
    /\ job \in Jobs
    /\ (job = NoJob) = (mpc \notin {"apply", "resync", "write"})
    /\ cached \in [Features -> States \union {Unset, Absent}]
    /\ delayedOn \in BOOLEAN
    /\ stateDb \in [Features -> {"none", "enabled", "disabled", "failed"}]
    /\ unit \in [Features -> {"enabled", "disabled"}]
    /\ up \in [Features -> BOOLEAN]
    /\ missed \in [Features -> BOOLEAN]
    /\ failed \in [Features -> BOOLEAN]
    /\ unfiled \in [Features -> BOOLEAN]
    /\ changes \in Nat
    /\ faults \in Nat

\* Between two notifications, a feature with none waiting is cached in the state its row
\* asks for, however the changes fell between snapshot, subscription and the write-backs.
\* The exceptions: a row deleted in the start window, a command that failed, and the
\* transition from enabled or disabled to always_*, which the daemon refuses and leaves
\* in the row.  A change away from always_*, which it refuses too, is undone in the row.
CacheFollowsRows ==
    mpc = "loop" =>
        \A f \in Features :
            events[f] = <<>> =>
                \/ row[f] = Absent /\ (cached[f] = Absent \/ missed[f])
                \/ /\ row[f] \notin {Absent, Invalid}
                   /\ \/ cached[f] = Render(f, row[f])
                      \/ failed[f]
                      \/ cached[f] \notin Immutable /\ Render(f, row[f]) \in Immutable

\* Between two notifications STATE_DB says of every feature that need not wait that it is
\* as its cache entry asks, or that it has failed; and a service said to be disabled does
\* not run, unless it was started with a failing "enable": its unit file says disabled, so
\* that nothing stops it.
StateFollowsCache ==
    /\ mpc = "loop" =>
          \A f \in Features :
              cached[f] \in States /\ ~Waits(f)
              => stateDb[f] \in {"failed", IF Enables(cached[f]) THEN "enabled" ELSE "disabled"}
    /\ \A f \in Features : stateDb[f] = "disabled" => ~up[f] \/ unfiled[f]

\* No delayed feature is started before the ports are initialised, the timeout has passed
\* or an advanced boot has been completed.
DelayedNotBefore ==
    [][\A f \in Delayed : ~up[f] /\ up'[f] => delayedOn]_vars

\* A daemon that is not stopped again and again comes to rest, every notification handled
\* and the delayed features released, even if the ports are never initialised: its own
\* write-backs do not keep it busy.
Settles ==
    \/ []<>(mpc = "dead")
    \/ <>[](mpc = "loop" /\ delayedOn /\ \A f \in Features : events[f] = <<>>)

\* "If service reached failed state ... the next called self.update_feature_state will
\* start it again" (scripts/featured:208): a feature that update_feature_state has enabled
\* runs.
StartedAgain ==
    [][\A f \in Features :
          mpc = "apply" /\ job.feature = f /\ Enables(job.state) /\ stateDb'[f] = "enabled"
          => up'[f]]_vars
=============================================================================
