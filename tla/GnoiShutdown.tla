---------------------------- MODULE GnoiShutdown ----------------------------
(***************************************************************************)
(* scripts/gnoi_shutdown_daemon.py, on the host of a SmartSwitch: when the *)
(* operator sets a DPU's admin_status to down, the platform detaches the   *)
(* DPU and raises gnoi_halt_in_progress; the daemon sends the DPU a gNOI   *)
(* Reboot (HALT), polls its status and takes the flag down, upon which the *)
(* platform removes the power.  A thread handles each DPU.                 *)
(***************************************************************************)
EXTENDS Naturals

CONSTANTS
    Dpus,
    Threads,    \* identities of handler threads
    None,       \* no DPU
    MaxChanges, \* bound: changes of admin_status
    MaxFaults   \* bound: failing calls, exceptions and crashes

ASSUME GnoiAssumption ==
    /\ None \notin Dpus
    /\ MaxChanges \in Nat
    /\ MaxFaults \in Nat

VARIABLES
    admin,    \* CONFIG_DB CHASSIS_MODULE: admin_status, "none" without the field
    events,   \* keyspace notifications of the DPU's row not yet received
    oper,     \* the module's operational status
    halt,     \* STATE_DB CHASSIS_MODULE_TABLE: gnoi_halt_in_progress
    mpc,      \* where the main loop is
    cur,      \* the DPU it looks at
    active,   \* active_transitions
    tpc,      \* where each handler thread is
    tdpu,     \* its DPU
    gen,      \* history: how often the DPU was set to down
    curGen,   \* history: gen when the main loop read "down"
    served,   \* history: that of the latest handler
    excused,  \* history: gen at the latest notification dropped, not read or lost in a crash
    late,     \* history: the flag was raised with no handler left to take it down
    uncleared, \* history: a handler could not clear the flag, or raised before
    changes, faults

env    == <<admin, events, oper, halt>>
loop   == <<mpc, cur, curGen>>
thread == <<tpc, tdpu>>
hist   == <<gen, served, excused, late, uncleared>>
bounds == <<changes, faults>>
vars   == <<env, loop, active, thread, hist, bounds>>

Handlers(d) == {t \in Threads : tpc[t] # "none" /\ tdpu[t] = d}

Init ==
    /\ admin \in [Dpus -> {"up", "none"}]
    /\ events = [d \in Dpus |-> 0]
    /\ oper = [d \in Dpus |-> "online"]
    /\ halt = [d \in Dpus |-> FALSE]
    /\ mpc = "listen"
    /\ cur = None
    /\ curGen = 0
    /\ active = {}
    /\ tpc = [t \in Threads |-> "none"]
    /\ tdpu = [t \in Threads |-> None]
    /\ gen = [d \in Dpus |-> 0]
    /\ served = [d \in Dpus |-> 0]
    /\ excused = [d \in Dpus |-> 0]
    /\ late = [d \in Dpus |-> FALSE]
    /\ uncleared = [d \in Dpus |-> FALSE]
    /\ changes = 0
    /\ faults = 0
-----------------------------------------------------------------------------
(* The operator, and the platform as far as the daemon relies on it.       *)

SetAdmin(d, status) ==
    /\ changes < MaxChanges
    /\ changes' = changes + 1
    /\ admin[d] # status
    /\ admin' = [admin EXCEPT ![d] = status]
    /\ events' = [events EXCEPT ![d] = @ + 1]
    /\ gen' = [gen EXCEPT ![d] = IF status = "down" THEN @ + 1 ELSE @]
    /\ UNCHANGED <<oper, halt, loop, active, thread, served, excused, late, uncleared, faults>>

\* The platform has completed the PCI detach.
Detach(d) ==
    /\ admin[d] = "down"
    /\ oper[d] = "online"
    /\ ~halt[d]
    /\ halt' = [halt EXCEPT ![d] = TRUE]
    /\ late' = [late EXCEPT ![d] = events[d] = 0 /\ cur # d /\
                   \A t \in Handlers(d) : tpc[t] = "end"]
    /\ uncleared' = [uncleared EXCEPT ![d] = FALSE]
    /\ UNCHANGED <<admin, events, oper, loop, active, thread, gen, served, excused, bounds>>

\* The power goes once the flag is down again, or anyway after some time.
Power(d) ==
    /\ oper' = [oper EXCEPT ![d] = CASE admin[d] = "down" -> "offline"
                                     [] OTHER -> "online"]
    /\ oper' # oper
    /\ UNCHANGED <<admin, events, halt, loop, active, thread, hist, bounds>>
-----------------------------------------------------------------------------
(* The main loop.                                                          *)

\* Mutant of Receive: of all that has come in only the last message is looked at.
ReceiveLast(d) ==
    /\ mpc = "listen"
    /\ events[d] > 0
    /\ events' = [x \in Dpus |-> 0]
    /\ cur' = d
    /\ mpc' = "read"
    /\ UNCHANGED <<admin, oper, halt, curGen, active, thread, hist, bounds>>

Receive(d) ==
    /\ mpc = "listen"
    /\ events[d] > 0
    /\ events' = [events EXCEPT ![d] = @ - 1]
    /\ cur' = d
    /\ mpc' = "read"
    /\ UNCHANGED <<admin, oper, halt, curGen, active, thread, hist, bounds>>

\* admin_status is read now, whatever the notification was about.
ReadAdmin ==
    /\ mpc = "read"
    /\ IF admin[cur] = "down"
       THEN mpc' = "active" /\ curGen' = gen[cur] /\ UNCHANGED cur
       ELSE mpc' = "listen" /\ cur' = None /\ UNCHANGED curGen
    /\ UNCHANGED <<env, active, thread, hist, bounds>>

\* hget raises an error that the loop catches: it is logged, and the notification is
\* gone whatever admin_status was.
ReadFails ==
    /\ mpc = "read"
    /\ faults < MaxFaults
    /\ faults' = faults + 1
    /\ excused' = [excused EXCEPT ![cur] = gen[cur]]
    /\ cur' = None
    /\ mpc' = "listen"
    /\ UNCHANGED <<env, curGen, active, thread, gen, served, late, uncleared, changes>>

\* Mutant of Claim: the set is not looked at.
ClaimAlways ==
    /\ mpc = "active"
    /\ active' = active \union {cur}
    /\ served' = [served EXCEPT ![cur] = curGen]
    /\ mpc' = "spawn"
    /\ UNCHANGED <<env, cur, curGen, thread, gen, excused, late, uncleared, bounds>>

\* with active_transitions_lock
Claim ==
    /\ mpc = "active"
    /\ cur \notin active
    /\ active' = active \union {cur}
    /\ served' = [served EXCEPT ![cur] = curGen]
    /\ mpc' = "spawn"
    /\ UNCHANGED <<env, cur, curGen, thread, gen, excused, late, uncleared, bounds>>

\* A handler of this DPU is running: the notification is dropped for good.
Drop ==
    /\ mpc = "active"
    /\ cur \in active
    /\ excused' = [excused EXCEPT ![cur] = curGen]
    /\ cur' = None
    /\ mpc' = "listen"
    /\ UNCHANGED <<env, curGen, active, thread, gen, served, late, uncleared, bounds>>

Spawn(t) ==
    /\ mpc = "spawn"
    /\ tpc[t] = "none"
    /\ tpc' = [tpc EXCEPT ![t] = "start"]
    /\ tdpu' = [tdpu EXCEPT ![t] = cur]
    /\ cur' = None
    /\ mpc' = "listen"
    /\ UNCHANGED <<env, curGen, active, hist, bounds>>

\* An exception in the main loop (a connection, a thread that does not start) ends the
\* process with its daemon threads; systemd starts it again, and what happened before its
\* subscription is not looked at.
Crash ==
    /\ faults < MaxFaults
    /\ faults' = faults + 1
    /\ events' = [d \in Dpus |-> 0]
    /\ mpc' = "listen"
    /\ cur' = None
    /\ active' = {}
    /\ tpc' = [t \in Threads |-> "none"]
    /\ tdpu' = [t \in Threads |-> None]
    /\ excused' = gen
    /\ UNCHANGED <<admin, oper, halt, curGen, gen, served, late, uncleared, changes>>
-----------------------------------------------------------------------------
(* _handle_transition, in the DPU's thread.                                *)

Goto(t, pc) == tpc' = [tpc EXCEPT ![t] = pc]

\* _should_skip_gnoi_shutdown; a status that cannot be read is no reason to skip.
CheckOper(t) ==
    /\ tpc[t] = "start"
    /\ \/ oper[tdpu[t]] = "offline" /\ Goto(t, "clear") /\ UNCHANGED faults
       \/ oper[tdpu[t]] = "online" /\ Goto(t, "wait") /\ UNCHANGED faults
       \/ /\ faults < MaxFaults
          /\ faults' = faults + 1
          /\ Goto(t, "wait")
    /\ UNCHANGED <<env, loop, active, tdpu, hist, changes>>

\* _wait_for_gnoi_halt_in_progress: the flag is up ...
HaltSeen(t) ==
    /\ tpc[t] = "wait"
    /\ halt[tdpu[t]]
    /\ Goto(t, "config")
    /\ UNCHANGED <<env, loop, active, tdpu, hist, bounds>>

\* ... or the time is up.
WaitOver(t) ==
    /\ tpc[t] = "wait"
    /\ Goto(t, "config")
    /\ UNCHANGED <<env, loop, active, tdpu, hist, bounds>>

\* _get_halt_timeout raises what nobody expects (TypeError on a null in platform.json).
TimeoutRaises(t) ==
    /\ tpc[t] \in {"wait", "poll"}
    /\ faults < MaxFaults
    /\ faults' = faults + 1
    /\ uncleared' = [uncleared EXCEPT ![tdpu[t]] = TRUE]
    /\ Goto(t, "end")
    /\ UNCHANGED <<env, loop, active, tdpu, gen, served, excused, late, changes>>

\* The DPU's address and port; without an address the handler gives up.
ReadConfig(t) ==
    /\ tpc[t] = "config"
    /\ Goto(t, "send") \/ Goto(t, "clear")
    /\ UNCHANGED <<env, loop, active, tdpu, hist, bounds>>

\* The Reboot RPC succeeds, or fails or times out.
SendReboot(t) ==
    /\ tpc[t] = "send"
    /\ Goto(t, "poll") \/ Goto(t, "clear")
    /\ UNCHANGED <<env, loop, active, tdpu, hist, bounds>>

\* RebootStatus says "reboot complete", or the time is up.
PollDone(t) ==
    /\ tpc[t] = "poll"
    /\ Goto(t, "clear")
    /\ UNCHANGED <<env, loop, active, tdpu, hist, bounds>>

\* Mutant of ClearFlag: the flag stays.
ClearNothing(t) ==
    /\ tpc[t] = "clear"
    /\ Goto(t, "end")
    /\ UNCHANGED <<env, loop, active, tdpu, hist, bounds>>

ClearFlag(t) ==
    /\ tpc[t] = "clear"
    /\ halt' = [halt EXCEPT ![tdpu[t]] = FALSE]
    /\ Goto(t, "end")
    /\ UNCHANGED <<admin, events, oper, loop, active, tdpu, hist, bounds>>

\* No such module, or the platform raises.
ClearFails(t) ==
    /\ tpc[t] = "clear"
    /\ faults < MaxFaults
    /\ faults' = faults + 1
    /\ uncleared' = [uncleared EXCEPT ![tdpu[t]] = TRUE]
    /\ Goto(t, "end")
    /\ UNCHANGED <<env, loop, active, tdpu, gen, served, excused, late, changes>>

\* Mutant of EndHandler: the DPU stays in the set.
EndHandlerOnly(t) ==
    /\ tpc[t] = "end"
    /\ Goto(t, "none")
    /\ tdpu' = [tdpu EXCEPT ![t] = None]
    /\ UNCHANGED <<env, loop, active, hist, bounds>>

\* finally
EndHandler(t) ==
    /\ tpc[t] = "end"
    /\ active' = active \ {tdpu[t]}
    /\ Goto(t, "none")
    /\ tdpu' = [tdpu EXCEPT ![t] = None]
    /\ UNCHANGED <<env, loop, hist, bounds>>
-----------------------------------------------------------------------------
Environment ==
    \/ \E d \in Dpus, status \in {"up", "down"} : SetAdmin(d, status)
    \/ \E d \in Dpus : Detach(d) \/ Power(d)

MainLoop ==
    \/ \E d \in Dpus : Receive(d)
    \/ ReadAdmin
    \/ Claim
    \/ Drop
    \/ \E t \in Threads : Spawn(t)

Handler(t) ==
    \/ CheckOper(t)
    \/ HaltSeen(t)
    \/ WaitOver(t)
    \/ ReadConfig(t)
    \/ SendReboot(t)
    \/ PollDone(t)
    \/ ClearFlag(t)
    \/ EndHandler(t)

Fault ==
    \/ ReadFails
    \/ Crash
    \/ \E t \in Threads : TimeoutRaises(t) \/ ClearFails(t)

Next == Environment \/ MainLoop \/ (\E t \in Threads : Handler(t)) \/ Fault

Spec == Init /\ [][Next]_vars

\* Every wait of a handler has a timeout.
FairSpec ==
    /\ Spec
    /\ WF_vars(MainLoop)
    /\ \A t \in Threads : WF_vars(Handler(t))
-----------------------------------------------------------------------------
(* Properties *)

\* The type of the state.
TypeOK ==
    /\ admin \in [Dpus -> {"up", "down", "none"}]
    /\ events \in [Dpus -> Nat]
    /\ oper \in [Dpus -> {"online", "offline"}]
    /\ halt \in [Dpus -> BOOLEAN]
    /\ mpc \in {"listen", "read", "active", "spawn"}
    /\ cur \in Dpus \union {None}
    /\ (cur = None) = (mpc = "listen")
    /\ active \in SUBSET Dpus
    /\ tpc \in [Threads -> {"none", "start", "wait", "config", "send", "poll", "clear", "end"}]
    /\ tdpu \in [Threads -> Dpus \union {None}]
    /\ \A t \in Threads : (tdpu[t] = None) = (tpc[t] = "none")
    /\ gen \in [Dpus -> Nat]
    /\ curGen \in Nat
    /\ served \in [Dpus -> Nat]
    /\ excused \in [Dpus -> Nat]
    /\ late \in [Dpus -> BOOLEAN]
    /\ uncleared \in [Dpus -> BOOLEAN]
    /\ changes \in Nat
    /\ faults \in Nat

\* A DPU never has two handlers, and active_transitions says exactly which have one (or
\* are about to): no handler leaves its DPU locked out, whichever way it ends.
OneHandlerPerDpu ==
    /\ \A t, u \in Threads : tpc[t] # "none" /\ tdpu[t] = tdpu[u] => t = u
    /\ active = {d \in Dpus : Handlers(d) # {} \/ (mpc = "spawn" /\ cur = d)}

\* With no notification waiting, the latest "down" of a DPU that is still down has got a
\* handler, unless its notification came while an earlier handler was running, was lost
\* in a crash, or was given up because admin_status could not be read.
NoDownLost ==
    \A d \in Dpus :
        admin[d] = "down" /\ events[d] = 0 /\ cur # d
        => gen[d] \in {served[d], excused[d]}

\* The flag of a DPU that is to be down is taken down by a handler under way or to come,
\* unless it was raised after the handler had finished, could not be cleared, or the
\* latest "down" was dropped, lost or not read.  (Back to "up" before the daemon has looked, no
\* handler starts and the flag stays.)
FlagNotLeft ==
    \A d \in Dpus :
        admin[d] = "down" /\ halt[d] /\ events[d] = 0 /\ cur # d /\ d \notin active
        => late[d] \/ uncleared[d] \/ excused[d] = gen[d]

\* A handler comes to its end, whatever fails.
HandlerEnds == \A d \in Dpus : d \in active ~> d \notin active
=============================================================================
