------------------------------- MODULE Reboot -------------------------------
(***************************************************************************)
(* host_modules/reboot.py: the D-Bus service that reboots the device it    *)
(* runs on and reports how that went.  The D-Bus main loop runs one method *)
(* at a time; an accepted request is executed by a thread of its own,      *)
(* which ends by writing the outcome into reboot_status_flag, unless the   *)
(* reboot takes the process down before.                                   *)
(***************************************************************************)
EXTENDS Naturals

CONSTANTS
    Threads,     \* identities of execute_reboot threads
    MaxRequests, \* bound: calls of issue_reboot
    MaxFaults    \* bound: failures of the thread's start, of docker and of psutil

ASSUME RebootAssumption ==
    /\ MaxRequests \in Nat
    /\ MaxFaults \in Nat

Methods == {"COLD", "WARM", "HALT"}

VARIABLES
    flag,         \* reboot_status_flag
    reboot_count,
    rpc,          \* where issue_reboot is, "idle" between calls
    request,      \* the request it was given
    tpc,          \* where each execute_reboot thread is
    tmethod,      \* its reboot_method
    pmon,         \* the pmon container is running
    haltCmd,      \* "reboot -p" is running
    issued,       \* a reboot command was started: the device may go down
    blind,        \* history: docker or psutil failed to answer since the start of the process
    orphaned,     \* history: the thread of an accepted request could not start
    requests, faults

env   == <<pmon, haltCmd, issued>>
exec  == <<tpc, tmethod>>
hist  == <<blind, orphaned>>
vars  == <<flag, reboot_count, rpc, request, exec, env, hist, requests, faults>>

Statuses == {"UNKNOWN", "SUCCESS", "FAILURE"}

Default == [active |-> FALSE, method |-> "", status |-> "UNKNOWN", count |-> 0]

Init ==
    /\ flag = Default
    /\ reboot_count = 0
    /\ rpc = "idle"
    /\ request = ""
    /\ tpc = [t \in Threads |-> "none"]
    /\ tmethod = [t \in Threads |-> ""]
    /\ pmon = TRUE
    /\ haltCmd = FALSE
    /\ issued = FALSE
    /\ blind = FALSE
    /\ orphaned = FALSE
    /\ requests = 0
    /\ faults = 0

\* Mutant of Populate: the count is left out.
PopulateWithoutCount(active, method, status) ==
    flag' = [active |-> active, method |-> method, status |-> status]

\* populate_reboot_status_flag, under the lock
Populate(active, method, status) ==
    flag' = [active |-> active, method |-> method, status |-> status,
             count |-> reboot_count]
-----------------------------------------------------------------------------
(* issue_reboot.  A request is one of the methods, or "bad": not JSON, no  *)
(* method, an unknown one, or a delay.                                     *)

\* Mutant of Call: the flag is not looked at.
CallUnchecked(r) ==
    /\ rpc = "idle"
    /\ requests < MaxRequests
    /\ requests' = requests + 1
    /\ reboot_count' = reboot_count + 1
    /\ rpc' = "validate"
    /\ request' = r
    /\ UNCHANGED <<flag, exec, env, hist, faults>>

\* The count goes up for a request that is then turned down, too.
Call(r) ==
    /\ rpc = "idle"
    /\ requests < MaxRequests
    /\ requests' = requests + 1
    /\ reboot_count' = reboot_count + 1
    /\ rpc' = IF flag.active THEN "idle" ELSE "validate"
    /\ request' = IF flag.active THEN "" ELSE r
    /\ UNCHANGED <<flag, exec, env, hist, faults>>

Refuse ==
    /\ rpc = "validate"
    /\ request = "bad"
    /\ rpc' = "idle"
    /\ request' = ""
    /\ UNCHANGED <<flag, reboot_count, exec, env, hist, requests, faults>>

Accept ==
    /\ rpc = "validate"
    /\ request # "bad"
    /\ Populate(TRUE, request, "UNKNOWN")
    /\ rpc' = "spawn"
    /\ UNCHANGED <<reboot_count, request, exec, env, hist, requests, faults>>

Spawn(t) ==
    /\ rpc = "spawn"
    /\ tpc[t] = "none"
    /\ tpc' = [tpc EXCEPT ![t] = "start"]
    /\ tmethod' = [tmethod EXCEPT ![t] = request]
    /\ rpc' = "idle"
    /\ request' = ""
    /\ UNCHANGED <<flag, reboot_count, env, hist, requests, faults>>

\* RuntimeError: the caller gets an error, the flag stays as it is.
SpawnFails ==
    /\ rpc = "spawn"
    /\ faults < MaxFaults
    /\ faults' = faults + 1
    /\ orphaned' = TRUE
    /\ rpc' = "idle"
    /\ request' = ""
    /\ UNCHANGED <<flag, reboot_count, exec, env, blind, requests>>
-----------------------------------------------------------------------------
(* execute_reboot *)

\* Mutant of Conclude: the outcome is written, active stays.
ConcludeActive(t, status) ==
    /\ Populate(TRUE, tmethod[t], status)
    /\ tpc' = [tpc EXCEPT ![t] = "none"]
    /\ tmethod' = [tmethod EXCEPT ![t] = ""]

\* The outcome, and the end of the thread.
Conclude(t, status) ==
    /\ Populate(FALSE, tmethod[t], status)
    /\ tpc' = [tpc EXCEPT ![t] = "none"]
    /\ tmethod' = [tmethod EXCEPT ![t] = ""]

Goto(t, pc) ==
    /\ tpc' = [tpc EXCEPT ![t] = pc]
    /\ UNCHANGED <<flag, tmethod>>

RunCommand(t) ==
    /\ tpc[t] = "start"
    /\ issued' = TRUE
    /\ haltCmd' = (haltCmd \/ tmethod[t] = "HALT")
    /\ Goto(t, "command")
    /\ UNCHANGED <<reboot_count, rpc, request, pmon, hist, requests, faults>>

\* rc # 0
CommandFails(t) ==
    /\ tpc[t] = "command"
    /\ Conclude(t, "FAILURE")
    /\ haltCmd' = FALSE
    /\ UNCHANGED <<reboot_count, rpc, request, pmon, issued, hist, requests, faults>>

CommandReturns(t) ==
    /\ tpc[t] = "command"
    /\ Goto(t, IF tmethod[t] = "HALT" THEN "poll" ELSE "sleep")
    /\ UNCHANGED <<reboot_count, rpc, request, env, hist, requests, faults>>

\* Still alive after REBOOT_TIMEOUT.
SleepOver(t) ==
    /\ tpc[t] = "sleep"
    /\ Conclude(t, "FAILURE")
    /\ UNCHANGED <<reboot_count, rpc, request, env, hist, requests, faults>>

\* is_halt_command_running and is_container_running answer False when they fail.
Answers(fact, answer) ==
    \/ answer = fact /\ UNCHANGED <<blind, faults>>
    \/ ~answer /\ fact /\ faults < MaxFaults /\ faults' = faults + 1 /\ blind' = TRUE

\* Mutant of PollCommand: pmon is not looked at.
PollCommandOnly(t) ==
    /\ tpc[t] = "poll"
    /\ Answers(haltCmd, FALSE)
    /\ Conclude(t, "SUCCESS")
    /\ UNCHANGED <<reboot_count, rpc, request, env, orphaned, requests>>

\* The loop goes on while the command runs ...
PollCommand(t) ==
    /\ tpc[t] = "poll"
    /\ Answers(haltCmd, FALSE)
    /\ Goto(t, "pollPmon")
    /\ UNCHANGED <<reboot_count, rpc, request, env, orphaned, requests>>

\* ... and while pmon does.
PollPmon(t) ==
    /\ tpc[t] = "pollPmon"
    /\ \E running \in BOOLEAN :
        /\ Answers(pmon, running)
        /\ IF running THEN Goto(t, "poll") ELSE Conclude(t, "SUCCESS")
    /\ UNCHANGED <<reboot_count, rpc, request, env, orphaned, requests>>

\* The timeout has passed: one last look at both.
PollOver(t) ==
    /\ tpc[t] = "poll"
    /\ Goto(t, "last")
    /\ UNCHANGED <<reboot_count, rpc, request, env, hist, requests, faults>>

LastCommand(t) ==
    /\ tpc[t] = "last"
    /\ \E running \in BOOLEAN :
        /\ Answers(haltCmd, running)
        /\ IF running THEN Conclude(t, "FAILURE") ELSE Goto(t, "lastPmon")
    /\ UNCHANGED <<reboot_count, rpc, request, env, orphaned, requests>>

LastPmon(t) ==
    /\ tpc[t] = "lastPmon"
    /\ \E running \in BOOLEAN :
        /\ Answers(pmon, running)
        /\ Conclude(t, IF running THEN "FAILURE" ELSE "SUCCESS")
    /\ UNCHANGED <<reboot_count, rpc, request, env, orphaned, requests>>
-----------------------------------------------------------------------------
(* The device.  "reboot -p" stops the services and ends, or ends before.   *)

PmonStops ==
    /\ haltCmd
    /\ pmon
    /\ pmon' = FALSE
    /\ UNCHANGED <<flag, reboot_count, rpc, request, exec, haltCmd, issued, hist, requests,
                   faults>>

HaltCmdEnds ==
    /\ haltCmd
    /\ \A t \in Threads : tpc[t] # "command"
    /\ haltCmd' = FALSE
    /\ UNCHANGED <<flag, reboot_count, rpc, request, exec, pmon, issued, hist, requests,
                   faults>>

\* The device goes down, at any time after a reboot command was started, and comes up.
DeviceReboots ==
    /\ issued
    /\ flag' = Default
    /\ reboot_count' = 0
    /\ rpc' = "idle"
    /\ request' = ""
    /\ tpc' = [t \in Threads |-> "none"]
    /\ tmethod' = [t \in Threads |-> ""]
    /\ pmon' = TRUE
    /\ haltCmd' = FALSE
    /\ issued' = FALSE
    /\ blind' = FALSE
    /\ orphaned' = FALSE
    /\ UNCHANGED <<requests, faults>>
-----------------------------------------------------------------------------
IssueReboot ==
    \/ Refuse
    \/ Accept
    \/ \E t \in Threads : Spawn(t)
    \/ SpawnFails

ExecuteReboot(t) ==
    \/ RunCommand(t)
    \/ CommandFails(t)
    \/ CommandReturns(t)
    \/ SleepOver(t)
    \/ PollCommand(t)
    \/ PollPmon(t)
    \/ LastCommand(t)
    \/ LastPmon(t)

Device == PmonStops \/ HaltCmdEnds \/ DeviceReboots

Next ==
    \/ \E r \in Methods \union {"bad"} : Call(r)
    \/ IssueReboot
    \/ \E t \in Threads : ExecuteReboot(t) \/ PollOver(t)
    \/ Device

Spec == Init /\ [][Next]_vars

\* Threads run and clocks advance; the commands return.
RebootFairness ==
    /\ WF_vars(IssueReboot)
    /\ \A t \in Threads : WF_vars(ExecuteReboot(t)) /\ SF_vars(PollOver(t))

FairSpec == Spec /\ RebootFairness
-----------------------------------------------------------------------------
(* Properties *)

ThreadPCs == {"none", "start", "command", "sleep", "poll", "pollPmon", "last", "lastPmon"}

\* The type of the state.
TypeOK ==
    /\ flag \in [active : BOOLEAN, method : Methods \union {""}, status : Statuses, count : Nat]
    /\ reboot_count \in Nat
    /\ rpc \in {"idle", "validate", "spawn"}
    /\ request \in Methods \union {"", "bad"}
    /\ tpc \in [Threads -> ThreadPCs]
    /\ tmethod \in [Threads -> Methods \union {""}]
    /\ pmon \in BOOLEAN
    /\ haltCmd \in BOOLEAN
    /\ issued \in BOOLEAN
    /\ blind \in BOOLEAN
    /\ orphaned \in BOOLEAN
    /\ requests \in Nat
    /\ faults \in Nat

\* There is never more than one execute_reboot under way, and it is the one that the flag
\* announces: a request is accepted only when the thread of the previous one is over,
\* and no thread of an earlier request writes its outcome over a later one.
OneReboot ==
    /\ \A t, u \in Threads : tpc[t] # "none" /\ tpc[u] # "none" => t = u
    /\ \A t \in Threads :
          tpc[t] # "none" => /\ flag.active
                             /\ flag.method = tmethod[t]
                             /\ flag.status = "UNKNOWN"

\* SUCCESS is reported of a halt only, and pmon was stopped unless a look at the device
\* failed (such a failure counts as "not running").
SuccessMeansHalted ==
    flag.status = "SUCCESS" => flag.method = "HALT" /\ (~pmon \/ blind)

\* An accepted request whose thread was started ends in an outcome or in a reboot of the
\* device; until then others are refused, afterwards they are not.
RebootConcludes ==
    flag.active ~> (~flag.active \/ orphaned)
=============================================================================
