---------------------------- MODULE DebugExecutor ----------------------------
(***************************************************************************)
(* host_modules/debug_service.py: RunCommand hands a command to a pool of  *)
(* one thread and waits TIMEOUT seconds for its end.  The thread runs the  *)
(* command and passes its output on as D-Bus signals; it looks at the      *)
(* event by which RunCommand gives up on a command only after select has   *)
(* returned, which it does when the command writes or closes something.    *)
(***************************************************************************)
EXTENDS Integers, Sequences

CONSTANTS
    Commands,    \* the calls of RunCommand, each used once: this bounds their number
    None,        \* no call
    MaxSpawnFaults \* bound: failures of Popen, of reading and of passing on

ASSUME DebugAssumption ==
    /\ None \notin Commands
    /\ MaxSpawnFaults \in Nat

Ends == {"pty", "stderr"}

\* Bound: late outputs are counted up to here.
MaxLate == 3

VARIABLES
    serving,     \* the call RunCommand is waiting for
    queue,       \* the pool's work queue
    cancelled,   \* calls whose cancellation_event is set
    answer,      \* what the caller of each call was told
    future,      \* the outcome of each call's future
    running,     \* the call the pool's thread works on
    wpc,         \* where the thread is; at an end: it is about to read that end
    watched,     \* fds
    ready,       \* what select returned
    descriptors, \* descriptors of the service in use for commands
    alive,       \* calls whose process runs
    open,        \* ends which the process or a descendant of it holds
    data,        \* ends with output nobody has read
    late,        \* history: outputs passed on after the call was answered
    unspawned,   \* history: commands that could not be started
    spawnFaults

loop    == <<serving, answer, cancelled>>
thread  == <<running, wpc, watched, ready, descriptors>>
process == <<alive, open, data>>
past    == <<late, unspawned>>
debugVars == <<loop, queue, future, thread, process, past, spawnFaults>>

Init ==
    /\ serving = None
    /\ queue = <<>>
    /\ cancelled = {}
    /\ answer = [c \in Commands |-> "none"]
    /\ future = [c \in Commands |-> "pending"]
    /\ running = None
    /\ wpc = "idle"
    /\ watched = {}
    /\ ready = {}
    /\ descriptors = 0
    /\ alive = {}
    /\ open = [c \in Commands |-> {}]
    /\ data = [c \in Commands |-> {}]
    /\ late = [c \in Commands |-> 0]
    /\ unspawned = 0
    /\ spawnFaults = 0

Readable(c, e) == e \in data[c] \/ e \notin open[c]
-----------------------------------------------------------------------------
(* RunCommand, in the D-Bus loop, which serves nobody else meanwhile.      *)

RunCommand(c) ==
    /\ serving = None
    /\ answer[c] = "none"
    /\ serving' = c
    /\ queue' = Append(queue, c)
    /\ UNCHANGED <<cancelled, answer, future, thread, process, past, spawnFaults>>

Reply(c, what) ==
    /\ answer' = [answer EXCEPT ![c] = what]
    /\ serving' = None

AnswerExited(c) ==
    /\ serving = c
    /\ future[c] = "result"
    /\ Reply(c, "exited")
    /\ UNCHANGED <<cancelled, queue, future, thread, process, past, spawnFaults>>

AnswerFailed(c) ==
    /\ serving = c
    /\ future[c] = "exception"
    /\ Reply(c, "failed")
    /\ cancelled' = cancelled \cup {c}
    /\ UNCHANGED <<queue, future, thread, process, past, spawnFaults>>

\* The future stays in the pool: a call that waits in the queue is run later.
AnswerTimeout(c) ==
    /\ serving = c
    /\ future[c] = "pending"
    /\ Reply(c, "timeout")
    /\ cancelled' = cancelled \cup {c}
    /\ UNCHANGED <<queue, future, thread, process, past, spawnFaults>>
-----------------------------------------------------------------------------
(* _run_and_stream, in the pool's thread.                                  *)

Take ==
    /\ running = None
    /\ queue # <<>>
    /\ running' = Head(queue)
    /\ queue' = Tail(queue)
    /\ wpc' = "spawn"
    /\ UNCHANGED <<loop, future, watched, ready, descriptors, process, past, spawnFaults>>

\* The pseudo terminal and the pipe; the slave end is closed again.
Spawn ==
    /\ wpc = "spawn"
    /\ descriptors' = descriptors + 2
    /\ alive' = alive \cup {running}
    /\ open' = [open EXCEPT ![running] = Ends]
    /\ watched' = Ends
    /\ wpc' = "select"
    /\ UNCHANGED <<loop, queue, future, running, ready, data, past, spawnFaults>>

\* The thread is done with its call.
Finish(outcome) ==
    /\ future' = [future EXCEPT ![running] = outcome]
    /\ running' = None
    /\ wpc' = "idle"
    /\ watched' = {}
    /\ ready' = {}

\* Popen raises: nobody closes the two descriptors of the pseudo terminal.
SpawnFails ==
    /\ wpc = "spawn"
    /\ spawnFaults < MaxSpawnFaults
    /\ spawnFaults' = spawnFaults + 1
    /\ unspawned' = unspawned + 1
    /\ descriptors' = descriptors + 2
    /\ Finish("exception")
    /\ UNCHANGED <<loop, queue, process, late>>

Select ==
    /\ wpc = "select"
    /\ ready' = {e \in watched : Readable(running, e)}
    /\ ready' # {}
    /\ wpc' = "check"
    /\ UNCHANGED <<loop, queue, future, running, watched, descriptors, process, past, spawnFaults>>

\* Mutant of Check: the cancellation is not looked at.
CheckNothing ==
    /\ wpc = "check"
    /\ wpc' = "pty"
    /\ UNCHANGED <<loop, queue, future, running, watched, ready, descriptors, process, past,
                   spawnFaults>>

Check ==
    /\ wpc = "check"
    /\ wpc' = IF running \in cancelled THEN "stop" ELSE "pty"
    /\ UNCHANGED <<loop, queue, future, running, watched, ready, descriptors, process, past,
                   spawnFaults>>

After(e) ==
    IF e = "pty" THEN "stderr" ELSE IF watched' = {} THEN "stop" ELSE "select"

\* Stdout and Stderr
Emit(e) ==
    /\ wpc = e
    /\ e \in ready
    /\ e \in data[running]
    /\ data' = [data EXCEPT ![running] = @ \ {e}]
    /\ late' = [late EXCEPT ![running] = IF answer[running] = "none" \/ @ = MaxLate THEN @ ELSE @ + 1]
    /\ UNCHANGED watched
    /\ wpc' = After(e)
    /\ UNCHANGED <<loop, queue, future, running, ready, descriptors, alive, open, unspawned,
                   spawnFaults>>

\* EIO from the pseudo terminal, an empty read from the pipe
SeeClosed(e) ==
    /\ wpc = e
    /\ e \in ready
    /\ e \notin data[running]
    /\ watched' = watched \ {e}
    /\ wpc' = After(e)
    /\ UNCHANGED <<loop, queue, future, running, ready, descriptors, process, past, spawnFaults>>

PassOver(e) ==
    /\ wpc = e
    /\ e \notin ready
    /\ UNCHANGED watched
    /\ wpc' = After(e)
    /\ UNCHANGED <<loop, queue, future, running, ready, descriptors, process, past, spawnFaults>>

\* Another OSError, or an error of the D-Bus signal: the return in the finally clause ends it.
ReadRaises(e) ==
    /\ wpc = e
    /\ e \in ready
    /\ spawnFaults < MaxSpawnFaults
    /\ spawnFaults' = spawnFaults + 1
    /\ wpc' = "stop"
    /\ UNCHANGED <<loop, queue, future, running, watched, ready, descriptors, process, past>>

\* Mutant of Stop: the outcome is set without waiting for the process.
StopWithoutWaiting ==
    /\ wpc = "stop"
    /\ descriptors' = descriptors - 2
    /\ open' = [open EXCEPT ![running] = {}]
    /\ data' = [data EXCEPT ![running] = {}]
    /\ Finish("result")
    /\ UNCHANGED <<loop, queue, alive, past, spawnFaults>>

\* Both descriptors are closed; a process that still runs gets SIGTERM.
Stop ==
    /\ wpc = "stop"
    /\ descriptors' = descriptors - 2
    /\ open' = [open EXCEPT ![running] = {}]
    /\ data' = [data EXCEPT ![running] = {}]
    /\ IF running \in alive
       THEN wpc' = "wait" /\ UNCHANGED <<future, running, watched, ready>>
       ELSE Finish("result")
    /\ UNCHANGED <<loop, queue, alive, past, spawnFaults>>

\* Mutant of WaitOver: the descriptors are closed a second time.
WaitOverClosesAgain ==
    /\ wpc = "wait"
    /\ alive' = alive \ {running}
    /\ descriptors' = descriptors - 2
    /\ Finish("result")
    /\ UNCHANGED <<loop, queue, open, data, past, spawnFaults>>

\* It ends within five seconds or is killed.
WaitOver ==
    /\ wpc = "wait"
    /\ alive' = alive \ {running}
    /\ Finish("result")
    /\ UNCHANGED <<loop, queue, descriptors, open, data, past, spawnFaults>>
-----------------------------------------------------------------------------
(* The commands.                                                           *)

Write(c, e) ==
    /\ e \in open[c] \ data[c]
    /\ data' = [data EXCEPT ![c] = @ \cup {e}]
    /\ UNCHANGED <<loop, queue, future, thread, alive, open, past, spawnFaults>>

CloseEnd(c, e) ==
    /\ e \in open[c]
    /\ open' = [open EXCEPT ![c] = @ \ {e}]
    /\ UNCHANGED <<loop, queue, future, thread, alive, data, past, spawnFaults>>

\* A descendant may go on to hold the ends.
Exit(c) ==
    /\ c \in alive
    /\ alive' = alive \ {c}
    /\ UNCHANGED <<loop, queue, future, thread, open, data, past, spawnFaults>>
-----------------------------------------------------------------------------
ReadStep ==
    \E e \in Ends : Emit(e) \/ SeeClosed(e) \/ PassOver(e) \/ ReadRaises(e)

Worker ==
    \/ Take \/ Spawn \/ SpawnFails \/ Select \/ Check \/ Stop \/ WaitOver
    \/ ReadStep

Answer == \E c \in Commands : AnswerExited(c) \/ AnswerFailed(c) \/ AnswerTimeout(c)

CommandStep ==
    \E c \in Commands : Exit(c) \/ \E e \in Ends : Write(c, e) \/ CloseEnd(c, e)

Next ==
    \/ \E c \in Commands : RunCommand(c)
    \/ Answer
    \/ Worker
    \/ CommandStep

Spec == Init /\ [][Next]_debugVars

\* The thread goes on when it can, and future.result returns at the latest when TIMEOUT is over.
\* Nothing is assumed of the commands.
Fairness == WF_debugVars(Worker) /\ WF_debugVars(Answer)

FairSpec == Spec /\ Fairness
-----------------------------------------------------------------------------
\* The type of the state.
TypeOK ==
    /\ serving \in Commands \cup {None}
    /\ queue \in Seq(Commands)
    /\ cancelled \in SUBSET Commands
    /\ answer \in [Commands -> {"none", "exited", "failed", "timeout"}]
    /\ future \in [Commands -> {"pending", "result", "exception"}]
    /\ running \in Commands \cup {None}
    /\ wpc \in {"idle", "spawn", "select", "check", "stop", "wait"} \cup Ends
    /\ watched \in SUBSET Ends
    /\ ready \in SUBSET Ends
    /\ descriptors \in Nat
    /\ alive \in SUBSET Commands
    /\ open \in [Commands -> SUBSET Ends]
    /\ data \in [Commands -> SUBSET Ends]
    /\ late \in [Commands -> 0..MaxLate]
    /\ unspawned \in Nat
    /\ spawnFaults \in Nat

\* One command at a time runs on the device, and its caller is told of its end only after it
\* (max_workers = 1, debug_service.py:28, and the waiting in the finally clause, 91-104).
OneCommandAtATime ==
    /\ \A c, d \in alive : c = d
    /\ \A c \in Commands : answer[c] = "exited" => c \notin alive

\* A command its caller has been told is over can get out what select had found before the
\* event was set, one output of each end; everything else that is heard during a call belongs
\* to that call (the event is looked at in line 62, before the reads).
LateOutputBounded ==
    \A c \in Commands : late[c] <= 2

\* The descriptors of a command are given back whatever happens to it, but for those of a
\* command that could not be started (openpty in line 34, Popen in 40, the closing in 88-89).
DescriptorsReturned ==
    descriptors = 2 * unspawned + (IF wpc \in {"idle", "spawn", "wait"} THEN 0 ELSE 2)

\* If the thread never gets rid of a command, this neither writes nor closes anything any more:
\* nothing else can keep the pool busy for ever (select without timeout, debug_service.py:59).
HeldOnlyBySilence ==
    \A c \in Commands :
        <>[](running = c) => <>[](wpc = "select" /\ \A e \in watched : ~Readable(c, e))

\* "The timeout ensures that commands are stopped" (debug_service.py:129): a command reported as
\* timed out runs no longer from some time on.
TimedOutStops ==
    \A c \in Commands : [](answer[c] = "timeout" => <>[](c \notin alive))
=============================================================================
