--------------------------- MODULE ConsoleHeartbeats ---------------------------
(***************************************************************************)
(* scripts/console-monitor, one console line: the DTE service on one       *)
(* device sends a heartbeat every five seconds while CONSOLE_SWITCH says   *)
(* so, and the proxy on the console server writes into STATE_DB whether    *)
(* it hears them.  A heartbeat arrives whole or not at all: that a whole   *)
(* one is heard is HeartbeatsHeard of ConsoleFrames.                       *)
(*                                                                         *)
(* Time passes in ticks of HEARTBEAT_INTERVAL.                             *)
(***************************************************************************)
EXTENDS Integers

CONSTANTS
    HEARTBEAT_TIMEOUT,   \* in ticks
    Absent,              \* no row, no state yet
    MaxWishes,           \* bound: changes of CONSOLE_SWITCH, starts and stops of the proxy
    MaxLineFaults        \* bound: losses, failures and ends of processes

VARIABLES
    switch,          \* CONSOLE_SWITCH|controlled_device says "yes"
    switchNotes,     \* its notifications the DTE service has not handled
    dte,             \* "up", or "join": in _stop_heartbeat
    dteEnabled,
    heartbeat_stop,  \* the event
    thread,          \* the heartbeat thread runs
    strays,          \* heartbeat threads that were not waited for to the end
    sinceSent,       \* ticks since the thread has sent
    wanted,          \* the proxy is to run
    phase,           \* of the proxy: "down", "starting", "waiting" for what it needs, "running"
    deaf,            \* run has set running after the signal to stop: it has no effect
    oper_state,      \* what the proxy takes the row for
    row,             \* STATE_DB, oper_state of the line
    sinceHeartbeat, sinceData,
    quiet, silent,   \* history: ticks since a byte, a heartbeat arrived
    stale,           \* history: a write of the row failed, or a proxy was killed
    gone,            \* history: the serial device went away under the proxy
    misread,         \* history: the last reading of CONSOLE_SWITCH failed
    wishes, lineFaults

dteVars   == <<dte, dteEnabled, heartbeat_stop, thread, strays, sinceSent, misread>>
proxyVars == <<phase, deaf, oper_state, sinceHeartbeat, sinceData>>
seenVars  == <<quiet, silent, stale, gone>>
heartVars == <<switch, switchNotes, dteVars, wanted, proxyVars, row, seenVars, wishes, lineFaults>>

Long == 2 * HEARTBEAT_TIMEOUT

LineInit ==
    /\ switch \in BOOLEAN
    /\ switchNotes = 0
    /\ dte = "up"
    /\ dteEnabled = switch
    /\ heartbeat_stop = FALSE
    /\ thread = switch
    /\ strays = 0
    /\ sinceSent = 1
    /\ wanted = TRUE
    /\ phase = "starting"
    /\ deaf = FALSE
    /\ oper_state = Absent
    /\ row = Absent
    /\ sinceHeartbeat = 0
    /\ sinceData = 0
    /\ quiet = Long
    /\ silent = Long
    /\ stale = FALSE
    /\ gone = FALSE
    /\ misread = FALSE
    /\ wishes = 0
    /\ lineFaults = 0

LineFault == lineFaults < MaxLineFaults /\ lineFaults' = lineFaults + 1
Wish  == wishes < MaxWishes /\ wishes' = wishes + 1

Sending == ~heartbeat_stop /\ (thread \/ strays > 0)
-----------------------------------------------------------------------------
(* The DTE service                                                         *)

Switch ==
    /\ Wish
    /\ switch' = ~switch
    /\ switchNotes' = switchNotes + 1
    /\ UNCHANGED <<dteVars, wanted, proxyVars, row, seenVars, lineFaults>>

\* Mutant of Enable: the event stays set.
EnableSet ==
    /\ dte = "up"
    /\ switchNotes > 0
    /\ switch
    /\ switchNotes' = switchNotes - 1
    /\ misread' = FALSE
    /\ dteEnabled' = TRUE
    /\ IF ~dteEnabled /\ ~thread
       THEN thread' = TRUE /\ sinceSent' = 1
       ELSE UNCHANGED <<thread, sinceSent>>
    /\ UNCHANGED <<switch, dte, heartbeat_stop, strays, wanted, proxyVars, row, seenVars, wishes,
                   lineFaults>>

\* console_switch_handler: _check_enabled takes a failed reading for "no".
Enable ==
    /\ dte = "up"
    /\ switchNotes > 0
    /\ switch
    /\ switchNotes' = switchNotes - 1
    /\ misread' = FALSE
    /\ dteEnabled' = TRUE
    /\ IF ~dteEnabled /\ ~thread
       THEN /\ heartbeat_stop' = FALSE
            /\ thread' = TRUE
            /\ sinceSent' = 1
       ELSE UNCHANGED <<heartbeat_stop, thread, sinceSent>>
    /\ UNCHANGED <<switch, dte, strays, wanted, proxyVars, row, seenVars, wishes, lineFaults>>

Disable ==
    /\ dte = "up"
    /\ switchNotes > 0
    /\ \/ ~switch /\ misread' = FALSE /\ UNCHANGED lineFaults
       \/ misread' = TRUE /\ LineFault
    /\ switchNotes' = switchNotes - 1
    /\ dteEnabled' = FALSE
    /\ IF dteEnabled
       THEN dte' = "join" /\ heartbeat_stop' = TRUE
       ELSE UNCHANGED <<dte, heartbeat_stop>>
    /\ UNCHANGED <<switch, thread, strays, sinceSent, wanted, proxyVars, row, seenVars, wishes>>

\* The loop looks at the event before it sends.
ThreadEnds ==
    /\ heartbeat_stop
    /\ \/ thread /\ thread' = FALSE /\ UNCHANGED strays
       \/ strays > 0 /\ strays' = strays - 1 /\ UNCHANGED thread
    /\ UNCHANGED <<switch, switchNotes, dte, dteEnabled, heartbeat_stop, sinceSent, misread, wanted,
                   proxyVars, row, seenVars, wishes, lineFaults>>

Joined ==
    /\ dte = "join"
    /\ ~thread
    /\ dte' = "up"
    /\ UNCHANGED <<switch, switchNotes, dteEnabled, heartbeat_stop, thread, strays, sinceSent,
                   misread, wanted, proxyVars, row, seenVars, wishes, lineFaults>>

\* The thread hangs in the serial driver for more than two seconds.
JoinGivenUp ==
    /\ dte = "join"
    /\ thread
    /\ LineFault
    /\ dte' = "up"
    /\ thread' = FALSE
    /\ strays' = strays + 1
    /\ UNCHANGED <<switch, switchNotes, dteEnabled, heartbeat_stop, sinceSent, misread, wanted,
                   proxyVars, row, seenVars, wishes>>

\* The service ends, its threads with it, and is started again: _load_initial_config
DteRestarts ==
    /\ LineFault
    /\ switchNotes' = 0
    /\ dte' = "up"
    /\ dteEnabled' \in {switch, FALSE}
    /\ misread' = (dteEnabled' # switch)
    /\ heartbeat_stop' = FALSE
    /\ thread' = dteEnabled'
    /\ strays' = 0
    /\ sinceSent' = 1
    /\ UNCHANGED <<switch, wanted, proxyVars, row, seenVars, wishes>>
-----------------------------------------------------------------------------
(* What arrives at the proxy                                               *)

\* _update_state: what is remembered changes first, and a failed write is not repeated.
UpdateState(state) ==
    IF state = oper_state
    THEN UNCHANGED <<oper_state, row, stale, lineFaults>>
    ELSE /\ oper_state' = state
         /\ \/ row' = state /\ stale' = FALSE /\ UNCHANGED lineFaults
            \/ stale' = TRUE /\ UNCHANGED row /\ LineFault

Listening == phase = "running" /\ ~gone

\* _on_frame_received
Hears ==
    /\ Listening
    /\ sinceHeartbeat' = 0
    /\ sinceData' = 0
    /\ quiet' = 0
    /\ silent' = 0
    /\ UpdateState("Up")

\* A heartbeat that is not sent, or arrives with bytes missing.
Unheard ==
    /\ \/ LineFault
       \/ ~Listening /\ UNCHANGED lineFaults
    /\ UNCHANGED <<sinceHeartbeat, sinceData, quiet, silent, oper_state, row, stale>>

Heartbeat ==
    /\ Sending
    /\ sinceSent > 0
    /\ sinceSent' = 0
    /\ Hears \/ Unheard
    /\ UNCHANGED <<switch, switchNotes, dte, dteEnabled, heartbeat_stop, thread, strays, misread,
                   wanted, phase, deaf, gone, wishes>>

\* Characters of the console, in either mode of the line, count as a sign of life.
Data ==
    /\ Listening
    /\ quiet > 0
    /\ sinceData' = 0
    /\ quiet' = 0
    /\ UNCHANGED <<switch, switchNotes, dteVars, wanted, phase, deaf, oper_state, sinceHeartbeat,
                   row, silent, stale, gone, wishes, lineFaults>>

\* Mutant of Check: data as old as the timeout still counts.
CheckLeniently ==
    /\ phase = "running"
    /\ sinceHeartbeat = HEARTBEAT_TIMEOUT
    /\ sinceHeartbeat' = 0
    /\ IF sinceData <= HEARTBEAT_TIMEOUT
       THEN UNCHANGED <<oper_state, row, stale, lineFaults>>
       ELSE UpdateState("Unknown")
    /\ UNCHANGED <<switch, switchNotes, dteVars, wanted, phase, deaf, sinceData, quiet, silent,
                   gone, wishes>>

\* _check_heartbeat_timeout
Check ==
    /\ phase = "running"
    /\ sinceHeartbeat = HEARTBEAT_TIMEOUT
    /\ sinceHeartbeat' = 0
    /\ IF sinceData < HEARTBEAT_TIMEOUT
       THEN UNCHANGED <<oper_state, row, stale, lineFaults>>
       ELSE UpdateState("Unknown")
    /\ UNCHANGED <<switch, switchNotes, dteVars, wanted, phase, deaf, sinceData, quiet, silent,
                   gone, wishes>>

\* Reading fails or returns nothing from now on, and the device is not opened again.
Unplugged ==
    /\ Listening
    /\ LineFault
    /\ gone' = TRUE
    /\ UNCHANGED <<switch, switchNotes, dteVars, wanted, proxyVars, row, quiet, silent, stale,
                   wishes>>
-----------------------------------------------------------------------------
Later(ticks, bound) == IF ticks < bound THEN ticks + 1 ELSE bound

\* select wakes the proxy in time, and the thread's wait ends after one tick.
Tick ==
    /\ phase = "running" => sinceHeartbeat < HEARTBEAT_TIMEOUT
    /\ Sending => sinceSent = 0
    /\ sinceSent' = 1
    /\ quiet' = Later(quiet, Long)
    /\ silent' = Later(silent, Long)
    /\ IF phase = "running"
       THEN /\ sinceHeartbeat' = sinceHeartbeat + 1
            /\ sinceData' = Later(sinceData, HEARTBEAT_TIMEOUT)
       ELSE UNCHANGED <<sinceHeartbeat, sinceData>>
    /\ UNCHANGED <<switch, switchNotes, dte, dteEnabled, heartbeat_stop, thread, strays, misread,
                   wanted, phase, deaf, oper_state, row, stale, gone, wishes, lineFaults>>
-----------------------------------------------------------------------------
(* The life of the proxy                                                   *)

ProxyIs(p) ==
    /\ phase' = p
    /\ UNCHANGED <<switch, switchNotes, dteVars>>

Forgets ==
    /\ oper_state' = Absent
    /\ sinceHeartbeat' = 0
    /\ sinceData' = 0
    /\ gone' = FALSE
    /\ deaf' = FALSE

\* run: from here on a signal is not overwritten.
Runs ==
    /\ phase = "starting"
    /\ ProxyIs("waiting")
    /\ UNCHANGED <<wanted, deaf, oper_state, sinceHeartbeat, sinceData, row, seenVars, wishes,
                   lineFaults>>

\* The three waits are over, and _initialize has opened the devices.
Initialized ==
    /\ phase = "waiting"
    /\ wanted \/ deaf
    /\ ProxyIs("running")
    /\ UNCHANGED <<wanted, deaf, oper_state, sinceHeartbeat, sinceData, row, seenVars, wishes,
                   lineFaults>>

\* It ends before, with nothing to clean up: told to stop, or _initialize failed.
EndsEarly ==
    /\ phase = "waiting"
    /\ \/ ~wanted /\ ~deaf /\ UNCHANGED lineFaults
       \/ wanted /\ LineFault
    /\ ProxyIs("down")
    /\ Forgets
    /\ UNCHANGED <<wanted, row, quiet, silent, stale, wishes>>

\* Told to stop in its loop: _cleanup
Ends ==
    /\ phase = "running"
    /\ ~wanted /\ ~deaf
    /\ Forgets
    /\ \/ row' = Absent /\ stale' = FALSE /\ UNCHANGED lineFaults
       \/ stale' = TRUE /\ UNCHANGED row /\ LineFault
    /\ ProxyIs("down")
    /\ UNCHANGED <<wanted, quiet, silent, wishes>>

\* It is killed: by a fault, or by systemd, whose signal it does not follow.
ProxyKilled ==
    /\ phase # "down"
    /\ \/ LineFault
       \/ deaf /\ UNCHANGED lineFaults
    /\ ProxyIs("down")
    /\ Forgets
    /\ stale' = (stale \/ row # Absent)
    /\ UNCHANGED <<wanted, row, quiet, silent, wishes>>

\* systemctl, or Restart=on-failure
ProxyStarted ==
    /\ phase = "down"
    /\ wanted
    /\ ProxyIs("starting")
    /\ UNCHANGED <<wanted, deaf, oper_state, sinceHeartbeat, sinceData, row, seenVars, wishes,
                   lineFaults>>

Want ==
    /\ Wish
    /\ wanted' = ~wanted
    /\ wanted' => phase = "down"
    /\ deaf' = (phase = "starting")
    /\ UNCHANGED <<switch, switchNotes, dteVars, phase, oper_state, sinceHeartbeat, sinceData,
                   row, seenVars, lineFaults>>
-----------------------------------------------------------------------------
DteNext   == Enable \/ Disable \/ ThreadEnds \/ Joined
ProxyNext == Check \/ Runs \/ Initialized \/ EndsEarly \/ Ends \/ ProxyStarted

LineNext ==
    \/ Switch \/ Want
    \/ DteNext \/ JoinGivenUp \/ DteRestarts
    \/ Heartbeat \/ Data \/ Unplugged
    \/ Tick
    \/ ProxyNext \/ ProxyKilled

\* Both services run, heartbeats are sent as long as there is a thread, and time passes.
LineFairness ==
    /\ WF_heartVars(DteNext)
    /\ WF_heartVars(ProxyNext)
    /\ WF_heartVars(Heartbeat)
    /\ WF_heartVars(Tick)

LineSpec == LineInit /\ [][LineNext]_heartVars /\ LineFairness
-----------------------------------------------------------------------------
States == {"Up", "Unknown", Absent}

\* The type of the state.
LineTypeOK ==
    /\ switch \in BOOLEAN /\ wanted \in BOOLEAN
    /\ dteEnabled \in BOOLEAN /\ heartbeat_stop \in BOOLEAN /\ thread \in BOOLEAN
    /\ misread \in BOOLEAN
    /\ deaf \in BOOLEAN /\ stale \in BOOLEAN /\ gone \in BOOLEAN
    /\ switchNotes \in 0 .. wishes
    /\ strays \in 0 .. lineFaults
    /\ sinceSent \in {0, 1}
    /\ {sinceHeartbeat, sinceData} \subseteq 0 .. HEARTBEAT_TIMEOUT
    /\ {quiet, silent} \subseteq 0 .. Long
    /\ dte \in {"up", "join"}
    /\ phase \in {"down", "starting", "waiting", "running"}
    /\ {oper_state, row} \subseteq States
    /\ wishes \in 0 .. MaxWishes
    /\ lineFaults \in 0 .. MaxLineFaults

\* The row tells of a line what was heard of it: "Up" that something came within less than two
\* timeouts, one of them granted by characters of the console (819); "Unknown" that no heartbeat
\* came within one; and no row that no proxy runs, or none has decided yet.  The exceptions: a
\* failed write, never repeated (834, 853), and a proxy that was killed, whose row stays.
RowTellsOfLine ==
    ~stale =>
        /\ row = "Up" => quiet < Long
        /\ row = "Unknown" => silent >= HEARTBEAT_TIMEOUT
        /\ row = oper_state

\* Heartbeats are sent as the switch says, and a proxy that runs shows the line as up when they are.
Agreed ==
    /\ ~misread => (Sending <=> switch)
    /\ Sending /\ phase = "running" => gone \/ row = "Up" \/ (stale /\ oper_state = "Up")

\* In the end the two devices agree: where the switch stays on, heartbeats are sent and a proxy
\* that runs shows the line as up; where it stays off, nobody sends, however often it was changed
\* and whichever thread was not waited for.  The exceptions: a failed reading of the switch
\* (1301), a failed write of the row (834), a serial device that went away under the proxy (780).
SwitchShows == <>[]Agreed
=============================================================================
