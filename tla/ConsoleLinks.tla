----------------------------- MODULE ConsoleLinks -----------------------------
(***************************************************************************)
(* scripts/console-monitor, the DCE service: for each row of CONSOLE_PORT  *)
(* it keeps two systemd services, a pty bridge and a proxy, by calls of    *)
(* systemctl.  Every change of CONSOLE_PORT or CONSOLE_SWITCH makes it     *)
(* compare the rows with the links it remembers.  The proxy reads its row  *)
(* by itself when it has come up.                                          *)
(***************************************************************************)
EXTENDS Integers, FiniteSets

CONSTANTS
    Links,
    Bauds,          \* baud rates
    None,           \* no row, no entry, no link
    Bad,            \* a row whose baud rate is not a number
    MaxRowChanges,  \* bound: changes of CONFIG_DB
    MaxLinkFaults   \* bound: failing calls and readings, ends of the service

ASSUME LinksAssumption ==
    /\ {None, Bad, "down", "waiting"} \cap Bauds = {}
    /\ None # Bad
    /\ None \notin Links
    /\ MaxRowChanges \in Nat
    /\ MaxLinkFaults \in Nat

VARIABLES
    rows,         \* CONSOLE_PORT
    enabled,      \* CONSOLE_SWITCH|console_mgmt
    notes,        \* notifications the service has not handled yet
    active_links, config_cache,
    dpc,          \* the step of the service
    redis_configs,\* what _get_all_configs returned
    toStop, toStart, toCheck,  \* links the three loops of _sync have still to visit
    link,         \* the link a loop works on
    restarting,   \* it does so in _restart_link
    bridge,       \* links whose pty bridge runs
    proxy,        \* per link: "down", "waiting" for the row, or the baud rate it uses
    spoilt,       \* history: links whose services a call failed to change, or an earlier service left
    crossed,      \* history: links whose proxy read another row than the service had
    unread,       \* history: the last reading of CONFIG_DB failed
    rowChanges, linkFaults

config   == <<rows, enabled, rowChanges>>
memory   == <<active_links, config_cache>>
work     == <<redis_configs, toStop, toStart, toCheck, link, restarting>>
units    == <<bridge, proxy>>
lhist    == <<spoilt, crossed, unread>>
linkVars == <<config, notes, memory, dpc, work, units, lhist, linkFaults>>

NoConfigs == [l \in Links |-> None]

Init ==
    /\ rows \in [Links -> Bauds \cup {None}]
    /\ enabled \in BOOLEAN
    /\ notes = 0
    /\ active_links = {}
    /\ config_cache = NoConfigs
    /\ dpc = "check"
    /\ redis_configs = NoConfigs
    /\ toStop = {} /\ toStart = {} /\ toCheck = {}
    /\ link = None
    /\ restarting = FALSE
    /\ bridge = {}
    /\ proxy = [l \in Links |-> "down"]
    /\ spoilt = {}
    /\ crossed = {}
    /\ unread = FALSE
    /\ rowChanges = 0
    /\ linkFaults = 0

Fault == linkFaults < MaxLinkFaults /\ linkFaults' = linkFaults + 1

Forget(l) ==
    /\ active_links' = active_links \ {l}
    /\ config_cache' = [config_cache EXCEPT ![l] = None]

Remember(l) ==
    /\ active_links' = active_links \cup {l}
    /\ config_cache' = [config_cache EXCEPT ![l] = redis_configs[l]]
-----------------------------------------------------------------------------
(* CONFIG_DB                                                               *)

Change ==
    /\ rowChanges < MaxRowChanges
    /\ rowChanges' = rowChanges + 1
    /\ \/ \E l \in Links, r \in Bauds \cup {None, Bad} :
             r # rows[l] /\ rows' = [rows EXCEPT ![l] = r] /\ UNCHANGED enabled
       \/ enabled' = ~enabled /\ UNCHANGED rows
    /\ notes' = (IF dpc = "down" THEN 0 ELSE notes + 1)
    /\ UNCHANGED <<memory, dpc, work, units, lhist, linkFaults>>
-----------------------------------------------------------------------------
(* _sync: the switch, the rows, and what is to be done.                    *)

TakeNote ==
    /\ dpc = "idle"
    /\ notes > 0
    /\ notes' = notes - 1
    /\ dpc' = "check"
    /\ UNCHANGED <<config, memory, work, units, lhist, linkFaults>>

\* Disabled, or an exception that looks the same: all links are stopped.
CheckDisabled ==
    /\ dpc = "check"
    /\ \/ ~enabled /\ unread' = FALSE /\ UNCHANGED linkFaults
       \/ unread' = TRUE /\ Fault
    /\ dpc' = "stop"
    /\ toStop' = active_links
    /\ UNCHANGED <<config, notes, memory, redis_configs, toStart, toCheck, link, restarting,
                   units, spoilt, crossed>>

CheckEnabled ==
    /\ dpc = "check"
    /\ enabled
    /\ dpc' = "read"
    /\ UNCHANGED <<config, notes, memory, work, units, lhist, linkFaults>>

Plan(configs) ==
    LET ids == {l \in Links : configs[l] # None} IN
    /\ redis_configs' = configs
    /\ toStop' = active_links \ ids
    /\ toStart' = ids \ active_links
    /\ toCheck' = ids \cap active_links
    /\ dpc' = "stop"
    /\ UNCHANGED <<config, notes, memory, link, restarting, units, spoilt, crossed>>

\* Mutant of ReadAll: a link that is known keeps its configuration.
ReadCached ==
    /\ dpc = "read"
    /\ \A l \in Links : rows[l] # Bad
    /\ unread' = FALSE
    /\ Plan([l \in Links |-> IF l \in active_links /\ rows[l] # None
                             THEN config_cache[l] ELSE rows[l]])
    /\ UNCHANGED linkFaults

ReadAll ==
    /\ dpc = "read"
    /\ \A l \in Links : rows[l] # Bad
    /\ unread' = FALSE
    /\ Plan(rows)
    /\ UNCHANGED linkFaults

\* A row that cannot be used ends the reading: only the rows before it count.
ReadUntilBad ==
    /\ dpc = "read"
    /\ \E l \in Links : rows[l] = Bad
    /\ unread' = TRUE
    /\ \E seen \in SUBSET {l \in Links : rows[l] # Bad} :
          Plan([l \in Links |-> IF l \in seen THEN rows[l] ELSE None])
    /\ UNCHANGED linkFaults

\* The table cannot be read: it looks empty.
ReadRaises ==
    /\ dpc = "read"
    /\ Fault
    /\ unread' = TRUE
    /\ Plan(NoConfigs)
-----------------------------------------------------------------------------
(* ... then the three loops, in this order.                                *)

Visit(l, step) ==
    /\ link' = l
    /\ dpc' = step
    /\ UNCHANGED <<config, notes, redis_configs, units, lhist, linkFaults>>

VisitStop(l) ==
    /\ dpc = "stop"
    /\ l \in toStop
    /\ toStop' = toStop \ {l}
    /\ restarting' = FALSE
    /\ Visit(l, "stop proxy")
    /\ UNCHANGED <<memory, toStart, toCheck>>

VisitStart(l) ==
    /\ dpc = "stop"
    /\ toStop = {}
    /\ l \in toStart
    /\ toStart' = toStart \ {l}
    /\ restarting' = FALSE
    /\ Visit(l, "start bridge")
    /\ UNCHANGED <<memory, toStop, toCheck>>

VisitChanged(l) ==
    /\ dpc = "stop"
    /\ toStop = {} /\ toStart = {}
    /\ l \in toCheck
    /\ redis_configs[l] # config_cache[l]
    /\ toCheck' = toCheck \ {l}
    /\ restarting' = TRUE
    /\ Visit(l, "stop proxy")
    /\ UNCHANGED <<memory, toStop, toStart>>

VisitUnchanged(l) ==
    /\ dpc = "stop"
    /\ toStop = {} /\ toStart = {}
    /\ l \in toCheck
    /\ redis_configs[l] = config_cache[l]
    /\ toCheck' = toCheck \ {l}
    /\ UNCHANGED <<config, notes, memory, dpc, redis_configs, toStop, toStart, link, restarting,
                   units, lhist, linkFaults>>

SyncDone ==
    /\ dpc = "stop"
    /\ toStop = {} /\ toStart = {} /\ toCheck = {}
    /\ dpc' = "idle"
    /\ redis_configs' = NoConfigs
    /\ link' = None
    /\ restarting' = FALSE
    /\ UNCHANGED <<config, notes, memory, toStop, toStart, toCheck, units, lhist, linkFaults>>
-----------------------------------------------------------------------------
(* _stop_link, _start_link and _restart_link: one call of systemctl each.  *)

\* A call that fails or is given up after thirty seconds may have had its effect or not.
Down(l)    == [proxy EXCEPT ![l] = "down"]
Started(l) == [proxy EXCEPT ![l] = IF @ = "down" THEN "waiting" ELSE @]

\* The outcome is not looked at.
StopProxy ==
    /\ dpc = "stop proxy"
    /\ \/ proxy' = Down(link) /\ UNCHANGED <<spoilt, linkFaults>>
       \/ proxy' \in {proxy, Down(link)} /\ spoilt' = spoilt \cup {link} /\ Fault
    /\ dpc' = "stop bridge"
    /\ UNCHANGED <<config, notes, memory, work, bridge, crossed, unread>>

\* What a link's services are after both were stopped, and stopped now, is known again.
Recovered == IF proxy[link] = "down" THEN spoilt \ {link} ELSE spoilt

\* Mutant of StopBridge: a restart ends here.
StopBridgeAlways ==
    /\ dpc = "stop bridge"
    /\ \/ bridge' = bridge \ {link} /\ spoilt' = Recovered /\ UNCHANGED linkFaults
       \/ bridge' \in {bridge, bridge \ {link}} /\ spoilt' = spoilt \cup {link} /\ Fault
    /\ crossed' = crossed \ {link}
    /\ dpc' = "stop"
    /\ IF restarting THEN Remember(link) ELSE Forget(link)
    /\ UNCHANGED <<config, notes, work, proxy, unread>>

StopBridge ==
    /\ dpc = "stop bridge"
    /\ \/ bridge' = bridge \ {link} /\ spoilt' = Recovered /\ UNCHANGED linkFaults
       \/ bridge' \in {bridge, bridge \ {link}} /\ spoilt' = spoilt \cup {link} /\ Fault
    /\ crossed' = crossed \ {link}
    /\ IF restarting
       THEN dpc' = "start bridge" /\ UNCHANGED memory
       ELSE dpc' = "stop" /\ Forget(link)
    /\ UNCHANGED <<config, notes, work, proxy, unread>>

StartBridge ==
    /\ dpc = "start bridge"
    /\ bridge' = bridge \cup {link}
    /\ dpc' = "start proxy"
    /\ UNCHANGED <<config, notes, memory, work, proxy, lhist, linkFaults>>

\* A link that could not be restarted counts as restarted, one that could not be started as new.
GiveUp ==
    /\ dpc' = "stop"
    /\ IF restarting THEN Remember(link) ELSE UNCHANGED memory

StartBridgeFails ==
    /\ dpc = "start bridge"
    /\ Fault
    /\ bridge' \in {bridge, bridge \cup {link}}
    /\ spoilt' = spoilt \cup {link}
    /\ GiveUp
    /\ UNCHANGED <<config, notes, work, proxy, crossed, unread>>

\* Starting what runs already changes nothing.
StartProxy ==
    /\ dpc = "start proxy"
    /\ proxy' = Started(link)
    /\ dpc' = "stop"
    /\ Remember(link)
    /\ UNCHANGED <<config, notes, work, bridge, lhist, linkFaults>>

StartProxyFails ==
    /\ dpc = "start proxy"
    /\ Fault
    /\ spoilt' = spoilt \cup {link}
    /\ proxy' \in {proxy, Started(link)}
    /\ bridge' \in {bridge, bridge \ {link}}
    /\ GiveUp
    /\ UNCHANGED <<config, notes, work, crossed, unread>>
-----------------------------------------------------------------------------
(* The proxy, and the ends of the service.                                 *)

\* ProxyService._wait_for_config
ProxyReads(l) ==
    /\ proxy[l] = "waiting"
    /\ rows[l] \in Bauds
    /\ proxy' = [proxy EXCEPT ![l] = rows[l]]
    /\ crossed' = IF config_cache[l] # rows[l] THEN crossed \cup {l} ELSE crossed
    /\ UNCHANGED <<config, notes, memory, dpc, work, bridge, spoilt, unread, linkFaults>>

Running == {l \in Links : l \in bridge \/ proxy[l] # "down"}

Gone ==
    /\ dpc' = "down"
    /\ notes' = 0
    /\ active_links' = {}
    /\ config_cache' = NoConfigs
    /\ redis_configs' = NoConfigs
    /\ toStop' = {} /\ toStart' = {} /\ toCheck' = {}
    /\ link' = None
    /\ restarting' = FALSE

\* Killed; or an exception in listen, or a signal, after which stop() takes down the links that
\* are known, but not the one that is being started.
Killed ==
    /\ dpc # "down"
    /\ Fault
    /\ Gone
    /\ spoilt' = spoilt \cup Running
    /\ UNCHANGED <<config, units, crossed, unread>>

Stopped ==
    /\ dpc # "down"
    /\ Fault
    /\ Gone
    /\ bridge' = bridge \ active_links
    /\ proxy' = [l \in Links |-> IF l \in active_links THEN "down" ELSE proxy[l]]
    /\ spoilt' = (spoilt \cup Running) \ active_links
    /\ UNCHANGED <<config, crossed, unread>>

\* Restart=always: _load_initial_config
Restart ==
    /\ dpc = "down"
    /\ dpc' = "check"
    /\ UNCHANGED <<config, notes, memory, work, units, lhist, linkFaults>>
-----------------------------------------------------------------------------
Dce ==
    \/ TakeNote \/ CheckDisabled \/ CheckEnabled
    \/ ReadAll \/ ReadUntilBad \/ ReadRaises
    \/ \E l \in Links : VisitStop(l) \/ VisitStart(l) \/ VisitChanged(l) \/ VisitUnchanged(l)
    \/ SyncDone
    \/ StopProxy \/ StopBridge \/ StartBridge \/ StartBridgeFails
    \/ StartProxy \/ StartProxyFails
    \/ Restart

Next ==
    \/ Change
    \/ Dce
    \/ \E l \in Links : ProxyReads(l)
    \/ Killed \/ Stopped

Spec == Init /\ [][Next]_linkVars

\* The service is restarted by systemd and goes on, calls of systemctl end after thirty seconds,
\* and a proxy looks for its row every three seconds.
LinksFairness == WF_linkVars(Dce) /\ \A l \in Links : WF_linkVars(ProxyReads(l))

FairSpec == Spec /\ LinksFairness
-----------------------------------------------------------------------------
\* The type of the state.
TypeOK ==
    /\ rows \in [Links -> Bauds \cup {None, Bad}]
    /\ enabled \in BOOLEAN
    /\ notes \in Nat
    /\ active_links \in SUBSET Links
    /\ config_cache \in [Links -> Bauds \cup {None}]
    /\ redis_configs \in [Links -> Bauds \cup {None}]
    /\ dpc \in {"idle", "check", "read", "stop", "stop proxy", "stop bridge", "start bridge",
                "start proxy", "down"}
    /\ {toStop, toStart, toCheck} \subseteq SUBSET Links
    /\ link \in Links \cup {None}
    /\ restarting \in BOOLEAN
    /\ bridge \in SUBSET Links
    /\ proxy \in [Links -> Bauds \cup {"down", "waiting"}]
    /\ spoilt \in SUBSET Links
    /\ crossed \in SUBSET Links
    /\ unread \in BOOLEAN
    /\ rowChanges \in Nat
    /\ linkFaults \in Nat

Wanted(l) == enabled /\ rows[l] \in Bauds

\* Between two notifications, the links that run are those the rows ask for, each with the baud
\* rate of its row, however the rows change while the service works.  The exceptions: a reading
\* that failed (998, 1012), a link a call of systemctl failed for (1051 takes a failed restart
\* for done) or an earlier service left running (968, 1040), and a proxy that read its row
\* between two changes the service saw as none (638 and 1049).
LinksFollowRows ==
    (dpc = "idle" /\ notes = 0 /\ ~unread) =>
        \A l \in Links \ spoilt :
            IF Wanted(l)
            THEN /\ l \in active_links /\ l \in bridge
                 /\ proxy[l] \in {"waiting", rows[l]} \/ l \in crossed
            ELSE l \notin active_links /\ l \notin Running

\* A proxy never runs without its bridge, but for failed calls and for what an earlier service
\* left: "Start: pty-bridge first, then proxy; Stop: proxy first, then pty-bridge" (906-907).
ProxyHasBridge == \A l \in Links \ spoilt : proxy[l] # "down" => l \in bridge

\* When the rows change no more, every link they ask for comes up with its baud rate in the end,
\* with the same exceptions.
LinksComeUp ==
    <>[](unread \/ \A l \in Links : Wanted(l) => proxy[l] = rows[l] \/ l \in spoilt \cup crossed)
=============================================================================
