---------------------------- MODULE ConsoleProofs ----------------------------
(***************************************************************************)
(* Theorems about console-monitor. For any links, baud rates and any       *)
(* number of changes and failures the DCE service's proxies have their     *)
(* bridges, and the links that run between two notifications are those of  *)
(* the rows; for any timeout and any number of changes, losses and         *)
(* failures the row of a line tells what was heard; for any heartbeats,    *)
(* any size of the buffer and any number of characters, frames and         *)
(* disturbances the filter hears what is sent and keeps the two streams    *)
(* of a line apart.                                                        *)
(***************************************************************************)
EXTENDS MCConsoleLinks, FiniteSetTheorems, SequenceTheorems, TLAPS
-----------------------------------------------------------------------------
(* The DCE service.                                                        *)

\* The rows as the service has to see them.
Target(l) == IF enabled THEN rows[l] ELSE None

Working == {"stop proxy", "stop bridge", "start bridge", "start proxy"}

Planned == {"stop"} \cup Working

\* What is left of the plan agrees with the links that are known; a link is visited once.
PlanInv ==
    /\ toStop \subseteq active_links
    /\ toStart \cap active_links = {}
    /\ toCheck \subseteq active_links
    /\ \A l \in toStop : redis_configs[l] = None
    /\ \A l \in toStart \cup toCheck : redis_configs[l] # None
    /\ \A l \in Links : config_cache[l] = None <=> l \notin active_links
    /\ dpc \notin Planned => toStop = {} /\ toStart = {} /\ toCheck = {}
    /\ dpc \notin Planned => redis_configs = NoConfigs

\* The link a loop works on, in _stop_link and _restart_link or in _start_link.
WorkInv ==
    dpc \in Working =>
        /\ link \in Links
        /\ link \notin toStop \cup toStart \cup toCheck
        /\ dpc \in {"stop proxy", "stop bridge"} => link \in active_links
        /\ dpc \in {"start bridge", "start proxy"} => (restarting <=> link \in active_links)
        /\ restarting \/ dpc \in {"start bridge", "start proxy"} <=> redis_configs[link] # None

\* A link nobody works on has both services if it is known and none if it is not, and its proxy
\* uses the remembered baud rate; the one that is worked on has what its step says.
Steady(l) ==
    /\ l \in active_links <=> l \in bridge
    /\ l \in active_links <=> proxy[l] # "down"
    /\ proxy[l] \in {"down", "waiting", config_cache[l]} \/ l \in crossed

UnitsInv ==
    \A l \in Links \ spoilt :
        CASE dpc = "stop bridge" /\ link = l  -> proxy[l] = "down"
          [] dpc = "start bridge" /\ link = l -> proxy[l] = "down" /\ l \notin bridge
          [] dpc = "start proxy" /\ link = l  -> proxy[l] = "down" /\ l \in bridge
          [] OTHER                            -> Steady(l)

Settled(l) ==
    /\ l \in active_links <=> Target(l) # None
    /\ config_cache[l] = Target(l)

\* If nothing has changed since the plan was made and the reading did not fail, the plan is
\* about the rows, and what it has been through is settled.
TargetInv ==
    notes = 0 =>
        /\ dpc = "read" => enabled
        /\ dpc \in Planned /\ ~unread => \A l \in Links : redis_configs[l] = Target(l)
        /\ dpc \in Planned /\ ~unread =>
              \A l \in Links \ (toStop \cup toStart \cup toCheck) :
                  Settled(l) \/ (dpc \in Working /\ link = l) \/ l \in spoilt
        /\ dpc = "idle" /\ ~unread => \A l \in Links \ spoilt : Settled(l)

LinksIInv == TypeOK /\ PlanInv /\ WorkInv /\ UnitsInv /\ TargetInv

(* A failure is counted. *)
LEMMA FaultCounts == ASSUME TypeOK, Fault PROVE linkFaults' \in Nat
<1>1. linkFaults \in Nat
  BY DEF TypeOK
<1>2. linkFaults' = linkFaults + 1
  BY Zenon DEF Fault
<1>3. QED
  BY <1>1, <1>2

(* What _restart_link and _start_link leave in the memory when they end. *)
LEMMA RememberWrites ==
  ASSUME TypeOK, NEW l \in Links, Remember(l)
  PROVE  /\ active_links' \in SUBSET Links
         /\ config_cache' \in [Links -> Bauds \cup {None}]
         /\ \A k \in Links : k \in active_links' <=> k \in active_links \/ k = l
         /\ \A k \in Links : config_cache'[k] = IF k = l THEN redis_configs[k]
                                                ELSE config_cache[k]
<1>1. config_cache \in [Links -> Bauds \cup {None}] /\ redis_configs[l] \in Bauds \cup {None}
  BY DEF TypeOK
<1>2. /\ active_links' = active_links \cup {l}
      /\ config_cache' = [config_cache EXCEPT ![l] = redis_configs[l]]
  BY DEF Remember
<1>3. QED
  BY <1>2 DEF TypeOK

(* What _stop_link leaves in the memory. *)
LEMMA ForgetWrites ==
  ASSUME TypeOK, NEW l \in Links, Forget(l)
  PROVE  /\ active_links' \in SUBSET Links
         /\ config_cache' \in [Links -> Bauds \cup {None}]
         /\ \A k \in Links : k \in active_links' <=> k \in active_links /\ k # l
         /\ \A k \in Links : config_cache'[k] = IF k = l THEN None ELSE config_cache[k]
<1>1. config_cache \in [Links -> Bauds \cup {None}]
  BY DEF TypeOK
<1>2. /\ active_links' = active_links \ {l}
      /\ config_cache' = [config_cache EXCEPT ![l] = None]
  BY DEF Forget
<1>3. QED
  BY <1>2 DEF TypeOK

(* A link that is given up is remembered if it was known, as any that is restarted. *)
LEMMA GiveUpWrites ==
  ASSUME TypeOK, link \in Links, GiveUp
  PROVE  /\ dpc' = "stop"
         /\ active_links' \in SUBSET Links
         /\ config_cache' \in [Links -> Bauds \cup {None}]
         /\ \A k \in Links : k \in active_links'
                                        <=> k \in active_links \/ (restarting /\ k = link)
         /\ \A k \in Links : config_cache'[k] = IF restarting /\ k = link THEN redis_configs[k]
                                                ELSE config_cache[k]
<1>1. CASE restarting
  BY <1>1, RememberWrites DEF GiveUp
<1>2. CASE ~restarting
  BY <1>2 DEF GiveUp, memory, TypeOK
<1>3. QED
  BY <1>1, <1>2

(* What stopping the proxy does to the link that is worked on, and only to it. *)
LEMMA StopProxyWrites ==
  ASSUME TypeOK, WorkInv, StopProxy
  PROVE  /\ link \in Links
         /\ proxy' \in [Links -> Bauds \cup {"down", "waiting"}]
         /\ spoilt' \in SUBSET Links
         /\ linkFaults' \in Nat
         /\ \A k \in Links \ {link} : proxy'[k] = proxy[k] /\ (k \in spoilt' <=> k \in spoilt)
         /\ link \notin spoilt' => proxy'[link] = "down"
<1>1. link \in Links
  BY DEF StopProxy, WorkInv, Working
<1>2. /\ Down(link) \in [Links -> Bauds \cup {"down", "waiting"}]
      /\ \A k \in Links \ {link} : Down(link)[k] = proxy[k]
      /\ Down(link)[link] = "down"
  BY <1>1 DEF Down, TypeOK
<1>3. CASE proxy' = Down(link) /\ UNCHANGED <<spoilt, linkFaults>>
  BY <1>1, <1>2, <1>3 DEF TypeOK
<1>4. CASE proxy' \in {proxy, Down(link)} /\ spoilt' = spoilt \cup {link} /\ Fault
  BY <1>1, <1>2, <1>4, FaultCounts DEF TypeOK
<1>5. QED
  BY <1>3, <1>4 DEF StopProxy

(* What stopping the bridge does: the link has none, unless the call failed. *)
LEMMA StopBridgeWrites ==
  ASSUME TypeOK, WorkInv, StopBridge
  PROVE  /\ link \in Links
         /\ bridge' \in SUBSET Links
         /\ spoilt' \in SUBSET Links
         /\ crossed' \in SUBSET Links
         /\ linkFaults' \in Nat
         /\ \A k \in Links \ {link} : /\ k \in bridge' <=> k \in bridge
                                      /\ k \in spoilt' <=> k \in spoilt
                                      /\ k \in crossed' <=> k \in crossed
         /\ link \notin spoilt' => /\ link \notin bridge'
                                   /\ link \in spoilt => proxy[link] = "down"
<1>1. link \in Links
  BY DEF StopBridge, WorkInv, Working
<1>2. CASE bridge' = bridge \ {link} /\ spoilt' = Recovered /\ UNCHANGED linkFaults
  BY <1>1, <1>2 DEF TypeOK, Recovered, StopBridge
<1>3. CASE bridge' \in {bridge, bridge \ {link}} /\ spoilt' = spoilt \cup {link} /\ Fault
  BY <1>1, <1>3, FaultCounts DEF TypeOK, StopBridge
<1>4. QED
  BY <1>2, <1>3 DEF StopBridge

(* A bridge that does not start spoils its link only. *)
LEMMA StartBridgeFailsWrites ==
  ASSUME TypeOK, WorkInv, StartBridgeFails
  PROVE  /\ link \in Links
         /\ bridge' \in SUBSET Links
         /\ spoilt' \in SUBSET Links
         /\ linkFaults' \in Nat
         /\ \A k \in Links \ {link} : /\ k \in bridge' <=> k \in bridge
                                      /\ k \in spoilt' <=> k \in spoilt
         /\ link \in spoilt'
<1>1. link \in Links
  BY DEF StartBridgeFails, WorkInv, Working
<1>2. QED
  BY <1>1, FaultCounts DEF TypeOK, StartBridgeFails

(* What starting the proxy does, or failing to, at the end of a visit. *)
LEMMA StartProxyWrites ==
  ASSUME TypeOK, WorkInv, StartProxy \/ StartProxyFails
  PROVE  /\ link \in Links
         /\ proxy' \in [Links -> Bauds \cup {"down", "waiting"}]
         /\ bridge' \in SUBSET Links
         /\ spoilt' \in SUBSET Links
         /\ linkFaults' \in Nat
         /\ \A k \in Links \ {link} : /\ proxy'[k] = proxy[k]
                                      /\ k \in bridge' <=> k \in bridge
                                      /\ k \in spoilt' <=> k \in spoilt
         /\ StartProxyFails => link \in spoilt'
<1>1. link \in Links
  BY DEF StartProxy, StartProxyFails, WorkInv, Working
<1>2. /\ Started(link) \in [Links -> Bauds \cup {"down", "waiting"}]
      /\ \A k \in Links \ {link} : Started(link)[k] = proxy[k]
  BY DEF Started, TypeOK
<1>3. CASE StartProxy
  <2>1. proxy' = Started(link) /\ UNCHANGED <<bridge, spoilt, linkFaults>>
    BY <1>3 DEF StartProxy, lhist
  <2>2. QED
    BY <1>1, <1>2, <2>1 DEF TypeOK, StartProxyFails
<1>4. CASE StartProxyFails
  BY <1>1, <1>2, <1>4, FaultCounts DEF TypeOK, StartProxyFails
<1>5. QED
  BY <1>3, <1>4

(* One step keeps the types. *)
LEMMA LinksTypeStep == LinksIInv /\ [Next]_linkVars => TypeOK'
<1>1. SUFFICES ASSUME LinksIInv, [Next]_linkVars PROVE TypeOK'
  OBVIOUS
<1>2. CASE Change
  <2>1. rows' \in [Links -> Bauds \cup {None, Bad}] /\ enabled' \in BOOLEAN
    BY <1>1, <1>2 DEF Change, LinksIInv, TypeOK
  <2>2. notes' \in Nat /\ rowChanges' \in Nat
    <3>1. notes \in Nat /\ rowChanges \in Nat
      BY <1>1 DEF LinksIInv, TypeOK
    <3>2. notes' \in {0, notes + 1} /\ rowChanges' = rowChanges + 1
      BY <1>2, Zenon DEF Change
    <3>3. QED
      BY <3>1, <3>2
  <2>3. QED
    BY <1>1, <1>2, <2>1, <2>2 DEF Change, LinksIInv, TypeOK, memory, work, units, lhist
<1>3. CASE TakeNote
  BY <1>1, <1>3 DEF TakeNote, config, LinksIInv, TypeOK, memory, work, units, lhist
<1>4. CASE CheckDisabled
  <2>1. unread' \in BOOLEAN /\ linkFaults' \in Nat
    BY <1>1, <1>4, FaultCounts DEF CheckDisabled, LinksIInv, TypeOK
  <2>2. QED
    BY <1>1, <1>4, <2>1 DEF CheckDisabled, LinksIInv, TypeOK, config, memory, units
<1>5. CASE CheckEnabled
  BY <1>1, <1>5 DEF CheckEnabled, config, LinksIInv, TypeOK, memory, work, units, lhist
<1>6. CASE ReadAll
  BY <1>1, <1>6, LinksAssumption
  DEF ReadAll, config, Plan, LinksIInv, TypeOK, WorkInv, Working, NoConfigs, memory, work, units,
      lhist
<1>7. CASE ReadUntilBad
  BY <1>1, <1>7 DEF ReadUntilBad, config, Plan, LinksIInv, TypeOK, memory, units
<1>8. CASE ReadRaises
  BY <1>1, <1>8 DEF ReadRaises, config, Plan, Fault, LinksIInv, TypeOK, NoConfigs, memory, units
<1>9. ASSUME NEW k \in Links, VisitStop(k) PROVE TypeOK'
  BY <1>1, <1>9 DEF VisitStop, Visit, config, LinksIInv, TypeOK, memory, units, lhist
<1>10. ASSUME NEW k \in Links, VisitStart(k) PROVE TypeOK'
  BY <1>1, <1>10 DEF VisitStart, Visit, config, LinksIInv, TypeOK, memory, units, lhist
<1>11. ASSUME NEW k \in Links, VisitChanged(k) PROVE TypeOK'
  BY <1>1, <1>11 DEF VisitChanged, Visit, config, LinksIInv, TypeOK, memory, units, lhist
<1>12. ASSUME NEW k \in Links, VisitUnchanged(k) PROVE TypeOK'
  BY <1>1, <1>12 DEF VisitUnchanged, config, LinksIInv, TypeOK, memory, units, lhist
<1>13. CASE SyncDone
  BY <1>1, <1>13 DEF SyncDone, config, LinksIInv, TypeOK, NoConfigs, memory, units, lhist
<1>14. CASE StopProxy
  <2>1. TypeOK /\ WorkInv /\ link \in Links
    BY <1>1, <1>14, StopProxyWrites DEF LinksIInv
  <2>2. UNCHANGED <<rows, enabled, rowChanges, notes, active_links, config_cache, redis_configs,
                    toStop, toStart, toCheck, link, restarting, bridge, crossed, unread>>
    BY <1>14 DEF StopProxy, config, work, memory
  <2>3. UNCHANGED <<active_links, config_cache>> /\ dpc = "stop proxy" /\ dpc' = "stop bridge"
    BY <1>14 DEF StopProxy, memory
  <2>4. QED
    BY <1>14, <2>1, <2>2, <2>3, StopProxyWrites DEF TypeOK
<1>15. CASE StopBridge
  <2>1. TypeOK /\ WorkInv /\ link \in Links
    BY <1>1, <1>15, StopBridgeWrites DEF LinksIInv
  <2>2. UNCHANGED <<rows, enabled, rowChanges, notes, redis_configs, toStop, toStart, toCheck,
                    link, restarting, proxy, unread>>
    BY <1>15 DEF StopBridge, config, work
  <2>3. /\ dpc = "stop bridge"
        /\ dpc' = IF restarting THEN "start bridge" ELSE "stop"
        /\ active_links' \in SUBSET Links
        /\ config_cache' \in [Links -> Bauds \cup {None}]
        /\ \A j \in Links : j \in active_links'
                                       <=> j \in active_links /\ (restarting \/ j # link)
        /\ \A j \in Links : config_cache'[j] = IF ~restarting /\ j = link THEN None
                                               ELSE config_cache[j]
    <3>1. CASE restarting
      BY <1>1, <1>15, <3>1 DEF StopBridge, memory, LinksIInv, TypeOK
    <3>2. CASE ~restarting
      BY <1>15, <2>1, <3>2, ForgetWrites DEF StopBridge
    <3>3. QED
      BY <3>1, <3>2
  <2>4. QED
    BY <1>15, <2>1, <2>2, <2>3, StopBridgeWrites DEF TypeOK
<1>16. CASE StartBridge
  BY <1>1, <1>16 DEF StartBridge, config, LinksIInv, TypeOK, WorkInv, Working, memory, work, lhist
<1>17. CASE StartBridgeFails
  <2>1. TypeOK /\ WorkInv /\ link \in Links
    BY <1>1, <1>17, StartBridgeFailsWrites DEF LinksIInv
  <2>2. UNCHANGED <<rows, enabled, rowChanges, notes, redis_configs, toStop, toStart, toCheck,
                    link, restarting, proxy, crossed, unread>>
    BY <1>17 DEF StartBridgeFails, config, work
  <2>3. /\ dpc = "start bridge" /\ dpc' = "stop"
        /\ active_links' \in SUBSET Links
        /\ config_cache' \in [Links -> Bauds \cup {None}]
        /\ \A j \in Links : j \in active_links'
                                       <=> j \in active_links \/ (restarting /\ j = link)
        /\ \A j \in Links : config_cache'[j] = IF restarting /\ j = link THEN redis_configs[j]
                                               ELSE config_cache[j]
    BY <1>17, <2>1, GiveUpWrites DEF StartBridgeFails
  <2>4. QED
    BY <1>17, <2>1, <2>2, <2>3, StartBridgeFailsWrites DEF TypeOK
<1>18. CASE StartProxy
  <2>1. TypeOK /\ WorkInv /\ link \in Links
    BY <1>1, <1>18, StartProxyWrites DEF LinksIInv
  <2>2. UNCHANGED <<rows, enabled, rowChanges, notes, redis_configs, toStop, toStart, toCheck,
                    link, restarting, bridge, spoilt, crossed, unread, linkFaults>>
    BY <1>18 DEF StartProxy, config, work, lhist
  <2>3. /\ dpc = "start proxy" /\ dpc' = "stop"
        /\ active_links' \in SUBSET Links
        /\ config_cache' \in [Links -> Bauds \cup {None}]
        /\ \A j \in Links : j \in active_links' <=> j \in active_links \/ j = link
        /\ \A j \in Links : config_cache'[j] = IF j = link THEN redis_configs[j]
                                               ELSE config_cache[j]
    BY <1>18, <2>1, RememberWrites DEF StartProxy
  <2>4. QED
    BY <1>18, <2>1, <2>2, <2>3, StartProxyWrites DEF TypeOK
<1>19. CASE StartProxyFails
  <2>1. TypeOK /\ WorkInv /\ link \in Links
    BY <1>1, <1>19, StartProxyWrites DEF LinksIInv
  <2>2. UNCHANGED <<rows, enabled, rowChanges, notes, redis_configs, toStop, toStart, toCheck,
                    link, restarting, crossed, unread>>
    BY <1>19 DEF StartProxyFails, config, work
  <2>3. /\ dpc = "start proxy" /\ dpc' = "stop"
        /\ active_links' \in SUBSET Links
        /\ config_cache' \in [Links -> Bauds \cup {None}]
        /\ \A j \in Links : j \in active_links'
                                       <=> j \in active_links \/ (restarting /\ j = link)
        /\ \A j \in Links : config_cache'[j] = IF restarting /\ j = link THEN redis_configs[j]
                                               ELSE config_cache[j]
    BY <1>19, <2>1, GiveUpWrites DEF StartProxyFails
  <2>4. QED
    BY <1>19, <2>1, <2>2, <2>3, StartProxyWrites DEF TypeOK
<1>20. CASE Restart
  BY <1>1, <1>20 DEF Restart, config, LinksIInv, TypeOK, memory, work, units, lhist
<1>21. ASSUME NEW k \in Links, ProxyReads(k) PROVE TypeOK'
  BY <1>1, <1>21 DEF ProxyReads, config, LinksIInv, TypeOK, memory, work
<1>22. CASE Killed
  <2>1. linkFaults' \in Nat
    BY <1>1, <1>22, FaultCounts DEF Killed, LinksIInv
  <2>2. /\ dpc' = "down" /\ notes' = 0 /\ active_links' = {} /\ link' = None
        /\ restarting' = FALSE
        /\ config_cache' = NoConfigs /\ redis_configs' = NoConfigs
        /\ toStop' = {} /\ toStart' = {} /\ toCheck' = {}
    BY <1>22, Zenon DEF Killed, Gone
  <2>3. NoConfigs \in [Links -> Bauds \cup {None}]
    BY DEF NoConfigs
  <2>4. /\ bridge' \in SUBSET Links
        /\ proxy' \in [Links -> Bauds \cup {"down", "waiting"}]
        /\ spoilt' \in SUBSET Links
    BY <1>1, <1>22 DEF Killed, Running, LinksIInv, TypeOK, units
  <2>5. UNCHANGED <<rows, enabled, rowChanges, crossed, unread>>
    BY <1>22 DEF Killed, config
  <2>6. QED
    BY <1>1, <2>1, <2>2, <2>3, <2>4, <2>5 DEF LinksIInv, TypeOK
<1>23. CASE Stopped
  <2>1. linkFaults' \in Nat
    BY <1>1, <1>23, FaultCounts DEF Stopped, LinksIInv
  <2>2. /\ dpc' = "down" /\ notes' = 0 /\ active_links' = {} /\ link' = None
        /\ restarting' = FALSE
        /\ config_cache' = NoConfigs /\ redis_configs' = NoConfigs
        /\ toStop' = {} /\ toStart' = {} /\ toCheck' = {}
    BY <1>23, Zenon DEF Stopped, Gone
  <2>3. NoConfigs \in [Links -> Bauds \cup {None}]
    BY DEF NoConfigs
  <2>4. /\ bridge' \in SUBSET Links
        /\ proxy' \in [Links -> Bauds \cup {"down", "waiting"}]
        /\ spoilt' \in SUBSET Links
    BY <1>1, <1>23 DEF Stopped, Running, LinksIInv, TypeOK
  <2>5. UNCHANGED <<rows, enabled, rowChanges, crossed, unread>>
    BY <1>23 DEF Stopped, config
  <2>6. QED
    BY <1>1, <2>1, <2>2, <2>3, <2>4, <2>5 DEF LinksIInv, TypeOK
<1>24. CASE UNCHANGED linkVars
  BY <1>1, <1>24 DEF linkVars, config, LinksIInv, TypeOK, memory, work, units, lhist
<1>25. QED
  BY <1>1, <1>2, <1>3, <1>4, <1>5, <1>6, <1>7, <1>8, <1>9, <1>10, <1>11, <1>12, <1>13, <1>14,
     <1>15, <1>16, <1>17, <1>18, <1>19, <1>20, <1>21, <1>22, <1>23, <1>24
  DEF Next, Dce

(* The plan shrinks by the links that are visited, and only their entries change. *)
LEMMA PlanStep == LinksIInv /\ [Next]_linkVars => PlanInv'
<1>1. SUFFICES ASSUME LinksIInv, [Next]_linkVars PROVE PlanInv'
  OBVIOUS
<1>2. CASE Change
  BY <1>1, <1>2 DEF Change, LinksIInv, PlanInv, memory, work
<1>3. CASE TakeNote
  BY <1>1, <1>3 DEF TakeNote, LinksIInv, Working, Planned, PlanInv, memory, work
<1>4. CASE CheckDisabled
  BY <1>1, <1>4 DEF CheckDisabled, LinksIInv, TypeOK, Working, Planned, PlanInv, NoConfigs, memory
<1>5. CASE CheckEnabled
  BY <1>1, <1>5 DEF CheckEnabled, LinksIInv, Working, Planned, PlanInv, memory, work
<1>6. CASE ReadAll
  BY <1>1, <1>6 DEF ReadAll, Plan, LinksIInv, TypeOK, Planned, PlanInv, memory
<1>7. CASE ReadUntilBad
  BY <1>1, <1>7 DEF ReadUntilBad, Plan, LinksIInv, TypeOK, Planned, PlanInv, memory
<1>8. CASE ReadRaises
  BY <1>1, <1>8 DEF ReadRaises, Plan, LinksIInv, TypeOK, Planned, PlanInv, memory
<1>9. ASSUME NEW k \in Links, VisitStop(k) PROVE PlanInv'
  BY <1>1, <1>9 DEF VisitStop, Visit, LinksIInv, Working, Planned, PlanInv, memory
<1>10. ASSUME NEW k \in Links, VisitStart(k) PROVE PlanInv'
  BY <1>1, <1>10 DEF VisitStart, Visit, LinksIInv, Working, Planned, PlanInv, memory
<1>11. ASSUME NEW k \in Links, VisitChanged(k) PROVE PlanInv'
  BY <1>1, <1>11 DEF VisitChanged, Visit, LinksIInv, Working, Planned, PlanInv, memory
<1>12. ASSUME NEW k \in Links, VisitUnchanged(k) PROVE PlanInv'
  BY <1>1, <1>12 DEF VisitUnchanged, LinksIInv, PlanInv, memory
<1>13. CASE SyncDone
  BY <1>1, <1>13 DEF SyncDone, LinksIInv, PlanInv, memory
<1>14. CASE StopProxy
  BY <1>1, <1>14 DEF StopProxy, LinksIInv, Working, Planned, PlanInv, memory, work
<1>15. CASE StopBridge
  <2>1. TypeOK /\ WorkInv /\ link \in Links
    BY <1>1, <1>15, StopBridgeWrites DEF LinksIInv
  <2>2. UNCHANGED <<rows, enabled, rowChanges, notes, redis_configs, toStop, toStart, toCheck,
                    link, restarting, proxy, unread>>
    BY <1>15 DEF StopBridge, config, work
  <2>3. /\ dpc = "stop bridge"
        /\ dpc' = IF restarting THEN "start bridge" ELSE "stop"
        /\ active_links' \in SUBSET Links
        /\ config_cache' \in [Links -> Bauds \cup {None}]
        /\ \A j \in Links : j \in active_links'
                                       <=> j \in active_links /\ (restarting \/ j # link)
        /\ \A j \in Links : config_cache'[j] = IF ~restarting /\ j = link THEN None
                                               ELSE config_cache[j]
    <3>1. CASE restarting
      BY <1>1, <1>15, <3>1 DEF StopBridge, memory, LinksIInv, TypeOK
    <3>2. CASE ~restarting
      BY <1>15, <2>1, <3>2, ForgetWrites DEF StopBridge
    <3>3. QED
      BY <3>1, <3>2
  <2>4. redis_configs[link] # None \/ (~restarting /\ dpc = "stop bridge")
    <3>1. CASE dpc = "stop bridge"
      BY <1>1, <3>1 DEF LinksIInv, WorkInv, Working
    <3>2. CASE dpc # "stop bridge"
      <4>1. dpc \in {"start bridge", "start proxy"} /\ dpc \in Working
        BY <2>3, <3>2
      <4>2. QED
        BY <1>1, <4>1 DEF LinksIInv, WorkInv
    <3>3. QED
      BY <3>1, <3>2
  <2>5. toStop' \subseteq active_links' /\ toCheck' \subseteq active_links'
    BY <1>1, <2>2, <2>3 DEF LinksIInv, PlanInv, TypeOK, WorkInv, Working
  <2>6. toStart' \cap active_links' = {}
    BY <1>1, <2>2, <2>3 DEF LinksIInv, PlanInv
  <2>7. \A l \in Links : config_cache'[l] = None <=> l \notin active_links'
    BY <1>1, <2>3 DEF LinksIInv, PlanInv
  <2>8. dpc \in Planned /\ dpc' \in Planned
    BY <2>3 DEF Planned, Working
  <2>9. QED
    BY <1>1, <2>2, <2>5, <2>6, <2>7, <2>8 DEF LinksIInv, PlanInv
<1>16. CASE StartBridge
  BY <1>1, <1>16 DEF StartBridge, LinksIInv, Working, Planned, PlanInv, memory, work
<1>17. CASE StartBridgeFails
  <2>1. TypeOK /\ WorkInv /\ link \in Links
    BY <1>1, <1>17, StartBridgeFailsWrites DEF LinksIInv
  <2>2. UNCHANGED <<rows, enabled, rowChanges, notes, redis_configs, toStop, toStart, toCheck,
                    link, restarting, proxy, crossed, unread>>
    BY <1>17 DEF StartBridgeFails, config, work
  <2>3. /\ dpc = "start bridge" /\ dpc' = "stop"
        /\ active_links' \in SUBSET Links
        /\ config_cache' \in [Links -> Bauds \cup {None}]
        /\ \A j \in Links : j \in active_links'
                                       <=> j \in active_links \/ (restarting /\ j = link)
        /\ \A j \in Links : config_cache'[j] = IF restarting /\ j = link THEN redis_configs[j]
                                               ELSE config_cache[j]
    BY <1>17, <2>1, GiveUpWrites DEF StartBridgeFails
  <2>4. redis_configs[link] # None \/ (~restarting /\ dpc = "stop bridge")
    <3>1. CASE dpc = "stop bridge"
      BY <1>1, <3>1 DEF LinksIInv, WorkInv, Working
    <3>2. CASE dpc # "stop bridge"
      <4>1. dpc \in {"start bridge", "start proxy"} /\ dpc \in Working
        BY <2>3 DEF Working
      <4>2. QED
        BY <1>1, <4>1 DEF LinksIInv, WorkInv
    <3>3. QED
      BY <3>1, <3>2
  <2>5. toStop' \subseteq active_links' /\ toCheck' \subseteq active_links'
    BY <1>1, <2>2, <2>3 DEF LinksIInv, PlanInv, TypeOK
  <2>6. toStart' \cap active_links' = {}
    BY <1>1, <2>2, <2>3 DEF LinksIInv, PlanInv, WorkInv, Working
  <2>7. \A l \in Links : config_cache'[l] = None <=> l \notin active_links'
    BY <1>1, <2>3, <2>4 DEF LinksIInv, PlanInv
  <2>8. dpc \in Planned /\ dpc' \in Planned
    BY <2>3 DEF Planned, Working
  <2>9. QED
    BY <1>1, <2>2, <2>5, <2>6, <2>7, <2>8 DEF LinksIInv, PlanInv
<1>18. CASE StartProxy
  <2>1. TypeOK /\ WorkInv /\ link \in Links
    BY <1>1, <1>18, StartProxyWrites DEF LinksIInv
  <2>2. UNCHANGED <<rows, enabled, rowChanges, notes, redis_configs, toStop, toStart, toCheck,
                    link, restarting, bridge, spoilt, crossed, unread, linkFaults>>
    BY <1>18 DEF StartProxy, config, work, lhist
  <2>3. /\ dpc = "start proxy" /\ dpc' = "stop"
        /\ active_links' \in SUBSET Links
        /\ config_cache' \in [Links -> Bauds \cup {None}]
        /\ \A j \in Links : j \in active_links' <=> j \in active_links \/ j = link
        /\ \A j \in Links : config_cache'[j] = IF j = link THEN redis_configs[j]
                                               ELSE config_cache[j]
    BY <1>18, <2>1, RememberWrites DEF StartProxy
  <2>4. redis_configs[link] # None \/ (~restarting /\ dpc = "stop bridge")
    <3>1. CASE dpc = "stop bridge"
      BY <1>1, <3>1 DEF LinksIInv, WorkInv, Working
    <3>2. CASE dpc # "stop bridge"
      <4>1. dpc \in {"start bridge", "start proxy"} /\ dpc \in Working
        BY <2>3 DEF Working
      <4>2. QED
        BY <1>1, <4>1 DEF LinksIInv, WorkInv
    <3>3. QED
      BY <3>1, <3>2
  <2>5. toStop' \subseteq active_links' /\ toCheck' \subseteq active_links'
    BY <1>1, <2>2, <2>3 DEF LinksIInv, PlanInv, TypeOK
  <2>6. toStart' \cap active_links' = {}
    BY <1>1, <2>2, <2>3 DEF LinksIInv, PlanInv, WorkInv, Working
  <2>7. \A l \in Links : config_cache'[l] = None <=> l \notin active_links'
    BY <1>1, <2>3, <2>4 DEF LinksIInv, PlanInv
  <2>8. dpc \in Planned /\ dpc' \in Planned
    BY <2>3 DEF Planned, Working
  <2>9. QED
    BY <1>1, <2>2, <2>5, <2>6, <2>7, <2>8 DEF LinksIInv, PlanInv
<1>19. CASE StartProxyFails
  <2>1. TypeOK /\ WorkInv /\ link \in Links
    BY <1>1, <1>19, StartProxyWrites DEF LinksIInv
  <2>2. UNCHANGED <<rows, enabled, rowChanges, notes, redis_configs, toStop, toStart, toCheck,
                    link, restarting, crossed, unread>>
    BY <1>19 DEF StartProxyFails, config, work
  <2>3. /\ dpc = "start proxy" /\ dpc' = "stop"
        /\ active_links' \in SUBSET Links
        /\ config_cache' \in [Links -> Bauds \cup {None}]
        /\ \A j \in Links : j \in active_links'
                                       <=> j \in active_links \/ (restarting /\ j = link)
        /\ \A j \in Links : config_cache'[j] = IF restarting /\ j = link THEN redis_configs[j]
                                               ELSE config_cache[j]
    BY <1>19, <2>1, GiveUpWrites DEF StartProxyFails
  <2>4. redis_configs[link] # None \/ (~restarting /\ dpc = "stop bridge")
    <3>1. CASE dpc = "stop bridge"
      BY <1>1, <3>1 DEF LinksIInv, WorkInv, Working
    <3>2. CASE dpc # "stop bridge"
      <4>1. dpc \in {"start bridge", "start proxy"} /\ dpc \in Working
        BY <2>3 DEF Working
      <4>2. QED
        BY <1>1, <4>1 DEF LinksIInv, WorkInv
    <3>3. QED
      BY <3>1, <3>2
  <2>5. toStop' \subseteq active_links' /\ toCheck' \subseteq active_links'
    BY <1>1, <2>2, <2>3 DEF LinksIInv, PlanInv, TypeOK
  <2>6. toStart' \cap active_links' = {}
    BY <1>1, <2>2, <2>3 DEF LinksIInv, PlanInv, WorkInv, Working
  <2>7. \A l \in Links : config_cache'[l] = None <=> l \notin active_links'
    BY <1>1, <2>3, <2>4 DEF LinksIInv, PlanInv
  <2>8. dpc \in Planned /\ dpc' \in Planned
    BY <2>3 DEF Planned, Working
  <2>9. QED
    BY <1>1, <2>2, <2>5, <2>6, <2>7, <2>8 DEF LinksIInv, PlanInv
<1>20. CASE Restart
  BY <1>1, <1>20 DEF Restart, LinksIInv, Working, Planned, PlanInv, memory, work
<1>21. ASSUME NEW k \in Links, ProxyReads(k) PROVE PlanInv'
  BY <1>1, <1>21 DEF ProxyReads, LinksIInv, PlanInv, memory, work
<1>22. CASE Killed
  BY <1>22 DEF Killed, Gone, PlanInv, NoConfigs
<1>23. CASE Stopped
  BY <1>23 DEF Stopped, Gone, PlanInv, NoConfigs
<1>24. CASE UNCHANGED linkVars
  BY <1>1, <1>24 DEF linkVars, LinksIInv, PlanInv, memory, work
<1>25. QED
  BY <1>1, <1>2, <1>3, <1>4, <1>5, <1>6, <1>7, <1>8, <1>9, <1>10, <1>11, <1>12, <1>13, <1>14,
     <1>15, <1>16, <1>17, <1>18, <1>19, <1>20, <1>21, <1>22, <1>23, <1>24
  DEF Next, Dce

(* A visit keeps to its link. *)
LEMMA WorkStep == LinksIInv /\ [Next]_linkVars => WorkInv'
<1>1. SUFFICES ASSUME LinksIInv, [Next]_linkVars PROVE WorkInv'
  OBVIOUS
<1>2. CASE Change
  BY <1>1, <1>2 DEF Change, LinksIInv, WorkInv, memory, work
<1>3. CASE TakeNote
  BY <1>3 DEF TakeNote, WorkInv, Working
<1>4. CASE CheckDisabled
  BY <1>4 DEF CheckDisabled, WorkInv, Working
<1>5. CASE CheckEnabled
  BY <1>5 DEF CheckEnabled, WorkInv, Working
<1>6. CASE ReadAll
  BY <1>6 DEF ReadAll, Plan, WorkInv, Working
<1>7. CASE ReadUntilBad
  BY <1>7 DEF ReadUntilBad, Plan, WorkInv, Working
<1>8. CASE ReadRaises
  BY <1>8 DEF ReadRaises, Plan, WorkInv, Working
<1>9. ASSUME NEW k \in Links, VisitStop(k) PROVE WorkInv'
  BY <1>1, <1>9 DEF VisitStop, Visit, LinksIInv, WorkInv, PlanInv, memory
<1>10. ASSUME NEW k \in Links, VisitStart(k) PROVE WorkInv'
  BY <1>1, <1>10 DEF VisitStart, Visit, LinksIInv, WorkInv, PlanInv, memory
<1>11. ASSUME NEW k \in Links, VisitChanged(k) PROVE WorkInv'
  BY <1>1, <1>11 DEF VisitChanged, Visit, LinksIInv, WorkInv, PlanInv, memory
<1>12. ASSUME NEW k \in Links, VisitUnchanged(k) PROVE WorkInv'
  BY <1>1, <1>12 DEF VisitUnchanged, LinksIInv, WorkInv
<1>13. CASE SyncDone
  BY <1>13 DEF SyncDone, WorkInv, Working
<1>14. CASE StopProxy
  BY <1>1, <1>14 DEF StopProxy, LinksIInv, WorkInv, Working, memory, work
<1>15. CASE StopBridge
  BY <1>1, <1>15 DEF StopBridge, LinksIInv, WorkInv, Working, memory, work
<1>16. CASE StartBridge
  BY <1>1, <1>16 DEF StartBridge, LinksIInv, WorkInv, Working, memory, work
<1>17. CASE StartBridgeFails
  BY <1>17 DEF StartBridgeFails, GiveUp, WorkInv, Working
<1>18. CASE StartProxy
  BY <1>18 DEF StartProxy, WorkInv, Working
<1>19. CASE StartProxyFails
  BY <1>19 DEF StartProxyFails, GiveUp, WorkInv, Working
<1>20. CASE Restart
  BY <1>20 DEF Restart, WorkInv, Working
<1>21. ASSUME NEW k \in Links, ProxyReads(k) PROVE WorkInv'
  BY <1>1, <1>21 DEF ProxyReads, LinksIInv, WorkInv, memory, work
<1>22. CASE Killed
  BY <1>22 DEF Killed, Gone, WorkInv, Working
<1>23. CASE Stopped
  BY <1>23 DEF Stopped, Gone, WorkInv, Working
<1>24. CASE UNCHANGED linkVars
  BY <1>1, <1>24 DEF linkVars, LinksIInv, WorkInv, memory, work
<1>25. QED
  BY <1>1, <1>2, <1>3, <1>4, <1>5, <1>6, <1>7, <1>8, <1>9, <1>10, <1>11, <1>12, <1>13, <1>14,
     <1>15, <1>16, <1>17, <1>18, <1>19, <1>20, <1>21, <1>22, <1>23, <1>24
  DEF Next, Dce

(* A link's services are what the step on it left. *)
LEMMA UnitsStep == LinksIInv /\ [Next]_linkVars => UnitsInv'
<1>1. SUFFICES ASSUME LinksIInv, [Next]_linkVars PROVE UnitsInv'
  OBVIOUS
<1>2. CASE Change
  BY <1>1, <1>2
  DEF Change, LinksIInv, Working, Planned, PlanInv, UnitsInv, Steady, memory, work, units, lhist
<1>3. CASE TakeNote
  BY <1>1, <1>3 DEF TakeNote, LinksIInv, UnitsInv, Steady, memory, units, lhist
<1>4. CASE CheckDisabled
  BY <1>1, <1>4 DEF CheckDisabled, LinksIInv, UnitsInv, Steady, memory, units
<1>5. CASE CheckEnabled
  BY <1>1, <1>5 DEF CheckEnabled, LinksIInv, UnitsInv, Steady, memory, units, lhist
<1>6. CASE ReadAll
  BY <1>1, <1>6 DEF ReadAll, Plan, LinksIInv, UnitsInv, Steady, memory, units
<1>7. CASE ReadUntilBad
  BY <1>1, <1>7 DEF ReadUntilBad, Plan, LinksIInv, UnitsInv, Steady, memory, units
<1>8. CASE ReadRaises
  BY <1>1, <1>8 DEF ReadRaises, Plan, LinksIInv, UnitsInv, Steady, memory, units
<1>9. ASSUME NEW k \in Links, VisitStop(k) PROVE UnitsInv'
  BY <1>1, <1>9 DEF VisitStop, Visit, LinksIInv, UnitsInv, Steady, memory, units, lhist
<1>10. ASSUME NEW k \in Links, VisitStart(k) PROVE UnitsInv'
  <2>1. /\ dpc = "stop" /\ dpc' = "start bridge" /\ link' = k
        /\ UNCHANGED <<memory, units, lhist>>
    BY <1>10 DEF VisitStart, Visit
  <2>2. k \notin active_links
    BY <1>1, <1>10 DEF VisitStart, LinksIInv, PlanInv
  <2>3. \A l \in Links \ spoilt : Steady(l)
    BY <1>1, <2>1 DEF LinksIInv, UnitsInv
  <2>4. \A l \in Links : Steady(l) => Steady(l)'
    BY <2>1 DEF Steady, memory, units, lhist
  <2>5. k \notin spoilt => k \notin bridge /\ proxy[k] = "down"
    BY <2>2, <2>3 DEF Steady
  <2>6. QED
    BY <2>1, <2>3, <2>4, <2>5 DEF UnitsInv, units, lhist
<1>11. ASSUME NEW k \in Links, VisitChanged(k) PROVE UnitsInv'
  BY <1>1, <1>11 DEF VisitChanged, Visit, LinksIInv, UnitsInv, Steady, memory, units, lhist
<1>12. ASSUME NEW k \in Links, VisitUnchanged(k) PROVE UnitsInv'
  BY <1>1, <1>12 DEF VisitUnchanged, LinksIInv, UnitsInv, Steady, memory, units, lhist
<1>13. CASE SyncDone
  BY <1>1, <1>13 DEF SyncDone, LinksIInv, UnitsInv, Steady, memory, units, lhist
<1>14. CASE StopProxy
  <2>1. TypeOK /\ WorkInv /\ link \in Links
    BY <1>1, <1>14, StopProxyWrites DEF LinksIInv
  <2>2. UNCHANGED <<rows, enabled, rowChanges, notes, active_links, config_cache, redis_configs,
                    toStop, toStart, toCheck, link, restarting, bridge, crossed, unread>>
    BY <1>14 DEF StopProxy, config, work, memory
  <2>3. UNCHANGED <<active_links, config_cache>> /\ dpc = "stop proxy" /\ dpc' = "stop bridge"
    BY <1>14 DEF StopProxy, memory
  <2>4. ASSUME NEW l \in (Links \ spoilt') \ {link} PROVE Steady(l)'
    <3>1. l \in Links \ spoilt /\ Steady(l)
      BY <1>1, <1>14, StopProxyWrites DEF LinksIInv, UnitsInv
    <3>2. QED
      BY <1>14, <2>1, <2>2, StopProxyWrites, <3>1 DEF Steady
  <2>5. link \notin spoilt' =>
           CASE dpc' = "stop bridge"  -> proxy'[link] = "down"
             [] dpc' = "start bridge" -> proxy'[link] = "down" /\ link \notin bridge'
             [] dpc' = "start proxy"  -> proxy'[link] = "down" /\ link \in bridge'
             [] OTHER                 -> Steady(link)'
    BY <1>14, <2>1, <2>3, StopProxyWrites
  <2>6. QED
    BY <2>2, <2>4, <2>5 DEF UnitsInv
<1>15. CASE StopBridge
  <2>1. TypeOK /\ WorkInv /\ link \in Links
    BY <1>1, <1>15, StopBridgeWrites DEF LinksIInv
  <2>2. UNCHANGED <<rows, enabled, rowChanges, notes, redis_configs, toStop, toStart, toCheck,
                    link, restarting, proxy, unread>>
    BY <1>15 DEF StopBridge, config, work
  <2>3. /\ dpc = "stop bridge"
        /\ dpc' = IF restarting THEN "start bridge" ELSE "stop"
        /\ active_links' \in SUBSET Links
        /\ config_cache' \in [Links -> Bauds \cup {None}]
        /\ \A j \in Links : j \in active_links'
                                       <=> j \in active_links /\ (restarting \/ j # link)
        /\ \A j \in Links : config_cache'[j] = IF ~restarting /\ j = link THEN None
                                               ELSE config_cache[j]
    <3>1. CASE restarting
      BY <1>1, <1>15, <3>1 DEF StopBridge, memory, LinksIInv, TypeOK
    <3>2. CASE ~restarting
      BY <1>15, <2>1, <3>2, ForgetWrites DEF StopBridge
    <3>3. QED
      BY <3>1, <3>2
  <2>4. ASSUME NEW l \in (Links \ spoilt') \ {link} PROVE Steady(l)'
    <3>1. l \in Links \ spoilt /\ Steady(l)
      BY <1>1, <1>15, StopBridgeWrites DEF LinksIInv, UnitsInv
    <3>2. QED
      BY <1>15, <2>1, <2>2, <2>3, StopBridgeWrites, <3>1 DEF Steady
  <2>5. link \notin spoilt' =>
           CASE dpc' = "stop bridge"  -> proxy'[link] = "down"
             [] dpc' = "start bridge" -> proxy'[link] = "down" /\ link \notin bridge'
             [] dpc' = "start proxy"  -> proxy'[link] = "down" /\ link \in bridge'
             [] OTHER                 -> Steady(link)'
    BY <1>1, <1>15, <2>2, <2>3, StopBridgeWrites DEF LinksIInv, UnitsInv, Steady
  <2>6. QED
    BY <2>2, <2>4, <2>5 DEF UnitsInv
<1>16. CASE StartBridge
  BY <1>1, <1>16 DEF StartBridge, LinksIInv, UnitsInv, Steady, memory, work, lhist
<1>17. CASE StartBridgeFails
  <2>1. TypeOK /\ WorkInv /\ link \in Links
    BY <1>1, <1>17, StartBridgeFailsWrites DEF LinksIInv
  <2>2. UNCHANGED <<rows, enabled, rowChanges, notes, redis_configs, toStop, toStart, toCheck,
                    link, restarting, proxy, crossed, unread>>
    BY <1>17 DEF StartBridgeFails, config, work
  <2>3. /\ dpc = "start bridge" /\ dpc' = "stop"
        /\ active_links' \in SUBSET Links
        /\ config_cache' \in [Links -> Bauds \cup {None}]
        /\ \A j \in Links : j \in active_links'
                                       <=> j \in active_links \/ (restarting /\ j = link)
        /\ \A j \in Links : config_cache'[j] = IF restarting /\ j = link THEN redis_configs[j]
                                               ELSE config_cache[j]
    BY <1>17, <2>1, GiveUpWrites DEF StartBridgeFails
  <2>4. ASSUME NEW l \in (Links \ spoilt') \ {link} PROVE Steady(l)'
    <3>1. l \in Links \ spoilt /\ Steady(l)
      BY <1>1, <1>17, StartBridgeFailsWrites DEF LinksIInv, UnitsInv
    <3>2. QED
      BY <1>17, <2>1, <2>2, <2>3, StartBridgeFailsWrites, <3>1 DEF Steady
  <2>5. link \notin spoilt' =>
           CASE dpc' = "stop bridge"  -> proxy'[link] = "down"
             [] dpc' = "start bridge" -> proxy'[link] = "down" /\ link \notin bridge'
             [] dpc' = "start proxy"  -> proxy'[link] = "down" /\ link \in bridge'
             [] OTHER                 -> Steady(link)'
    BY <1>17, <2>1, StartBridgeFailsWrites
  <2>6. QED
    BY <2>2, <2>4, <2>5 DEF UnitsInv
<1>18. CASE StartProxy
  BY <1>1, <1>18 DEF StartProxy, Started, Remember, LinksIInv, TypeOK, UnitsInv, Steady, lhist
<1>19. CASE StartProxyFails
  <2>1. TypeOK /\ WorkInv /\ link \in Links
    BY <1>1, <1>19, StartProxyWrites DEF LinksIInv
  <2>2. UNCHANGED <<rows, enabled, rowChanges, notes, redis_configs, toStop, toStart, toCheck,
                    link, restarting, crossed, unread>>
    BY <1>19 DEF StartProxyFails, config, work
  <2>3. /\ dpc = "start proxy" /\ dpc' = "stop"
        /\ active_links' \in SUBSET Links
        /\ config_cache' \in [Links -> Bauds \cup {None}]
        /\ \A j \in Links : j \in active_links'
                                       <=> j \in active_links \/ (restarting /\ j = link)
        /\ \A j \in Links : config_cache'[j] = IF restarting /\ j = link THEN redis_configs[j]
                                               ELSE config_cache[j]
    BY <1>19, <2>1, GiveUpWrites DEF StartProxyFails
  <2>4. ASSUME NEW l \in (Links \ spoilt') \ {link} PROVE Steady(l)'
    <3>1. l \in Links \ spoilt /\ Steady(l)
      BY <1>1, <1>19, StartProxyWrites DEF LinksIInv, UnitsInv
    <3>2. QED
      BY <1>19, <2>1, <2>2, <2>3, StartProxyWrites, <3>1 DEF Steady
  <2>5. link \notin spoilt' =>
           CASE dpc' = "stop bridge"  -> proxy'[link] = "down"
             [] dpc' = "start bridge" -> proxy'[link] = "down" /\ link \notin bridge'
             [] dpc' = "start proxy"  -> proxy'[link] = "down" /\ link \in bridge'
             [] OTHER                 -> Steady(link)'
    BY <1>19, <2>1, StartProxyWrites
  <2>6. QED
    BY <2>2, <2>4, <2>5 DEF UnitsInv
<1>20. CASE Restart
  BY <1>1, <1>20 DEF Restart, LinksIInv, UnitsInv, Steady, memory, units, lhist
<1>21. ASSUME NEW k \in Links, ProxyReads(k) PROVE UnitsInv'
  BY <1>1, <1>21, LinksAssumption
  DEF ProxyReads, config, LinksIInv, TypeOK, WorkInv, Working, Planned, PlanInv, UnitsInv, Steady,
      memory, work, units, lhist
<1>22. CASE Killed
  BY <1>22 DEF Killed, Gone, Running, UnitsInv, Steady, units
<1>23. CASE Stopped
  BY <1>23 DEF Stopped, Gone, Running, UnitsInv, Steady
<1>24. CASE UNCHANGED linkVars
  BY <1>1, <1>24
  DEF linkVars, config, LinksIInv, TypeOK, WorkInv, Working, Planned, PlanInv, UnitsInv, Steady,
      memory, work, units, lhist
<1>25. QED
  BY <1>1, <1>2, <1>3, <1>4, <1>5, <1>6, <1>7, <1>8, <1>9, <1>10, <1>11, <1>12, <1>13, <1>14,
     <1>15, <1>16, <1>17, <1>18, <1>19, <1>20, <1>21, <1>22, <1>23, <1>24
  DEF Next, Dce

(* What is planned from the rows settles them. *)
LEMMA TargetStep == LinksIInv /\ [Next]_linkVars => TargetInv'
<1>1. SUFFICES ASSUME LinksIInv, [Next]_linkVars PROVE TargetInv'
  OBVIOUS
<1>2. CASE Change
  <2>1. dpc # "down" => notes' # 0
    <3>1. notes \in Nat
      BY <1>1 DEF LinksIInv, TypeOK
    <3>2. dpc # "down" => notes' = notes + 1
      BY <1>2, Zenon DEF Change
    <3>3. QED
      BY <3>1, <3>2
  <2>2. dpc' = dpc
    BY <1>2 DEF Change
  <2>3. QED
    BY <2>1, <2>2 DEF TargetInv, Planned, Working
<1>3. CASE TakeNote
  BY <1>3 DEF TakeNote, Working, Planned, TargetInv
<1>4. CASE CheckDisabled
  BY <1>1, <1>4
  DEF CheckDisabled, config, LinksIInv, Working, Planned, PlanInv, TargetInv, Target, Settled,
      NoConfigs, memory
<1>5. CASE CheckEnabled
  BY <1>5 DEF CheckEnabled, config, Working, Planned, TargetInv
<1>6. CASE ReadAll
  BY <1>1, <1>6 DEF ReadAll, config, Plan, LinksIInv, PlanInv, TargetInv, Target, Settled, memory
<1>7. CASE ReadUntilBad
  BY <1>7 DEF ReadUntilBad, Plan, TargetInv
<1>8. CASE ReadRaises
  BY <1>8 DEF ReadRaises, Plan, TargetInv
<1>9. ASSUME NEW k \in Links, VisitStop(k) PROVE TargetInv'
  BY <1>1, <1>9
  DEF VisitStop, Visit, config, LinksIInv, Working, Planned, TargetInv, Target, Settled, memory,
      lhist
<1>10. ASSUME NEW k \in Links, VisitStart(k) PROVE TargetInv'
  BY <1>1, <1>10
  DEF VisitStart, Visit, config, LinksIInv, Working, Planned, TargetInv, Target, Settled, memory,
      lhist
<1>11. ASSUME NEW k \in Links, VisitChanged(k) PROVE TargetInv'
  BY <1>1, <1>11
  DEF VisitChanged, Visit, config, LinksIInv, Working, Planned, TargetInv, Target, Settled, memory,
      lhist
<1>12. ASSUME NEW k \in Links, VisitUnchanged(k) PROVE TargetInv'
  BY <1>1, <1>12
  DEF VisitUnchanged, config, LinksIInv, PlanInv, TargetInv, Target, Settled, memory, lhist
<1>13. CASE SyncDone
  BY <1>1, <1>13
  DEF SyncDone, config, LinksIInv, Working, Planned, TargetInv, Target, Settled, memory, lhist
<1>14. CASE StopProxy
  BY <1>1, <1>14
  DEF StopProxy, config, LinksIInv, Working, Planned, TargetInv, Target, Settled, memory, work
<1>15. CASE StopBridge
  <2>1. TypeOK /\ WorkInv /\ link \in Links
    BY <1>1, <1>15, StopBridgeWrites DEF LinksIInv
  <2>2. UNCHANGED <<rows, enabled, rowChanges, notes, redis_configs, toStop, toStart, toCheck,
                    link, restarting, proxy, unread>>
    BY <1>15 DEF StopBridge, config, work
  <2>3. /\ dpc = "stop bridge"
        /\ dpc' = IF restarting THEN "start bridge" ELSE "stop"
        /\ active_links' \in SUBSET Links
        /\ config_cache' \in [Links -> Bauds \cup {None}]
        /\ \A j \in Links : j \in active_links'
                                       <=> j \in active_links /\ (restarting \/ j # link)
        /\ \A j \in Links : config_cache'[j] = IF ~restarting /\ j = link THEN None
                                               ELSE config_cache[j]
    <3>1. CASE restarting
      BY <1>1, <1>15, <3>1 DEF StopBridge, memory, LinksIInv, TypeOK
    <3>2. CASE ~restarting
      BY <1>15, <2>1, <3>2, ForgetWrites DEF StopBridge
    <3>3. QED
      BY <3>1, <3>2
  <2>4. \A l \in Links \ {link} : Settled(l)' <=> Settled(l)
    BY <2>2, <2>3 DEF Settled, Target
  <2>5. dpc \in Planned /\ dpc \in Working /\ dpc' \notin {"read", "idle"}
    BY <2>3 DEF Planned, Working
  <2>6. \A l \in Links :
           notes = 0 /\ ~unread /\ l = link => l \in spoilt' \/ Settled(l)' \/ dpc' \in Working
    BY <1>1, <2>2, <2>3, <2>5 DEF LinksIInv, TargetInv, WorkInv, Working, Settled, Target
  <2>7. ASSUME notes = 0, ~unread,
               NEW l \in Links \ (toStop \cup toStart \cup toCheck)
        PROVE  Settled(l)' \/ (dpc' \in Working /\ link = l) \/ l \in spoilt'
    <3>1. CASE l = link
      BY <2>6, <2>7, <3>1
    <3>2. CASE l # link
      <4>1. Settled(l) \/ l \in spoilt
        BY <1>1, <2>5, <2>7, <3>2 DEF LinksIInv, TargetInv
      <4>2. l \in spoilt => l \in spoilt'
        BY <1>15, <2>1, StopBridgeWrites, <3>2
      <4>3. QED
        BY <2>4, <3>2, <4>1, <4>2
    <3>3. QED
      BY <3>1, <3>2
  <2>8. notes = 0 /\ ~unread => \A l \in Links : redis_configs'[l] = Target(l)'
    BY <1>1, <2>2, <2>5 DEF LinksIInv, TargetInv, Target
  <2>9. QED
    BY <2>2, <2>5, <2>7, <2>8 DEF TargetInv
<1>16. CASE StartBridge
  BY <1>1, <1>16
  DEF StartBridge, config, LinksIInv, Working, Planned, TargetInv, Target, Settled, memory, work,
      lhist
<1>17. CASE StartBridgeFails
  <2>1. TypeOK /\ WorkInv /\ link \in Links
    BY <1>1, <1>17, StartBridgeFailsWrites DEF LinksIInv
  <2>2. UNCHANGED <<rows, enabled, rowChanges, notes, redis_configs, toStop, toStart, toCheck,
                    link, restarting, proxy, crossed, unread>>
    BY <1>17 DEF StartBridgeFails, config, work
  <2>3. /\ dpc = "start bridge" /\ dpc' = "stop"
        /\ active_links' \in SUBSET Links
        /\ config_cache' \in [Links -> Bauds \cup {None}]
        /\ \A j \in Links : j \in active_links'
                                       <=> j \in active_links \/ (restarting /\ j = link)
        /\ \A j \in Links : config_cache'[j] = IF restarting /\ j = link THEN redis_configs[j]
                                               ELSE config_cache[j]
    BY <1>17, <2>1, GiveUpWrites DEF StartBridgeFails
  <2>4. \A l \in Links \ {link} : Settled(l)' <=> Settled(l)
    BY <2>2, <2>3 DEF Settled, Target
  <2>5. dpc \in Planned /\ dpc \in Working /\ dpc' \notin {"read", "idle"}
    BY <2>3 DEF Planned, Working
  <2>6. \A l \in Links :
           notes = 0 /\ ~unread /\ l = link => l \in spoilt' \/ Settled(l)' \/ dpc' \in Working
    BY <1>17, <2>1, StartBridgeFailsWrites
  <2>7. ASSUME notes = 0, ~unread,
               NEW l \in Links \ (toStop \cup toStart \cup toCheck)
        PROVE  Settled(l)' \/ (dpc' \in Working /\ link = l) \/ l \in spoilt'
    <3>1. CASE l = link
      BY <2>6, <2>7, <3>1
    <3>2. CASE l # link
      <4>1. Settled(l) \/ l \in spoilt
        BY <1>1, <2>5, <2>7, <3>2 DEF LinksIInv, TargetInv
      <4>2. l \in spoilt => l \in spoilt'
        BY <1>17, <2>1, StartBridgeFailsWrites
      <4>3. QED
        BY <2>4, <3>2, <4>1, <4>2
    <3>3. QED
      BY <3>1, <3>2
  <2>8. notes = 0 /\ ~unread => \A l \in Links : redis_configs'[l] = Target(l)'
    BY <1>1, <2>2, <2>5 DEF LinksIInv, TargetInv, Target
  <2>9. QED
    BY <2>2, <2>5, <2>7, <2>8 DEF TargetInv
<1>18. CASE StartProxy
  <2>1. TypeOK /\ WorkInv /\ link \in Links
    BY <1>1, <1>18, StartProxyWrites DEF LinksIInv
  <2>2. UNCHANGED <<rows, enabled, rowChanges, notes, redis_configs, toStop, toStart, toCheck,
                    link, restarting, bridge, spoilt, crossed, unread, linkFaults>>
    BY <1>18 DEF StartProxy, config, work, lhist
  <2>3. /\ dpc = "start proxy" /\ dpc' = "stop"
        /\ active_links' \in SUBSET Links
        /\ config_cache' \in [Links -> Bauds \cup {None}]
        /\ \A j \in Links : j \in active_links' <=> j \in active_links \/ j = link
        /\ \A j \in Links : config_cache'[j] = IF j = link THEN redis_configs[j]
                                               ELSE config_cache[j]
    BY <1>18, <2>1, RememberWrites DEF StartProxy
  <2>4. \A l \in Links \ {link} : Settled(l)' <=> Settled(l)
    BY <2>2, <2>3 DEF Settled, Target
  <2>5. dpc \in Planned /\ dpc \in Working /\ dpc' \notin {"read", "idle"}
    BY <2>3 DEF Planned, Working
  <2>6. \A l \in Links :
           notes = 0 /\ ~unread /\ l = link => l \in spoilt' \/ Settled(l)' \/ dpc' \in Working
    BY <1>1, <2>2, <2>3, <2>5 DEF LinksIInv, TargetInv, WorkInv, Settled, Target
  <2>7. ASSUME notes = 0, ~unread,
               NEW l \in Links \ (toStop \cup toStart \cup toCheck)
        PROVE  Settled(l)' \/ (dpc' \in Working /\ link = l) \/ l \in spoilt'
    <3>1. CASE l = link
      BY <2>6, <2>7, <3>1
    <3>2. CASE l # link
      <4>1. Settled(l) \/ l \in spoilt
        BY <1>1, <2>5, <2>7, <3>2 DEF LinksIInv, TargetInv
      <4>2. l \in spoilt => l \in spoilt'
        BY <2>2
      <4>3. QED
        BY <2>4, <3>2, <4>1, <4>2
    <3>3. QED
      BY <3>1, <3>2
  <2>8. notes = 0 /\ ~unread => \A l \in Links : redis_configs'[l] = Target(l)'
    BY <1>1, <2>2, <2>5 DEF LinksIInv, TargetInv, Target
  <2>9. QED
    BY <2>2, <2>5, <2>7, <2>8 DEF TargetInv
<1>19. CASE StartProxyFails
  <2>1. TypeOK /\ WorkInv /\ link \in Links
    BY <1>1, <1>19, StartProxyWrites DEF LinksIInv
  <2>2. UNCHANGED <<rows, enabled, rowChanges, notes, redis_configs, toStop, toStart, toCheck,
                    link, restarting, crossed, unread>>
    BY <1>19 DEF StartProxyFails, config, work
  <2>3. /\ dpc = "start proxy" /\ dpc' = "stop"
        /\ active_links' \in SUBSET Links
        /\ config_cache' \in [Links -> Bauds \cup {None}]
        /\ \A j \in Links : j \in active_links'
                                       <=> j \in active_links \/ (restarting /\ j = link)
        /\ \A j \in Links : config_cache'[j] = IF restarting /\ j = link THEN redis_configs[j]
                                               ELSE config_cache[j]
    BY <1>19, <2>1, GiveUpWrites DEF StartProxyFails
  <2>4. \A l \in Links \ {link} : Settled(l)' <=> Settled(l)
    BY <2>2, <2>3 DEF Settled, Target
  <2>5. dpc \in Planned /\ dpc \in Working /\ dpc' \notin {"read", "idle"}
    BY <2>3 DEF Planned, Working
  <2>6. \A l \in Links :
           notes = 0 /\ ~unread /\ l = link => l \in spoilt' \/ Settled(l)' \/ dpc' \in Working
    BY <1>19, <2>1, StartProxyWrites
  <2>7. ASSUME notes = 0, ~unread,
               NEW l \in Links \ (toStop \cup toStart \cup toCheck)
        PROVE  Settled(l)' \/ (dpc' \in Working /\ link = l) \/ l \in spoilt'
    <3>1. CASE l = link
      BY <2>6, <2>7, <3>1
    <3>2. CASE l # link
      <4>1. Settled(l) \/ l \in spoilt
        BY <1>1, <2>5, <2>7, <3>2 DEF LinksIInv, TargetInv
      <4>2. l \in spoilt => l \in spoilt'
        BY <1>19, <2>1, StartProxyWrites
      <4>3. QED
        BY <2>4, <3>2, <4>1, <4>2
    <3>3. QED
      BY <3>1, <3>2
  <2>8. notes = 0 /\ ~unread => \A l \in Links : redis_configs'[l] = Target(l)'
    BY <1>1, <2>2, <2>5 DEF LinksIInv, TargetInv, Target
  <2>9. QED
    BY <2>2, <2>5, <2>7, <2>8 DEF TargetInv
<1>20. CASE Restart
  BY <1>20 DEF Restart, Working, Planned, TargetInv
<1>21. ASSUME NEW k \in Links, ProxyReads(k) PROVE TargetInv'
  BY <1>1, <1>21 DEF ProxyReads, config, LinksIInv, TargetInv, Target, Settled, memory, work
<1>22. CASE Killed
  BY <1>22 DEF Killed, Gone, Working, Planned, TargetInv
<1>23. CASE Stopped
  BY <1>23 DEF Stopped, Gone, Working, Planned, TargetInv
<1>24. CASE UNCHANGED linkVars
  BY <1>1, <1>24 DEF linkVars, config, LinksIInv, TargetInv, Target, Settled, memory, work, lhist
<1>25. QED
  BY <1>1, <1>2, <1>3, <1>4, <1>5, <1>6, <1>7, <1>8, <1>9, <1>10, <1>11, <1>12, <1>13, <1>14,
     <1>15, <1>16, <1>17, <1>18, <1>19, <1>20, <1>21, <1>22, <1>23, <1>24
  DEF Next, Dce

(* LinksIInv is inductive.                                                                       *)
THEOREM LinksInvariant == Spec => []LinksIInv
<1>1. Init => LinksIInv
  <2>1. SUFFICES ASSUME Init PROVE LinksIInv
    OBVIOUS
  <2>2. NoConfigs \in [Links -> Bauds \cup {None}] /\ \A l \in Links : NoConfigs[l] = None
    BY DEF NoConfigs
  <2>3. TypeOK
    BY <2>1, <2>2 DEF Init, TypeOK
  <2>4. PlanInv /\ WorkInv /\ TargetInv
    BY <2>1, <2>2 DEF Init, PlanInv, WorkInv, TargetInv, Working, Planned
  <2>5. UnitsInv
    BY <2>1 DEF Init, UnitsInv, Steady
  <2>6. QED
    BY <2>3, <2>4, <2>5 DEF LinksIInv
<1>2. LinksIInv /\ [Next]_linkVars => LinksIInv'
  BY LinksTypeStep, PlanStep, WorkStep, UnitsStep, TargetStep DEF LinksIInv
<1>3. QED
  BY <1>1, <1>2, PTL DEF Spec

(* The state of the service is typed.                                                       *)
THEOREM TypeCorrect == Spec => []TypeOK
<1>1. LinksIInv => TypeOK
  BY DEF LinksIInv
<1>2. QED
  BY <1>1, LinksInvariant, PTL

(* A proxy never runs without its bridge, but for failed calls and for what an earlier      *)
(* service left (console-monitor:1056-1103).                                                *)
THEOREM ProxyBridgeHolds == Spec => []ProxyHasBridge
<1>1. LinksIInv => ProxyHasBridge
  BY DEF LinksIInv, UnitsInv, Steady, ProxyHasBridge
<1>2. QED
  BY <1>1, LinksInvariant, PTL

(* The links that run between two notifications are those of the rows, with the exceptions  *)
(* the property names (_sync, console-monitor:1016-1054).                                   *)
THEOREM LinksHold == Spec => []LinksFollowRows
<1>1. LinksIInv => LinksFollowRows
  <2>1. SUFFICES ASSUME LinksIInv, dpc = "idle", notes = 0, ~unread, NEW l \in Links \ spoilt
                 PROVE  IF Wanted(l)
                        THEN /\ l \in active_links /\ l \in bridge
                             /\ proxy[l] \in {"waiting", rows[l]} \/ l \in crossed
                        ELSE l \notin active_links /\ l \notin Running
    BY Zenon DEF LinksFollowRows
  <2>2. Steady(l) /\ Settled(l)
    BY <2>1 DEF LinksIInv, UnitsInv, TargetInv
  <2>3. CASE Wanted(l)
    BY <2>2, <2>3, LinksAssumption DEF Wanted, Steady, Settled, Target
  <2>4. CASE ~Wanted(l)
    BY <2>1, <2>2, <2>4 DEF Wanted, Steady, Settled, Target, Running, LinksIInv, TypeOK
  <2>5. QED
    BY <2>3, <2>4
<1>2. QED
  BY <1>1, LinksInvariant, PTL
-----------------------------------------------------------------------------
(* The row of a console line.                                              *)

\* Two heartbeats may be sent within the timeout, and the absent state is none of the states.
ParametersAssumed ==
    /\ HEARTBEAT_TIMEOUT \in Nat \ {0, 1}
    /\ {MaxWishes, MaxLineFaults} \subseteq Nat
    /\ Absent \notin {"Up", "Unknown"}

\* What the proxy takes the row for, against the ages of what was heard.  While it says "Up",
\* the timer of heartbeats may have been granted one more timeout by data, which are then as
\* old as the line is quiet.
AgeInv ==
    /\ silent >= sinceHeartbeat
    /\ phase # "running" => oper_state = Absent
    /\ oper_state = "Unknown" => silent >= HEARTBEAT_TIMEOUT
    /\ oper_state = "Up" => /\ quiet < sinceHeartbeat + HEARTBEAT_TIMEOUT
                            /\ sinceData < HEARTBEAT_TIMEOUT => quiet = sinceData

LineIInv == LineTypeOK /\ AgeInv /\ RowTellsOfLine

\* The conjuncts of the type: flags, numbers and names.
Flags ==
    /\ switch \in BOOLEAN /\ wanted \in BOOLEAN
    /\ dteEnabled \in BOOLEAN /\ heartbeat_stop \in BOOLEAN /\ thread \in BOOLEAN
    /\ misread \in BOOLEAN
    /\ deaf \in BOOLEAN /\ stale \in BOOLEAN /\ gone \in BOOLEAN

Numbers ==
    /\ switchNotes \in 0 .. wishes
    /\ strays \in 0 .. lineFaults
    /\ sinceSent \in {0, 1}
    /\ {sinceHeartbeat, sinceData} \subseteq 0 .. HEARTBEAT_TIMEOUT
    /\ {quiet, silent} \subseteq 0 .. Long
    /\ wishes \in 0 .. MaxWishes
    /\ lineFaults \in 0 .. MaxLineFaults

Names ==
    /\ dte \in {"up", "join"}
    /\ phase \in {"down", "starting", "waiting", "running"}
    /\ {oper_state, row} \subseteq States

(* Flags stay flags. *)
LEMMA FlagsStep ==
  ASSUME ParametersAssumed, LineTypeOK, [LineNext]_heartVars
  PROVE  Flags'
<1> USE DEF ParametersAssumed, LineTypeOK, Flags, States, Long
<1>1. CASE Switch
  BY <1>1 DEF Switch, Wish, dteVars, proxyVars, seenVars
<1>2. CASE Want
  BY <1>2 DEF Want, Wish, dteVars, seenVars
<1>3. CASE Enable
  BY <1>3 DEF Enable, proxyVars, seenVars
<1>4. CASE Disable
  BY <1>4 DEF Disable, LineFault, proxyVars, seenVars
<1>5. CASE ThreadEnds
  BY <1>5 DEF ThreadEnds, proxyVars, seenVars
<1>6. CASE Joined
  BY <1>6 DEF Joined, proxyVars, seenVars
<1>7. CASE JoinGivenUp
  BY <1>7 DEF JoinGivenUp, LineFault, proxyVars, seenVars
<1>8. CASE DteRestarts
  BY <1>8 DEF DteRestarts, LineFault, proxyVars, seenVars
<1>9. CASE Heartbeat
  BY <1>9 DEF Heartbeat, Hears, Unheard, UpdateState, Listening, LineFault
<1>10. CASE Data
  BY <1>10 DEF Data, dteVars
<1>11. CASE Unplugged
  BY <1>11 DEF Unplugged, LineFault, dteVars, proxyVars
<1>12. CASE Tick
  BY <1>12 DEF Tick, Later
<1>13. CASE Check
  BY <1>13 DEF Check, UpdateState, LineFault, dteVars
<1>14. CASE Runs
  BY <1>14 DEF Runs, ProxyIs, dteVars, seenVars
<1>15. CASE Initialized
  BY <1>15 DEF Initialized, ProxyIs, dteVars, seenVars
<1>16. CASE ProxyStarted
  BY <1>16 DEF ProxyStarted, ProxyIs, dteVars, seenVars
<1>17. CASE EndsEarly
  BY <1>17 DEF EndsEarly, ProxyIs, Forgets, LineFault, dteVars
<1>18. CASE Ends
  BY <1>18 DEF Ends, ProxyIs, Forgets, LineFault, dteVars
<1>19. CASE ProxyKilled
  BY <1>19 DEF ProxyKilled, ProxyIs, Forgets, LineFault, dteVars
<1>20. CASE UNCHANGED heartVars
  BY <1>20 DEF heartVars, dteVars, proxyVars, seenVars
<1>21. QED
  BY <1>1, <1>2, <1>3, <1>4, <1>5, <1>6, <1>7, <1>8, <1>9, <1>10, <1>11, <1>12, <1>13, <1>14,
     <1>15, <1>16, <1>17, <1>18, <1>19, <1>20
  DEF LineNext, DteNext, ProxyNext

(* Ages stay below their bounds, and nothing is counted more often than it was caused. *)
LEMMA NumbersStep ==
  ASSUME ParametersAssumed, LineTypeOK, [LineNext]_heartVars
  PROVE  Numbers'
<1> USE DEF ParametersAssumed, LineTypeOK, Numbers, States, Long
<1>1. CASE Switch
  BY <1>1 DEF Switch, Wish, dteVars, proxyVars, seenVars
<1>2. CASE Want
  BY <1>2 DEF Want, Wish, dteVars, seenVars
<1>3. CASE Enable
  BY <1>3 DEF Enable, proxyVars, seenVars
<1>4. CASE Disable
  BY <1>4 DEF Disable, LineFault, proxyVars, seenVars
<1>5. CASE ThreadEnds
  BY <1>5 DEF ThreadEnds, proxyVars, seenVars
<1>6. CASE Joined
  BY <1>6 DEF Joined, proxyVars, seenVars
<1>7. CASE JoinGivenUp
  BY <1>7 DEF JoinGivenUp, LineFault, proxyVars, seenVars
<1>8. CASE DteRestarts
  BY <1>8 DEF DteRestarts, LineFault, proxyVars, seenVars
<1>9. CASE Heartbeat
  BY <1>9 DEF Heartbeat, Hears, Unheard, UpdateState, Listening, LineFault
<1>10. CASE Data
  BY <1>10 DEF Data, dteVars
<1>11. CASE Unplugged
  BY <1>11 DEF Unplugged, LineFault, dteVars, proxyVars
<1>12. CASE Tick
  BY <1>12 DEF Tick, Later
<1>13. CASE Check
  BY <1>13 DEF Check, UpdateState, LineFault, dteVars
<1>14. CASE Runs
  BY <1>14 DEF Runs, ProxyIs, dteVars, seenVars
<1>15. CASE Initialized
  BY <1>15 DEF Initialized, ProxyIs, dteVars, seenVars
<1>16. CASE ProxyStarted
  BY <1>16 DEF ProxyStarted, ProxyIs, dteVars, seenVars
<1>17. CASE EndsEarly
  BY <1>17 DEF EndsEarly, ProxyIs, Forgets, LineFault, dteVars
<1>18. CASE Ends
  BY <1>18 DEF Ends, ProxyIs, Forgets, LineFault, dteVars
<1>19. CASE ProxyKilled
  BY <1>19 DEF ProxyKilled, ProxyIs, Forgets, LineFault, dteVars
<1>20. CASE UNCHANGED heartVars
  BY <1>20 DEF heartVars, dteVars, proxyVars, seenVars
<1>21. QED
  BY <1>1, <1>2, <1>3, <1>4, <1>5, <1>6, <1>7, <1>8, <1>9, <1>10, <1>11, <1>12, <1>13, <1>14,
     <1>15, <1>16, <1>17, <1>18, <1>19, <1>20
  DEF LineNext, DteNext, ProxyNext

(* Phases and states stay among their values. *)
LEMMA NamesStep ==
  ASSUME ParametersAssumed, LineTypeOK, [LineNext]_heartVars
  PROVE  Names'
<1> USE DEF ParametersAssumed, LineTypeOK, Names, States, Long
<1>1. CASE Switch
  BY <1>1 DEF Switch, Wish, dteVars, proxyVars, seenVars
<1>2. CASE Want
  BY <1>2 DEF Want, Wish, dteVars, seenVars
<1>3. CASE Enable
  BY <1>3 DEF Enable, proxyVars, seenVars
<1>4. CASE Disable
  BY <1>4 DEF Disable, LineFault, proxyVars, seenVars
<1>5. CASE ThreadEnds
  BY <1>5 DEF ThreadEnds, proxyVars, seenVars
<1>6. CASE Joined
  BY <1>6 DEF Joined, proxyVars, seenVars
<1>7. CASE JoinGivenUp
  BY <1>7 DEF JoinGivenUp, LineFault, proxyVars, seenVars
<1>8. CASE DteRestarts
  BY <1>8 DEF DteRestarts, LineFault, proxyVars, seenVars
<1>9. CASE Heartbeat
  BY <1>9 DEF Heartbeat, Hears, Unheard, UpdateState, Listening, LineFault
<1>10. CASE Data
  BY <1>10 DEF Data, dteVars
<1>11. CASE Unplugged
  BY <1>11 DEF Unplugged, LineFault, dteVars, proxyVars
<1>12. CASE Tick
  BY <1>12 DEF Tick, Later
<1>13. CASE Check
  BY <1>13 DEF Check, UpdateState, LineFault, dteVars
<1>14. CASE Runs
  BY <1>14 DEF Runs, ProxyIs, dteVars, seenVars
<1>15. CASE Initialized
  BY <1>15 DEF Initialized, ProxyIs, dteVars, seenVars
<1>16. CASE ProxyStarted
  BY <1>16 DEF ProxyStarted, ProxyIs, dteVars, seenVars
<1>17. CASE EndsEarly
  BY <1>17 DEF EndsEarly, ProxyIs, Forgets, LineFault, dteVars
<1>18. CASE Ends
  BY <1>18 DEF Ends, ProxyIs, Forgets, LineFault, dteVars
<1>19. CASE ProxyKilled
  BY <1>19 DEF ProxyKilled, ProxyIs, Forgets, LineFault, dteVars
<1>20. CASE UNCHANGED heartVars
  BY <1>20 DEF heartVars, dteVars, proxyVars, seenVars
<1>21. QED
  BY <1>1, <1>2, <1>3, <1>4, <1>5, <1>6, <1>7, <1>8, <1>9, <1>10, <1>11, <1>12, <1>13, <1>14,
     <1>15, <1>16, <1>17, <1>18, <1>19, <1>20
  DEF LineNext, DteNext, ProxyNext

(* The type is kept by every step. *)
LEMMA LineTypeStep ==
  ASSUME ParametersAssumed, LineTypeOK, [LineNext]_heartVars
  PROVE  LineTypeOK'
<1>1. Flags' /\ Numbers' /\ Names'
  BY FlagsStep, NumbersStep, NamesStep
<1>2. QED
  BY <1>1 DEF LineTypeOK, Flags, Numbers, Names

(* So are the ages and what the row tells. *)
LEMMA AgeStep ==
  ASSUME ParametersAssumed, LineIInv, [LineNext]_heartVars
  PROVE  (AgeInv /\ RowTellsOfLine)'
<1> USE DEF ParametersAssumed, LineIInv, LineTypeOK, AgeInv, RowTellsOfLine, States, Long
<1>1. CASE Switch
  BY <1>1 DEF Switch, proxyVars, seenVars
<1>2. CASE Want
  BY <1>2 DEF Want, seenVars
<1>3. CASE DteNext
  BY <1>3 DEF DteNext, Enable, Disable, ThreadEnds, Joined, proxyVars, seenVars
<1>4. CASE JoinGivenUp \/ DteRestarts
  BY <1>4 DEF JoinGivenUp, DteRestarts, proxyVars, seenVars
<1>5. CASE Heartbeat
  <2>1. CASE Hears
    BY <1>5, <2>1 DEF Heartbeat, Hears, UpdateState, Listening
  <2>2. CASE Unheard
    BY <1>5, <2>2 DEF Heartbeat, Unheard
  <2>3. QED
    BY <1>5, <2>1, <2>2 DEF Heartbeat
<1>6. CASE Data
  BY <1>6 DEF Data, Listening
<1>7. CASE Unplugged
  BY <1>7 DEF Unplugged, proxyVars
<1>8. CASE Tick
  BY <1>8 DEF Tick, Later
<1>9. CASE Check
  BY <1>9 DEF Check, UpdateState
<1>10. CASE Runs \/ Initialized \/ ProxyStarted
  BY <1>10 DEF Runs, Initialized, ProxyStarted, ProxyIs, seenVars
<1>11. CASE EndsEarly \/ Ends
  BY <1>11 DEF EndsEarly, Ends, ProxyIs, Forgets
<1>12. CASE ProxyKilled
  <2>1. /\ oper_state' = Absent /\ sinceHeartbeat' = 0
        /\ phase' = "down"
        /\ UNCHANGED <<row, quiet, silent>>
    BY <1>12 DEF ProxyKilled, ProxyIs, Forgets
  <2>2. ~stale' => row = Absent
    BY <1>12 DEF ProxyKilled
  <2>3. QED
    BY <2>1, <2>2
<1>13. CASE UNCHANGED heartVars
  BY <1>13 DEF heartVars, proxyVars, seenVars
<1>14. QED
  BY <1>1, <1>2, <1>3, <1>4, <1>5, <1>6, <1>7, <1>8, <1>9, <1>10, <1>11, <1>12, <1>13
  DEF LineNext, ProxyNext

(* Both together are inductive. *)
LEMMA LineInductive ==
  ASSUME ParametersAssumed
  PROVE  LineSpec => []LineIInv
<1>1. LineInit => LineIInv
  <2> USE DEF ParametersAssumed, LineInit, States, Long
  <2>1. LineInit => Flags
    BY DEF Flags
  <2>2. LineInit => Numbers /\ Names
    BY DEF Numbers, Names
  <2>3. LineInit => AgeInv /\ RowTellsOfLine
    BY DEF AgeInv, RowTellsOfLine
  <2>4. QED
    BY <2>1, <2>2, <2>3 DEF LineIInv, LineTypeOK, Flags, Numbers, Names
<1>2. LineIInv /\ [LineNext]_heartVars => LineIInv'
  BY LineTypeStep, AgeStep DEF LineIInv
<1>3. QED
  BY <1>1, <1>2, PTL DEF LineSpec

\* The state of the DTE service and of the proxy keeps its type, whatever happens on the line.
THEOREM LineTypeCorrect ==
  ASSUME ParametersAssumed
  PROVE  LineSpec => []LineTypeOK
<1>1. LineIInv => LineTypeOK
  BY DEF LineIInv
<1>2. QED
  BY <1>1, LineInductive, PTL

\* RowTellsOfLine, for any timeout: unless a write has failed or a proxy was killed, "Up" was
\* heard within two timeouts and "Unknown" means that no heartbeat was heard within one.
THEOREM RowHolds ==
  ASSUME ParametersAssumed
  PROVE  LineSpec => []RowTellsOfLine
<1>1. LineIInv => RowTellsOfLine
  BY DEF LineIInv
<1>2. QED
  BY <1>1, LineInductive, PTL
-----------------------------------------------------------------------------
(* The stream of a line.  StreamInv says how far the frame is that is being *)
(* sent (At), whether the filter follows it (Aligned) or will hear no more  *)
(* of it (Hopeless), and what the disturbances so far have paid for: frames *)
(* heard that were not whole (HeardAt) and characters lost (LossAt).        *)

\* A byte is a character and where it is from.
Bytes == Frames!Characters \X {"console", "frame"}

\* What is at each place of a frame, and what is left of it from one on.
FrameLen(b) == SOF_LEN + Len(b) + EOF_LEN
Char(b, i) ==
    IF i <= SOF_LEN THEN "sof" ELSE IF i <= SOF_LEN + Len(b) THEN b[i - SOF_LEN] ELSE "eof"
Rest(b, j) == [i \in 1 .. FrameLen(b) - j |-> Char(b, i + j)]

Count(origin) == Frames!From(origin, buffer)

StreamTypes ==
    /\ buffer \in Seq(Bytes)
    /\ {escape_next, in_frame, broken, doubt} \subseteq BOOLEAN
    /\ {passed, heard, typed, whole, leaked, excess, frames, noise} \subseteq Nat

\* Contents are sequences of characters and fit into the buffer.
LEMMA BodyTypes ==
    ASSUME NEW b \in Bodies
    PROVE  /\ b \in Seq(Frames!Characters) /\ Len(b) \in Nat /\ DOMAIN b = 1 .. Len(b)
           /\ Len(b) < MAX_FRAME_BUFFER_SIZE
           /\ FrameLen(b) \in Nat /\ FrameLen(b) > SOF_LEN + Len(b)
           /\ \A i \in 1 .. Len(b) : b[i] \in Frames!Characters
  BY ConsoleAssumption DEF ConsoleAssumption, FrameLen

\* A frame consists of characters.
LEMMA CharTypes ==
    ASSUME NEW b \in Bodies, NEW i \in Nat
    PROVE  Char(b, i) \in Frames!Characters
  BY BodyTypes, ConsoleAssumption
  DEF ConsoleAssumption, Char, Frames!Characters, Frames!Special

\* The frame that is built, character by character.
LEMMA BuildIs ==
    ASSUME NEW b \in Bodies
    PROVE  Frames!Build(b) = Rest(b, 0)
<1> DEFINE s == [i \in 1 .. SOF_LEN |-> "sof"]
           t == [i \in 1 .. EOF_LEN |-> "eof"]
           C == Frames!Characters
<1>1. SOF_LEN \in Nat /\ EOF_LEN \in Nat
  BY ConsoleAssumption DEF ConsoleAssumption
<1>2. s \in Seq(C) /\ Len(s) = SOF_LEN /\ t \in Seq(C) /\ Len(t) = EOF_LEN
  BY <1>1 DEF Frames!Characters, Frames!Special
<1>3. b \in Seq(C) /\ Len(b) \in Nat
  BY BodyTypes
<1>4. \A i \in 1 .. SOF_LEN : s[i] = "sof"
  OBVIOUS
<1>5. \A i \in 1 .. EOF_LEN : t[i] = "eof"
  OBVIOUS
<1>a. Frames!Build(b) = (s \o b) \o t
  BY DEF Frames!Build
<1> HIDE DEF s, t, C
<1>6. /\ s \o b \in Seq(C)
      /\ Len(s \o b) = SOF_LEN + Len(b)
      /\ \A i \in 1 .. SOF_LEN + Len(b) :
            (s \o b)[i] = IF i <= SOF_LEN THEN s[i] ELSE b[i - SOF_LEN]
  BY <1>2, <1>3, ConcatProperties
<1> DEFINE r == s \o b
<1> HIDE DEF r
<1>7. r \in Seq(C) /\ Len(r) = SOF_LEN + Len(b)
  BY <1>6 DEF r
<1>b. /\ r \o t \in Seq(C)
      /\ Len(r \o t) = Len(r) + Len(t)
      /\ \A i \in 1 .. Len(r) + Len(t) :
            (r \o t)[i] = IF i <= Len(r) THEN r[i] ELSE t[i - Len(r)]
  <2>1. r \in Seq(C) /\ t \in Seq(C)
    BY <1>2, <1>7
  <2> QED
    BY <2>1, ConcatProperties, Zenon
<1>8. /\ r \o t \in Seq(C)
      /\ Len(r \o t) = SOF_LEN + Len(b) + EOF_LEN
      /\ \A i \in 1 .. SOF_LEN + Len(b) + EOF_LEN :
            (r \o t)[i] = IF i <= SOF_LEN + Len(b) THEN r[i] ELSE t[i - (SOF_LEN + Len(b))]
  BY <1>b, <1>2, <1>7
<1>9. Len(r \o t) = FrameLen(b) /\ FrameLen(b) \in Nat
  BY <1>1, <1>3, <1>8 DEF FrameLen
<1>10. ASSUME NEW i \in 1 .. FrameLen(b) PROVE (r \o t)[i] = Char(b, i)
  <2>1. CASE i <= SOF_LEN
    BY <1>1, <1>3, <1>4, <1>6, <1>8, <2>1 DEF r, Char, FrameLen
  <2>2. CASE i > SOF_LEN /\ i <= SOF_LEN + Len(b)
    BY <1>1, <1>3, <1>6, <1>8, <2>2 DEF r, Char, FrameLen
  <2>3. CASE i > SOF_LEN + Len(b)
    <3>1. i - (SOF_LEN + Len(b)) \in 1 .. EOF_LEN
      BY <1>1, <1>3, <2>3 DEF FrameLen
    <3>2. (r \o t)[i] = t[i - (SOF_LEN + Len(b))]
      BY <1>1, <1>3, <1>8, <2>3 DEF FrameLen
    <3>4. t[i - (SOF_LEN + Len(b))] = "eof"
      BY <1>5, <3>1
    <3>3. Char(b, i) = "eof"
      BY <1>1, <1>3, <2>3 DEF Char
    <3> QED
      BY <3>2, <3>3, <3>4
  <2> QED
    BY <1>1, <1>3, <1>9, <2>1, <2>2, <2>3
<1>11. r \o t = [i \in 1 .. FrameLen(b) |-> (r \o t)[i]]
  <2>1. r \o t \in [1 .. FrameLen(b) -> C]
    BY <1>b, <1>9, LenProperties
  <2> QED
    BY <2>1
<1>12. Rest(b, 0) = [i \in 1 .. FrameLen(b) |-> Char(b, i)]
  BY <1>9 DEF Rest
<1> QED
  BY <1>a, <1>10, <1>11, <1>12 DEF r

\* Sending a frame takes its characters off one by one.
LEMMA RestSteps ==
    ASSUME NEW b \in Bodies, NEW j \in 0 .. FrameLen(b) - 1
    PROVE  /\ Rest(b, j) # <<>>
           /\ Head(Rest(b, j)) = Char(b, j + 1)
           /\ Tail(Rest(b, j)) = Rest(b, j + 1)
           /\ (Rest(b, j + 1) = <<>>) <=> (j + 1 = FrameLen(b))
<1> DEFINE r == Rest(b, j)
<1>1. FrameLen(b) \in Nat
  BY BodyTypes
<1>2. r \in Seq(Frames!Characters) /\ Len(r) = FrameLen(b) - j
  BY <1>1, CharTypes DEF Rest
<1>3. r # <<>> /\ r[1] = Char(b, j + 1)
  BY <1>1, <1>2 DEF Rest
<1>4. Tail(r) = [i \in 1 .. Len(r) - 1 |-> r[i + 1]]
  <2> HIDE DEF r
  <2>1. /\ Tail(r) \in Seq(Frames!Characters) /\ Len(Tail(r)) = Len(r) - 1
        /\ \A i \in 1 .. Len(Tail(r)) : Tail(r)[i] = r[i + 1]
    BY <1>2, <1>3, HeadTailProperties
  <2>2. Tail(r) \in [1 .. Len(Tail(r)) -> Frames!Characters]
    BY <2>1, LenProperties
  <2> QED
    BY <2>1, <2>2
<1>5. Tail(r) = Rest(b, j + 1)
  <2>1. Len(r) - 1 = FrameLen(b) - (j + 1)
    BY <1>1, <1>2
  <2>2. \A i \in 1 .. Len(r) - 1 : r[i + 1] = Char(b, i + (j + 1))
    BY <1>1, <1>2 DEF Rest
  <2> QED
    BY <1>4, <2>1, <2>2 DEF Rest
<1>6. (Rest(b, j + 1) = <<>>) <=> (j + 1 = FrameLen(b))
  <2>1. Rest(b, j + 1) \in Seq(Frames!Characters) /\ Len(Rest(b, j + 1)) = FrameLen(b) - (j + 1)
    BY <1>1, CharTypes DEF Rest
  <2> QED
    BY <1>1, <2>1
<1> QED
  BY <1>3, <1>5, <1>6, <1>2

\* An instance has its own name for what it takes from the library.
LEMMA SameCardinality == \A S : Frames!Cardinality(S) = Cardinality(S)
  BY Zenon DEF Frames!Cardinality, Cardinality

\* From counts with the library's Cardinality.
LEMMA FromIs ==
    \A o, s : Frames!From(o, s) = Cardinality({i \in DOMAIN s : s[i][2] = o})
  BY SameCardinality DEF Frames!From

\* A sequence has at most as many bytes of an origin as it has bytes.
LEMMA Counted1 ==
    ASSUME NEW s \in Seq(Bytes), NEW o
    PROVE  /\ Frames!From(o, s) \in Nat
           /\ Frames!From(o, s) <= Len(s)
           /\ IsFiniteSet({i \in DOMAIN s : s[i][2] = o})
<1>1. DOMAIN s = 1 .. Len(s) /\ Len(s) \in Nat
  OBVIOUS
<1>2. IsFiniteSet(1 .. Len(s)) /\ Cardinality(1 .. Len(s)) = Len(s)
  BY <1>1, FS_Interval
<1>3. {i \in DOMAIN s : s[i][2] = o} \in SUBSET (1 .. Len(s))
  BY <1>1
<1> QED
  BY <1>2, <1>3, FromIs, FS_Subset, FS_CardinalityType

\* There are none in an empty one.
LEMMA CountedEmpty == \A o : Frames!From(o, <<>>) = 0
<1> TAKE o
<1>1. {i \in DOMAIN <<>> : <<>>[i][2] = o} = {}
  OBVIOUS
<1>2. Cardinality({}) = 0
  BY FS_EmptySet
<1> QED
  BY <1>1, <1>2, FromIs

\* A byte more is counted for its origin.
LEMMA CountedAppend ==
    ASSUME NEW s \in Seq(Bytes), NEW c \in Bytes, NEW o
    PROVE  /\ Append(s, c) \in Seq(Bytes)
           /\ Len(Append(s, c)) = Len(s) + 1
           /\ Append(s, c)[Len(s) + 1] = c
           /\ \A i \in 1 .. Len(s) : Append(s, c)[i] = s[i]
           /\ Frames!From(o, Append(s, c)) = Frames!From(o, s) + (IF c[2] = o THEN 1 ELSE 0)
<1> DEFINE t == Append(s, c)
           S == {i \in DOMAIN s : s[i][2] = o}
           T == {i \in DOMAIN t : t[i][2] = o}
<1>1. /\ t \in Seq(Bytes) /\ Len(t) = Len(s) + 1 /\ Len(s) \in Nat
      /\ DOMAIN t = 1 .. Len(s) + 1 /\ DOMAIN s = 1 .. Len(s)
      /\ t[Len(s) + 1] = c /\ \A i \in 1 .. Len(s) : t[i] = s[i]
  OBVIOUS
<1>2. IsFiniteSet(S)
  BY Counted1
<1> HIDE DEF t
<1>3. T = IF c[2] = o THEN S \cup {Len(s) + 1} ELSE S
  BY <1>1
<1>4. Len(s) + 1 \notin S
  BY <1>1
<1> HIDE DEF S, T
<1>5. Cardinality(T) = Cardinality(S) + (IF c[2] = o THEN 1 ELSE 0)
  <2>1. Cardinality(S) \in Nat
    BY <1>2, FS_CardinalityType
  <2>2. Cardinality(S \cup {Len(s) + 1}) = Cardinality(S) + 1
    BY <1>2, <1>4, FS_AddElement
  <2>3. CASE c[2] = o
    BY <1>3, <2>2, <2>3
  <2>4. CASE c[2] # o
    <3>1. T = S
      BY <1>3, <2>4
    <3> QED
      BY <2>1, <2>4, <3>1
  <2> QED
    BY <2>3, <2>4
<1>6. Frames!From(o, s) = Cardinality(S) /\ Frames!From(o, t) = Cardinality(T)
  BY FromIs DEF S, T
<1> QED
  BY <1>1, <1>5, <1>6 DEF t

-----------------------------------------------------------------------------
(* The filter.                                                             *)

\* What the filter does with a character, in four ways: it keeps it in the buffer, spills a full
\* buffer, starts a frame, ends one.
Keeps(byte) ==
    /\ byte[1] \in {"sof", "eof"} => escape_next
    /\ buffer' = Append(buffer, byte)
    /\ in_frame' = in_frame
    /\ escape_next' <=> byte[1] = "dle" /\ ~escape_next /\ in_frame
    /\ UNCHANGED <<passed, leaked, heard>>
    /\ excess' \in Nat /\ excess' >= excess
    /\ Len(buffer) + 1 >= MAX_FRAME_BUFFER_SIZE => excess' = excess + 1

Passes(n, m) == passed' = passed + n /\ leaked' = leaked + m

Spills(byte) ==
    /\ byte[1] # "text" => escape_next
    /\ Len(buffer) + 1 >= MAX_FRAME_BUFFER_SIZE
    /\ buffer' = <<>> /\ ~escape_next' /\ ~in_frame'
    /\ UNCHANGED <<heard, excess>>
    /\ in_frame => UNCHANGED <<passed, leaked>>
    /\ ~in_frame => Passes(Count("console") + (IF byte[2] = "console" THEN 1 ELSE 0),
                           Count("frame") + (IF byte[2] = "frame" THEN 1 ELSE 0))

Opens(byte) ==
    /\ byte[1] = "sof" /\ ~escape_next
    /\ buffer' = <<>> /\ ~escape_next' /\ in_frame' = TRUE
    /\ UNCHANGED <<heard, excess>>
    /\ in_frame => UNCHANGED <<passed, leaked>>
    /\ ~in_frame => Passes(Count("console"), Count("frame"))

Closes(byte) ==
    /\ byte[1] = "eof" /\ ~escape_next
    /\ buffer' = <<>> /\ ~escape_next' /\ ~in_frame'
    /\ UNCHANGED <<passed, leaked, excess>>
    /\ \/ heard' = heard + 1 /\ Frames!Text(buffer) \in Bodies
       \/ heard' = heard /\ Frames!Text(buffer) \notin Bodies

\* There is no fifth way.
LEMMA Outcomes ==
    ASSUME StreamTypes, NEW byte \in Bytes, Frames!Process(byte)
    PROVE  Keeps(byte) \/ Spills(byte) \/ Opens(byte) \/ Closes(byte)
<1>1. buffer \in Seq(Bytes) /\ excess \in Nat /\ heard \in Nat /\ passed \in Nat /\ leaked \in Nat
  BY DEF StreamTypes
<1>2. escape_next \in BOOLEAN /\ in_frame \in BOOLEAN
  BY DEF StreamTypes
<1>3. byte[1] \in {"sof", "eof", "dle", "text"}
  BY DEF Bytes, Frames!Characters, Frames!Special
<1>4. MAX_FRAME_BUFFER_SIZE \in Nat
  BY ConsoleAssumption DEF ConsoleAssumption
<1>5. Len(buffer) \in Nat /\ Len(Append(buffer, byte)) = Len(buffer) + 1
  BY <1>1
<1>6. CASE Frames!Store(byte) /\ (byte[1] # "text" => escape_next)
  <2> DEFINE bytes == Append(buffer, byte)
  <2>1. CASE Len(bytes) >= MAX_FRAME_BUFFER_SIZE
    <3>1. Frames!Empty(bytes, FALSE)
      BY <1>6, <2>1 DEF Frames!Store
    <3>2. /\ buffer' = <<>> /\ ~escape_next' /\ ~in_frame' /\ UNCHANGED <<heard, excess>>
          /\ in_frame => UNCHANGED <<passed, leaked>>
          /\ ~in_frame => Frames!PassOn(bytes)
      BY <3>1 DEF Frames!Empty, Frames!Clear
    <3>3. /\ Frames!From("console", bytes) = Count("console") + (IF byte[2] = "console" THEN 1 ELSE 0)
          /\ Frames!From("frame", bytes) = Count("frame") + (IF byte[2] = "frame" THEN 1 ELSE 0)
      BY <1>1, CountedAppend DEF Count
    <3>4. Frames!PassOn(bytes) => Passes(Frames!From("console", bytes), Frames!From("frame", bytes))
      BY DEF Frames!PassOn, Passes
    <3>5. Len(buffer) + 1 >= MAX_FRAME_BUFFER_SIZE
      BY <1>5, <2>1
    <3> QED
      BY <1>6, <3>2, <3>3, <3>4, <3>5 DEF Spills
  <2>2. CASE ~(Len(bytes) >= MAX_FRAME_BUFFER_SIZE)
    <3>1. buffer' = bytes /\ ~escape_next' /\ UNCHANGED <<in_frame, passed, leaked, heard, excess>>
      BY <1>6, <2>2 DEF Frames!Store
    <3>2. Len(buffer) + 1 < MAX_FRAME_BUFFER_SIZE /\ ~(Len(buffer) + 1 >= MAX_FRAME_BUFFER_SIZE)
      BY <1>4, <1>5, <2>2
    <3>3. excess' \in Nat /\ excess' >= excess
      BY <1>1, <3>1
    <3> QED
      BY <1>3, <1>6, <3>1, <3>2, <3>3 DEF Keeps
  <2> QED
    BY <2>1, <2>2
<1>7. CASE Frames!StoreEscape(byte) /\ byte[1] = "dle" /\ ~escape_next
  <2>1. /\ buffer' = Append(buffer, byte) /\ escape_next' = in_frame
        /\ excess' = excess + (IF Len(buffer') >= MAX_FRAME_BUFFER_SIZE THEN 1 ELSE 0)
        /\ UNCHANGED <<in_frame, passed, leaked, heard>>
    BY <1>7 DEF Frames!StoreEscape
  <2>2. /\ excess' \in Nat /\ excess' >= excess
        /\ Len(buffer) + 1 >= MAX_FRAME_BUFFER_SIZE => excess' = excess + 1
    BY <1>1, <1>5, <2>1
  <2> QED
    BY <1>7, <2>1, <2>2 DEF Keeps
<1>8. CASE Frames!Empty(buffer, TRUE) /\ byte[1] = "sof" /\ ~escape_next
  BY <1>8 DEF Frames!Empty, Frames!Clear, Frames!PassOn, Passes, Count, Opens
<1>9. CASE Frames!Parse /\ byte[1] = "eof" /\ ~escape_next
  <2>1. /\ buffer' = <<>> /\ ~escape_next' /\ ~in_frame' /\ UNCHANGED <<passed, leaked, excess>>
        /\ heard' = heard + (IF Frames!Text(buffer) \in Bodies THEN 1 ELSE 0)
    BY <1>9 DEF Frames!Parse, Frames!Clear
  <2>2. CASE Frames!Text(buffer) \in Bodies
    <3>1. heard' = heard + 1
      BY <2>1, <2>2
    <3> QED
      BY <1>9, <2>1, <2>2, <3>1 DEF Closes
  <2>3. CASE Frames!Text(buffer) \notin Bodies
    <3>1. heard' = heard
      BY <1>1, <2>1, <2>3
    <3> QED
      BY <1>9, <2>1, <2>3, <3>1 DEF Closes
  <2> QED
    BY <2>2, <2>3
<1>10. CASE escape_next
  <2>1. Frames!Store(byte)
    BY <1>10 DEF Frames!Process
  <2> QED
    BY <1>6, <1>10, <2>1
<1>11. CASE ~escape_next
  <2>1. /\ byte[1] = "dle" => Frames!StoreEscape(byte)
        /\ byte[1] = "sof" => Frames!Empty(buffer, TRUE)
        /\ byte[1] = "eof" => Frames!Parse
        /\ byte[1] = "text" => Frames!Store(byte)
    BY <1>11 DEF Frames!Process
  <2> QED
    BY <1>3, <1>6, <1>7, <1>8, <1>9, <1>11, <2>1
<1> QED
  BY <1>10, <1>11
-----------------------------------------------------------------------------
(* The filter in step with a frame.                                        *)

\* Which characters of a content follow an escape.
Esc(b) == CHOOSE e \in [0 .. Len(b) -> BOOLEAN] : Escapes(b, e)

\* The buffer holds the characters after the q-th to the i-th of a content.
Window(b, q, i) ==
    /\ Len(buffer) = i - q
    /\ \A x \in 1 .. i - q : buffer[x][1] = b[q + x]

InContent(b, i) ==
    /\ in_frame
    /\ Window(b, 0, i)
    /\ escape_next <=> Esc(b)[i]
    /\ Count("console") = 0

\* The filter follows a frame of which j characters were sent, or will from its next SOF on.
Aligned(b, j) ==
    /\ j < SOF_LEN /\ escape_next => j + 1 < SOF_LEN
    /\ j >= SOF_LEN /\ j <= SOF_LEN + Len(b) => InContent(b, j - SOF_LEN)
    /\ j > SOF_LEN + Len(b) => buffer = <<>> /\ ~in_frame /\ ~escape_next

\* Esc marks the characters of a content that follow an escape.
LEMMA EscIs ==
    ASSUME NEW b \in Bodies
    PROVE  /\ ~Esc(b)[0] /\ ~Esc(b)[Len(b)]
           /\ \A i \in 1 .. Len(b) :
                 /\ Esc(b)[i] <=> b[i] = "dle" /\ ~Esc(b)[i - 1]
                 /\ b[i] \in {"sof", "eof"} => Esc(b)[i - 1]
<1>1. \E e \in [0 .. Len(b) -> BOOLEAN] : Escapes(b, e)
  BY ConsoleAssumption DEF ConsoleAssumption
<1>2. Escapes(b, Esc(b))
  BY <1>1 DEF Esc
<1>3. DOMAIN b = 1 .. Len(b)
  BY BodyTypes
<1> QED
  BY <1>2, <1>3 DEF Escapes

\* The buffer's text is a content if the characters are the same.
LEMMA BufferText ==
    ASSUME StreamTypes, NEW c \in Bodies
    PROVE  (Frames!Text(buffer) = c)
              <=> (Len(buffer) = Len(c) /\ \A x \in 1 .. Len(c) : buffer[x][1] = c[x])
<1> DEFINE t == Frames!Text(buffer)
<1>1. buffer \in Seq(Bytes) /\ Len(buffer) \in Nat /\ DOMAIN buffer = 1 .. Len(buffer)
  BY DEF StreamTypes
<1>2. t = [x \in 1 .. Len(buffer) |-> buffer[x][1]]
  BY <1>1 DEF Frames!Text
<1>3. \A x \in 1 .. Len(buffer) : buffer[x][1] \in Frames!Characters
  BY <1>1 DEF Bytes
<1>4. t \in Seq(Frames!Characters) /\ Len(t) = Len(buffer)
      /\ \A x \in 1 .. Len(buffer) : t[x] = buffer[x][1]
  BY <1>1, <1>2, <1>3
<1>5. c \in Seq(Frames!Characters) /\ Len(c) \in Nat
  BY BodyTypes
<1> HIDE DEF t
<1>6. ASSUME t = c PROVE Len(buffer) = Len(c) /\ \A x \in 1 .. Len(c) : buffer[x][1] = c[x]
  BY <1>4, <1>6
<1>7. ASSUME Len(buffer) = Len(c), \A x \in 1 .. Len(c) : buffer[x][1] = c[x] PROVE t = c
  BY <1>4, <1>5, <1>7, SeqEqual
<1> QED
  BY <1>6, <1>7 DEF t

\* A content takes two characters, one of which is an SOF or EOF.
LEMMA BodiesKept ==
    ASSUME StreamTypes, Frames!Text(buffer) \in Bodies
    PROVE  /\ Len(buffer) >= 2
           /\ \E x \in 1 .. Len(buffer) : buffer[x][1] \in {"sof", "eof"}
<1> DEFINE c == Frames!Text(buffer)
<1> HIDE DEF c
<1>1. c \in Bodies
  BY DEF c
<1>2. Len(buffer) = Len(c) /\ \A x \in 1 .. Len(c) : buffer[x][1] = c[x]
  BY <1>1, BufferText DEF c
<1>3. Len(c) \in Nat /\ DOMAIN c = 1 .. Len(c)
  BY <1>1, BodyTypes
<1>4. PICK i \in 1 .. Len(c) : c[i] \in {"sof", "eof"}
  BY <1>1, <1>3, ConsoleAssumption DEF ConsoleAssumption
<1>5. Esc(c)[i - 1] /\ ~Esc(c)[0]
  BY <1>1, <1>4, EscIs
<1>6. i # 1
  BY <1>5
<1> QED
  BY <1>2, <1>3, <1>4, <1>6

\* A part of a content is none.
LEMMA PartsDiffer ==
    ASSUME StreamTypes, NEW b \in Bodies, NEW q \in 0 .. Len(b), NEW i \in q .. Len(b),
           i - q # Len(b), Window(b, q, i)
    PROVE  Frames!Text(buffer) \notin Bodies
<1> SUFFICES ASSUME NEW c \in Bodies, Frames!Text(buffer) = c PROVE FALSE
  OBVIOUS
<1>1. Len(b) \in Nat /\ Len(c) \in Nat /\ DOMAIN c = 1 .. Len(c)
  BY BodyTypes
<1>2. Len(buffer) = Len(c) /\ \A x \in 1 .. Len(c) : buffer[x][1] = c[x]
  BY BufferText
<1>3. Len(c) = i - q /\ q \in 0 .. Len(b) - Len(c)
  BY <1>1, <1>2 DEF Window
<1>4. \A x \in DOMAIN c : c[x] = b[q + x]
  BY <1>1, <1>2, <1>3 DEF Window
<1>5. Len(c) = Len(b)
  BY <1>3, <1>4, ConsoleAssumption DEF ConsoleAssumption
<1> QED
  BY <1>3, <1>5

\* One more character in the buffer.
LEMMA WindowGrows ==
    ASSUME StreamTypes, NEW b \in Bodies, NEW q \in 0 .. Len(b), NEW i \in q .. Len(b),
           Window(b, q, i), i < Len(b), NEW o \in {"console", "frame"},
           buffer' = Append(buffer, <<b[i + 1], o>>)
    PROVE  Window(b, q, i + 1)'
<1>1. buffer \in Seq(Bytes) /\ Len(buffer) \in Nat /\ Len(b) \in Nat
  BY BodyTypes DEF StreamTypes
<1>2. <<b[i + 1], o>> \in Bytes
  BY <1>1, BodyTypes DEF Bytes
<1> DEFINE z == <<b[i + 1], o>>
<1>3. z[1] = b[i + 1]
  OBVIOUS
<1> HIDE DEF z
<1>4. /\ Len(buffer') = Len(buffer) + 1
      /\ buffer'[Len(buffer) + 1] = z
      /\ \A x \in 1 .. Len(buffer) : buffer'[x] = buffer[x]
  BY <1>1, <1>2, CountedAppend DEF z
<1>5. Len(buffer') = i + 1 - q
  BY <1>1, <1>4 DEF Window
<1>6. ASSUME NEW x \in 1 .. i + 1 - q PROVE buffer'[x][1] = b[q + x]
  <2>1. CASE x = i + 1 - q
    <3>1. x = Len(buffer) + 1 /\ q + x = i + 1
      BY <1>1, <2>1 DEF Window
    <3> QED
      BY <1>3, <1>4, <3>1
  <2>2. CASE x # i + 1 - q
    <3>1. x \in 1 .. i - q /\ x \in 1 .. Len(buffer)
      BY <1>1, <2>2 DEF Window
    <3> QED
      BY <1>4, <3>1 DEF Window
  <2> QED
    BY <2>1, <2>2
<1> QED
  BY <1>5, <1>6 DEF Window

\* Being in step within the content is what InContent says.
LEMMA AlignedContent ==
    ASSUME NEW b, NEW j \in Nat, ~(j < SOF_LEN), ~(j > SOF_LEN + Len(b)),
           InContent(b, j - SOF_LEN)'
    PROVE  Aligned(b, j)'
  BY Zenon DEF Aligned

\* A frame's next character leaves the filter in step with the frame; the first EOF, and only
\* that one, has it heard.
LEMMA AlignedByte ==
    ASSUME StreamTypes, NEW b \in Bodies, NEW j \in 0 .. FrameLen(b) - 1, Aligned(b, j),
           Frames!Process(<<Char(b, j + 1), "frame">>), NEW k, k = j + 1
    PROVE  /\ Aligned(b, k)'
           /\ j = SOF_LEN + Len(b) => heard' = heard + 1
           /\ j # SOF_LEN + Len(b) => heard' = heard
<1> DEFINE z == <<Char(b, j + 1), "frame">>
<1>1. /\ SOF_LEN \in Nat /\ SOF_LEN >= 2 /\ MAX_FRAME_BUFFER_SIZE \in Nat
      /\ Len(b) \in Nat /\ FrameLen(b) \in Nat /\ FrameLen(b) > SOF_LEN + Len(b)
      /\ Len(b) < MAX_FRAME_BUFFER_SIZE
  BY BodyTypes, ConsoleAssumption DEF ConsoleAssumption
<1>2. z \in Bytes
  BY <1>1, CharTypes DEF Bytes
<1>3. z[1] = Char(b, j + 1) /\ z[2] = "frame"
  OBVIOUS
<1>4. Frames!Process(z)
  OBVIOUS
<1> HIDE DEF z
<1>5. Keeps(z) \/ Spills(z) \/ Opens(z) \/ Closes(z)
  BY <1>2, <1>4, Outcomes
<1>6. CASE j < SOF_LEN
  <2>1. z[1] = "sof"
    BY <1>1, <1>3, <1>6 DEF Char
  <2>2. ~escape_next' /\ heard' = heard
    BY <1>5, <2>1 DEF Keeps, Spills, Opens, Closes
  <2>3. CASE j + 1 < SOF_LEN
    <3>1. ~(j + 1 >= SOF_LEN /\ j + 1 <= SOF_LEN + Len(b)) /\ ~(j + 1 > SOF_LEN + Len(b))
      BY <1>1, <2>3
    <3> QED
      BY <1>1, <1>6, <2>2, <3>1 DEF Aligned
  <2>4. CASE j + 1 = SOF_LEN
    <3>1. ~escape_next
      BY <1>1, <1>6, <2>4 DEF Aligned
    <3>2. Opens(z)
      BY <1>5, <2>1, <3>1 DEF Keeps, Spills, Closes
    <3>3. buffer' = <<>> /\ in_frame'
      BY <3>2 DEF Opens
    <3>4. Count("console")' = 0
      BY <3>3, CountedEmpty DEF Count
    <3>5. Window(b, 0, 0)'
      BY <3>3 DEF Window
    <3>6. InContent(b, 0)'
      BY <2>2, <3>3, <3>4, <3>5, EscIs DEF InContent
    <3>7. ~(j + 1 < SOF_LEN) /\ j + 1 - SOF_LEN = 0 /\ ~(j + 1 > SOF_LEN + Len(b))
      BY <1>1, <2>4
    <3>9. InContent(b, j + 1 - SOF_LEN)'
      BY <3>6, <3>7, Zenon
    <3>8. Aligned(b, k)'
      BY <1>1, <3>7, <3>9, AlignedContent
    <3> QED
      BY <1>1, <1>6, <2>2, <3>8
  <2> QED
    BY <1>1, <1>6, <2>3, <2>4
<1>7. CASE j >= SOF_LEN /\ j < SOF_LEN + Len(b)
  <2> DEFINE i == j - SOF_LEN
  <2>1. i \in 0 .. Len(b) /\ i < Len(b) /\ i + 1 \in 1 .. Len(b)
    BY <1>1, <1>7
  <2>2. InContent(b, i)
    BY <1>1, <1>7 DEF Aligned
  <2>3. z[1] = b[i + 1]
    BY <1>1, <1>3, <1>7 DEF Char
  <2>a. j + 1 - SOF_LEN = i + 1 /\ (i + 1) - 1 = i
    BY <1>1, <2>1
  <2> HIDE DEF i
  <2>4. /\ Esc(b)[i + 1] <=> b[i + 1] = "dle" /\ ~Esc(b)[i]
        /\ b[i + 1] \in {"sof", "eof"} => Esc(b)[i]
    BY <2>1, <2>a, EscIs
  <2>5. escape_next <=> Esc(b)[i]
    BY <2>2 DEF InContent
  <2>6. ~Spills(z)
    <3>1. Len(buffer) = i
      BY <2>1, <2>2 DEF InContent, Window
    <3> QED
      BY <1>1, <2>1, <3>1 DEF Spills
  <2>7. Keeps(z)
    BY <1>5, <2>3, <2>4, <2>5, <2>6 DEF Opens, Closes
  <2>8. Window(b, 0, i + 1)'
    <3>1. Window(b, 0, i) /\ i \in 0 .. Len(b) /\ 0 \in 0 .. Len(b)
      BY <1>1, <2>1, <2>2 DEF InContent
    <3>2. buffer' = Append(buffer, <<b[i + 1], "frame">>)
      BY <2>3, <2>7, <1>3 DEF Keeps, z
    <3> QED
      BY <2>1, <3>1, <3>2, WindowGrows
  <2>9. Count("console")' = 0
    <3>1. buffer \in Seq(Bytes) /\ buffer' = Append(buffer, z)
      BY <2>7 DEF Keeps, StreamTypes
    <3>2. Frames!From("console", Append(buffer, z)) = Frames!From("console", buffer) + 0
      BY <1>2, <1>3, <3>1, CountedAppend
    <3> QED
      BY <2>2, <3>1, <3>2 DEF InContent, Count
  <2>10. in_frame' /\ (escape_next' <=> Esc(b)[i + 1]) /\ heard' = heard
    BY <2>2, <2>3, <2>4, <2>5, <2>7 DEF Keeps, InContent
  <2>11. InContent(b, i + 1)'
    BY <2>8, <2>9, <2>10 DEF InContent
  <2>12. ~(j + 1 < SOF_LEN) /\ ~(j + 1 > SOF_LEN + Len(b)) /\ j # SOF_LEN + Len(b)
    BY <1>1, <1>7
  <2>13. InContent(b, j + 1 - SOF_LEN)'
    BY <2>a, <2>11, Zenon
  <2>14. Aligned(b, k)'
    BY <1>1, <2>12, <2>13, AlignedContent
  <2> QED
    BY <2>10, <2>12, <2>14
<1>8. CASE j >= SOF_LEN + Len(b)
  <2>1. z[1] = "eof"
    BY <1>1, <1>3, <1>8 DEF Char
  <2>2. CASE j = SOF_LEN + Len(b)
    <3>1. InContent(b, Len(b))
      <4>1. j >= SOF_LEN /\ j <= SOF_LEN + Len(b) /\ j - SOF_LEN = Len(b)
        BY <1>1, <2>2
      <4> QED
        BY <4>1 DEF Aligned
    <3>2. ~escape_next
      BY <3>1, EscIs DEF InContent
    <3>3. Closes(z)
      BY <1>5, <2>1, <3>2 DEF Keeps, Spills, Opens
    <3>4. Frames!Text(buffer) = b
      <4>1. Len(buffer) = Len(b) /\ \A x \in 1 .. Len(b) : buffer[x][1] = b[x]
        BY <1>1, <3>1, BodyTypes DEF InContent, Window
      <4> QED
        BY <4>1, BufferText
    <3>5. heard' = heard + 1 /\ buffer' = <<>> /\ ~in_frame' /\ ~escape_next'
      BY <3>3, <3>4 DEF Closes
    <3>6. ~(j + 1 < SOF_LEN) /\ ~(j + 1 <= SOF_LEN + Len(b))
      BY <1>1, <2>2
    <3> QED
      BY <2>2, <3>5, <3>6 DEF Aligned
  <2>3. CASE j > SOF_LEN + Len(b)
    <3>1. buffer = <<>> /\ ~in_frame /\ ~escape_next
      BY <2>3 DEF Aligned
    <3>2. Closes(z)
      BY <1>5, <2>1, <3>1 DEF Keeps, Spills, Opens
    <3>3. Frames!Text(buffer) \notin Bodies
      <4>1. Len(buffer) = 0
        BY <3>1
      <4> QED
        BY <4>1, BodiesKept
    <3>4. heard' = heard /\ buffer' = <<>> /\ ~in_frame' /\ ~escape_next'
      BY <3>2, <3>3 DEF Closes
    <3>5. ~(j + 1 < SOF_LEN) /\ ~(j + 1 <= SOF_LEN + Len(b)) /\ j # SOF_LEN + Len(b)
      BY <1>1, <2>3
    <3> QED
      BY <3>4, <3>5 DEF Aligned
  <2> QED
    BY <1>1, <1>8, <2>2, <2>3
<1> QED
  BY <1>1, <1>6, <1>7, <1>8
-----------------------------------------------------------------------------
(* What the user loses.                                                    *)

Waiting == Count("console")
Missing == Frames!Lost

\* What the disturbances so far may have cost.
Budget == noise * (MAX_FRAME_BUFFER_SIZE + 1) + excess

\* What is left of it while the filter is in step, or will be from the next SOF on: what waits
\* outside of a frame may be lost to one EOF.
SmallLoss(j) ==
    /\ Missing <= Budget
    /\ ~in_frame => Missing + Len(buffer) <= Budget + MAX_FRAME_BUFFER_SIZE
    /\ ~in_frame /\ 0 < j /\ j < SOF_LEN => Missing + Waiting <= Budget

\* What is left of it while a frame passes that the filter takes for something else: it may end in
\* the belief that a frame is open, and fill a buffer.
LargeLoss(j) ==
    /\ Missing + MAX_FRAME_BUFFER_SIZE <= Budget
    /\ ~in_frame => Missing + Len(buffer) <= Budget
    /\ ~in_frame /\ j >= SOF_LEN => Missing + MAX_FRAME_BUFFER_SIZE + Waiting <= Budget

IdleLoss ==
    /\ Missing <= Budget
    /\ in_frame => /\ Missing + 1 <= Budget
                   /\ Missing + MAX_FRAME_BUFFER_SIZE <= Budget + Len(buffer)
    /\ ~in_frame => Missing + Len(buffer) <= Budget + MAX_FRAME_BUFFER_SIZE

LossAt(b, j) == (Aligned(b, j) /\ SmallLoss(j)) \/ LargeLoss(j)

User(byte) == IF byte[2] = "console" THEN 1 ELSE 0

\* What is lost is what was typed and neither passed on nor waits outside of a frame.
LEMMA LostIs ==
    ASSUME StreamTypes
    PROVE  /\ Waiting \in Nat /\ Waiting <= Len(buffer) /\ Len(buffer) \in Nat
           /\ in_frame => Missing = typed - passed
           /\ ~in_frame => Missing = typed - passed - Waiting
           /\ Missing \in Int /\ Budget \in Int
           /\ buffer = <<>> => Waiting = 0 /\ Len(buffer) = 0
<1>1. buffer \in Seq(Bytes) /\ typed \in Nat /\ passed \in Nat /\ noise \in Nat /\ excess \in Nat
  BY DEF StreamTypes
<1>2. Waiting \in Nat /\ Waiting <= Len(buffer) /\ Len(buffer) \in Nat
  <2>1. Frames!From("console", buffer) \in Nat /\ Frames!From("console", buffer) <= Len(buffer)
    BY <1>1, Counted1
  <2> QED
    BY <1>1, <2>1 DEF Waiting, Count
<1>3. in_frame => Frames!Pending = 0
  BY DEF Frames!Pending
<1>4. ~in_frame => Frames!Pending = Waiting
  BY DEF Frames!Pending, Waiting, Count
<1>5. Frames!Pending \in Nat
  BY <1>2, <1>3, <1>4
<1>6. Missing = typed - passed - Frames!Pending
  BY DEF Missing, Frames!Lost
<1>7. /\ in_frame => Missing = typed - passed
      /\ ~in_frame => Missing = typed - passed - Waiting
      /\ Missing \in Int
  <2>1. CASE in_frame
    BY <1>1, <1>3, <1>6, <2>1
  <2>2. CASE ~in_frame
    BY <1>1, <1>2, <1>4, <1>6, <2>2
  <2> QED
    BY <2>1, <2>2
<1>8. Budget \in Int
  <2>1. MAX_FRAME_BUFFER_SIZE \in Nat
    BY ConsoleAssumption DEF ConsoleAssumption
  <2> QED
    BY <1>1, <2>1 DEF Budget
<1>9. buffer = <<>> => Waiting = 0 /\ Len(buffer) = 0
  BY CountedEmpty DEF Waiting, Count
<1> QED
  BY <1>2, <1>7, <1>8, <1>9

\* Nothing waits in an empty buffer.
LEMMA Emptied ==
    ASSUME buffer' = <<>>
    PROVE  Len(buffer)' = 0 /\ Waiting' = 0 /\ Count("frame")' = 0
  BY CountedEmpty DEF Waiting, Count

\* A disturbance adds a buffer and a character to the budget.
LEMMA BudgetGrows ==
    ASSUME StreamTypes, StreamTypes'
    PROVE  /\ noise' = noise /\ excess' >= excess => Budget' >= Budget
           /\ noise' = noise /\ excess' = excess + 1 => Budget' = Budget + 1
           /\ noise' = noise + 1 /\ excess' >= excess
                 => Budget' >= Budget + MAX_FRAME_BUFFER_SIZE + 1
           /\ Budget' \in Int
<1>1. ASSUME NEW M \in Nat, NEW n \in Nat, NEW m \in Nat, NEW e \in Nat, NEW f \in Nat
      PROVE  /\ m = n /\ f >= e => m * M + f >= n * M + e
             /\ m = n /\ f = e + 1 => m * M + f = n * M + e + 1
             /\ m = n + 1 /\ f >= e => m * M + f >= n * M + e + M
             /\ m * M + f \in Int /\ n * M + e \in Int
  <2>1. n * M \in Int /\ m * M \in Int
    OBVIOUS
  <2>2. m = n + 1 => m * M = n * M + M
    OBVIOUS
  <2> DEFINE x == n * M
             y == m * M
  <2>3. x \in Int /\ y \in Int /\ (m = n => y = x) /\ (m = n + 1 => y = x + M)
    BY <2>1, <2>2
  <2> HIDE DEF x, y
  <2>4. /\ m = n /\ f >= e => y + f >= x + e
        /\ m = n /\ f = e + 1 => y + f = x + e + 1
        /\ m = n + 1 /\ f >= e => y + f >= x + e + M
        /\ y + f \in Int /\ x + e \in Int
    BY <2>3
  <2> QED
    BY <2>4 DEF x, y
<1>2. noise \in Nat /\ excess \in Nat /\ noise' \in Nat /\ excess' \in Nat
  BY DEF StreamTypes
<1>3. MAX_FRAME_BUFFER_SIZE \in Nat /\ MAX_FRAME_BUFFER_SIZE + 1 \in Nat
  BY ConsoleAssumption DEF ConsoleAssumption
<1>4. Budget = noise * (MAX_FRAME_BUFFER_SIZE + 1) + excess
      /\ Budget' = noise' * (MAX_FRAME_BUFFER_SIZE + 1) + excess'
  BY DEF Budget
<1> DEFINE M == MAX_FRAME_BUFFER_SIZE + 1
<1>5. M \in Nat
  BY <1>3
<1>6. Budget = noise * M + excess /\ Budget' = noise' * M + excess'
  BY <1>4
<1> HIDE DEF M
<1>7. /\ noise' = noise /\ excess' >= excess => noise' * M + excess' >= noise * M + excess
      /\ noise' = noise /\ excess' = excess + 1 => noise' * M + excess' = noise * M + excess + 1
      /\ noise' = noise + 1 /\ excess' >= excess => noise' * M + excess' >= noise * M + excess + M
      /\ noise' * M + excess' \in Int /\ noise * M + excess \in Int
  BY <1>1, <1>2, <1>5, Zenon
<1>8. /\ noise' = noise /\ excess' >= excess => Budget' >= Budget
      /\ noise' = noise /\ excess' = excess + 1 => Budget' = Budget + 1
      /\ noise' = noise + 1 /\ excess' >= excess => Budget' >= Budget + M
      /\ Budget' \in Int /\ Budget \in Int
  BY ONLY <1>6, <1>7
<1>9. Budget + M = Budget + MAX_FRAME_BUFFER_SIZE + 1
  BY <1>3, <1>8 DEF M
<1> QED
  BY <1>8, <1>9

\* What each outcome does to the losses.
LEMMA Moves ==
    ASSUME StreamTypes, StreamTypes', NEW byte \in Bytes, NEW u, u = User(byte),
           typed' = typed + u
    PROVE  /\ Keeps(byte) => /\ Len(buffer)' = Len(buffer) + 1
                             /\ Waiting' = Waiting + u
                             /\ in_frame => Missing' = Missing + u
                             /\ ~in_frame => Missing' = Missing
           /\ Spills(byte) => /\ in_frame => Missing' = Missing + u
                              /\ ~in_frame => Missing' = Missing
           /\ Opens(byte) => Missing' = Missing + u
           /\ Closes(byte) => /\ in_frame => Missing' = Missing + u
                              /\ ~in_frame => Missing' = Missing + Waiting + u
<1>1. u \in {0, 1}
  BY DEF User
<1>2. /\ buffer \in Seq(Bytes) /\ typed \in Nat /\ passed \in Nat
      /\ typed' \in Nat /\ passed' \in Nat
  BY DEF StreamTypes
<1>3. /\ Waiting \in Nat /\ Len(buffer) \in Nat
      /\ in_frame => Missing = typed - passed
      /\ ~in_frame => Missing = typed - passed - Waiting
  BY LostIs
<1>4. /\ in_frame' => Missing' = typed' - passed'
      /\ ~in_frame' => Missing' = typed' - passed' - Waiting'
  <2>1. in_frame' => Frames!Pending' = 0
    BY DEF Frames!Pending
  <2>2. ~in_frame' => Frames!Pending' = Waiting'
    BY DEF Frames!Pending, Waiting, Count
  <2>3. Missing' = typed' - passed' - Frames!Pending'
    BY DEF Missing, Frames!Lost
  <2> QED
    BY <1>2, <2>1, <2>2, <2>3
<1>5. typed' = typed + u
  OBVIOUS
<1>6. ASSUME Keeps(byte)
      PROVE  /\ Len(buffer)' = Len(buffer) + 1
             /\ Waiting' = Waiting + u
             /\ in_frame => Missing' = Missing + u
             /\ ~in_frame => Missing' = Missing
  <2>1. buffer' = Append(buffer, byte) /\ in_frame' = in_frame /\ passed' = passed
    BY <1>6 DEF Keeps
  <2>2. Len(buffer') = Len(buffer) + 1 /\ Waiting' = Waiting + u
    BY <1>2, <2>1, CountedAppend DEF Waiting, Count, User
  <2>3. ASSUME in_frame PROVE Missing' = Missing + u
    <3>1. Missing = typed - passed /\ Missing' = typed' - passed'
      BY <1>3, <1>4, <2>1, <2>3
    <3> QED
      BY <1>1, <1>2, <1>5, <2>1, <3>1
  <2>4. ASSUME ~in_frame PROVE Missing' = Missing
    <3>1. Missing = typed - passed - Waiting /\ Missing' = typed' - passed' - Waiting'
      BY <1>3, <1>4, <2>1, <2>4
    <3> QED
      BY <1>1, <1>2, <1>3, <1>5, <2>1, <2>2, <3>1
  <2> QED
    BY <2>2, <2>3, <2>4
<1>7. ASSUME Spills(byte)
      PROVE  /\ in_frame => Missing' = Missing + u
             /\ ~in_frame => Missing' = Missing
  <2>1. Waiting' = 0
    BY <1>7, Emptied DEF Spills
  <2>2. Missing' = typed' - passed' - 0
    BY <1>4, <1>7, <2>1 DEF Spills
  <2>3. ASSUME in_frame PROVE Missing' = Missing + u
    <3>1. Missing = typed - passed /\ passed' = passed
      BY <1>3, <1>7, <2>3 DEF Spills
    <3> QED
      BY <1>1, <1>2, <1>5, <2>2, <3>1
  <2>4. ASSUME ~in_frame PROVE Missing' = Missing
    <3>1. Missing = typed - passed - Waiting /\ passed' = passed + (Waiting + u)
      BY <1>3, <1>7, <2>4 DEF Spills, Passes, Waiting, User
    <3> QED
      BY <1>1, <1>2, <1>3, <1>5, <2>2, <3>1
  <2> QED
    BY <2>3, <2>4
<1>8. ASSUME Opens(byte) PROVE Missing' = Missing + u
  <2>1. Missing' = typed' - passed'
    BY <1>4, <1>8 DEF Opens
  <2>2. CASE in_frame
    <3>1. Missing = typed - passed /\ passed' = passed
      BY <1>3, <1>8, <2>2 DEF Opens
    <3> QED
      BY <1>1, <1>2, <1>5, <2>1, <3>1
  <2>3. CASE ~in_frame
    <3>1. Missing = typed - passed - Waiting /\ passed' = passed + Waiting
      BY <1>3, <1>8, <2>3 DEF Opens, Passes, Waiting
    <3> QED
      BY <1>1, <1>2, <1>3, <1>5, <2>1, <3>1
  <2> QED
    BY <2>2, <2>3
<1>9. ASSUME Closes(byte)
      PROVE  /\ in_frame => Missing' = Missing + u
             /\ ~in_frame => Missing' = Missing + Waiting + u
  <2>1. Waiting' = 0 /\ passed' = passed
    BY <1>9, Emptied DEF Closes
  <2>2. Missing' = typed' - passed' - 0
    BY <1>4, <1>9, <2>1 DEF Closes
  <2>3. ASSUME in_frame PROVE Missing' = Missing + u
    <3>1. Missing = typed - passed
      BY <1>3, <2>3
    <3> QED
      BY <1>1, <1>2, <1>5, <2>1, <2>2, <3>1
  <2>4. ASSUME ~in_frame PROVE Missing' = Missing + Waiting + u
    <3>1. Missing = typed - passed - Waiting
      BY <1>3, <2>4
    <3> QED
      BY <1>1, <1>2, <1>3, <1>5, <2>1, <2>2, <3>1
  <2> QED
    BY <2>3, <2>4
<1> QED
  BY <1>6, <1>7, <1>8, <1>9

-----------------------------------------------------------------------------
(* What the filter keeps.                                                  *)

\* Outside of frames no escape is pending, and the buffer holds no SOF and no EOF.
FilterInv ==
    /\ escape_next => in_frame /\ buffer # <<>>
    /\ ~in_frame => \A i \in 1 .. Len(buffer) : buffer[i][1] \notin {"sof", "eof"}

FilterTypes ==
    /\ buffer \in Seq(Bytes)
    /\ {escape_next, in_frame} \subseteq BOOLEAN
    /\ {passed, heard, leaked, excess} \subseteq Nat

\* Emptying the buffer keeps the types.
LEMMA EmptyTypes ==
    ASSUME StreamTypes, NEW s \in Seq(Bytes), NEW in \in BOOLEAN, Frames!Empty(s, in)
    PROVE  FilterTypes'
<1>1. buffer' = <<>> /\ escape_next' = FALSE /\ in_frame' = in /\ heard' = heard /\ excess' = excess
  BY DEF Frames!Empty, Frames!Clear
<1>2. Frames!From("console", s) \in Nat /\ Frames!From("frame", s) \in Nat
  BY Counted1
<1>3. passed \in Nat /\ leaked \in Nat /\ heard \in Nat /\ excess \in Nat
  BY DEF StreamTypes
<1>4. passed' \in Nat /\ leaked' \in Nat
  BY <1>2, <1>3 DEF Frames!Empty, Frames!PassOn
<1>5. buffer' \in Seq(Bytes)
  BY <1>1
<1> QED
  BY <1>1, <1>3, <1>4, <1>5 DEF FilterTypes

\* Storing a byte keeps the types.
LEMMA StoreTypes ==
    ASSUME StreamTypes, NEW byte \in Bytes, Frames!Store(byte)
    PROVE  FilterTypes'
<1>1. Append(buffer, byte) \in Seq(Bytes)
  BY CountedAppend DEF StreamTypes
<1>2. CASE Frames!Empty(Append(buffer, byte), FALSE)
  BY <1>1, <1>2, EmptyTypes
<1>3. CASE /\ buffer' = Append(buffer, byte) /\ escape_next' = FALSE
           /\ UNCHANGED <<in_frame, passed, leaked, heard, excess>>
  BY <1>1, <1>3 DEF FilterTypes, StreamTypes
<1> QED
  BY <1>2, <1>3 DEF Frames!Store

\* The filter keeps the types.
LEMMA ProcessTypes ==
    ASSUME StreamTypes, NEW byte \in Bytes, Frames!Process(byte)
    PROVE  FilterTypes'
<1>1. CASE Frames!Store(byte)
  BY <1>1, StoreTypes
<1>2. CASE Frames!StoreEscape(byte)
  <2>1. /\ buffer' = Append(buffer, byte) /\ escape_next' = in_frame
        /\ excess' = excess + (IF Len(buffer') >= MAX_FRAME_BUFFER_SIZE THEN 1 ELSE 0)
        /\ UNCHANGED <<in_frame, passed, leaked, heard>>
    BY <1>2 DEF Frames!StoreEscape
  <2>2. excess' \in Nat
    BY <2>1 DEF StreamTypes
  <2>3. buffer' \in Seq(Bytes)
    BY <2>1, CountedAppend DEF StreamTypes
  <2> QED
    BY <2>1, <2>2, <2>3 DEF FilterTypes, StreamTypes
<1>3. CASE Frames!Empty(buffer, TRUE)
  BY <1>3, EmptyTypes DEF StreamTypes
<1>4. CASE Frames!Parse
  <2>1. /\ buffer' = <<>> /\ escape_next' = FALSE /\ in_frame' = FALSE
        /\ UNCHANGED <<passed, leaked, excess>>
        /\ heard' = heard + (IF Frames!Text(buffer) \in Bodies THEN 1 ELSE 0)
    BY <1>4 DEF Frames!Parse, Frames!Clear
  <2>2. heard' \in Nat
    BY <2>1 DEF StreamTypes
  <2>3. buffer' \in Seq(Bytes)
    BY <2>1
  <2> QED
    BY <2>1, <2>2, <2>3 DEF FilterTypes, StreamTypes
<1>5. byte[1] \in {"sof", "eof", "dle", "text"}
  BY DEF Bytes, Frames!Characters, Frames!Special
<1>6. Frames!Store(byte) \/ Frames!StoreEscape(byte) \/ Frames!Empty(buffer, TRUE) \/ Frames!Parse
  BY <1>5 DEF Frames!Process
<1> QED
  BY <1>1, <1>2, <1>3, <1>4, <1>6

\* A cleared filter has no escape pending and nothing in its buffer.
LEMMA FilterCleared ==
    ASSUME buffer' = <<>>, ~escape_next'
    PROVE  FilterInv'
  BY DEF FilterInv

\* The filter keeps FilterInv.
LEMMA FilterKept ==
    ASSUME StreamTypes, FilterInv, NEW byte \in Bytes, Frames!Process(byte)
    PROVE  FilterInv'
<1>1. CASE Keeps(byte)
  <2>1. buffer \in Seq(Bytes) /\ Len(buffer) \in Nat
    BY DEF StreamTypes
  <2>2. /\ buffer' = Append(buffer, byte) /\ in_frame' = in_frame
        /\ byte[1] \in {"sof", "eof"} => escape_next
        /\ escape_next' => in_frame
    BY <1>1 DEF Keeps
  <2>3. Len(buffer') = Len(buffer) + 1 /\ buffer'[Len(buffer) + 1] = byte
        /\ \A i \in 1 .. Len(buffer) : buffer'[i] = buffer[i]
    BY <2>1, <2>2, CountedAppend
  <2>4. buffer' # <<>>
    BY <2>1, <2>3
  <2>5. ASSUME ~in_frame' PROVE \A i \in 1 .. Len(buffer') : buffer'[i][1] \notin {"sof", "eof"}
    <3>1. ~in_frame /\ ~escape_next
      BY <2>2, <2>5 DEF FilterInv
    <3>2. byte[1] \notin {"sof", "eof"}
      BY <2>2, <3>1
    <3>3. \A i \in 1 .. Len(buffer) : buffer[i][1] \notin {"sof", "eof"}
      BY <3>1 DEF FilterInv
    <3> QED
      BY <2>1, <2>3, <3>2, <3>3
  <2>6. escape_next' => in_frame' /\ buffer' # <<>>
    BY <2>2, <2>4
  <2> QED
    BY <2>5, <2>6 DEF FilterInv
<1>2. CASE Spills(byte) \/ Opens(byte) \/ Closes(byte)
  BY <1>2, FilterCleared DEF Spills, Opens, Closes
<1> QED
  BY <1>1, <1>2, Outcomes

-----------------------------------------------------------------------------
(* What is heard.                                                          *)

\* Nothing of the frame being sent will be heard any more: the filter holds only what follows an
\* SOF or EOF of its content, which it took for one of a frame.
Hopeless(b, j) ==
    \/ j >= SOF_LEN + Len(b) /\ Len(buffer) <= 1 /\ ~escape_next
    \/ \E q \in 2 .. Len(b) :
          /\ j \in SOF_LEN + q .. SOF_LEN + Len(b)
          /\ Window(b, q, j - SOF_LEN)
          /\ escape_next <=> in_frame /\ Esc(b)[j - SOF_LEN]

\* The first way to be hopeless, after a step.
LEMMA HopelessEnd ==
    ASSUME NEW b \in Bodies, NEW k, k >= SOF_LEN + Len(b), Len(buffer)' <= 1, ~escape_next'
    PROVE  Hopeless(b, k)'
  BY Zenon DEF Hopeless

\* The second way to be hopeless, after a step.
LEMMA HopelessWindow ==
    ASSUME NEW b \in Bodies, NEW k, NEW q \in 2 .. Len(b), NEW i \in q .. Len(b),
           k = SOF_LEN + i, Window(b, q, i)', escape_next' <=> in_frame' /\ Esc(b)[i]
    PROVE  Hopeless(b, k)'
<1>1. SOF_LEN \in Nat /\ Len(b) \in Nat
  BY BodyTypes, ConsoleAssumption DEF ConsoleAssumption
<1>2. k \in SOF_LEN + q .. SOF_LEN + Len(b) /\ k - SOF_LEN = i
  BY <1>1
<1>3. Window(b, q, k - SOF_LEN)' /\ (escape_next' <=> in_frame' /\ Esc(b)[k - SOF_LEN])
  BY <1>2, Zenon
<1>4. \E r \in 2 .. Len(b) :
         /\ k \in SOF_LEN + r .. SOF_LEN + Len(b)
         /\ Window(b, r, k - SOF_LEN)'
         /\ escape_next' <=> in_frame' /\ Esc(b)[k - SOF_LEN]
  BY <1>2, <1>3, Zenon
<1> QED
  BY <1>4, Zenon DEF Hopeless

\* The filter takes an SOF or EOF of the content for one of a frame.
LEMMA HopelessBegins ==
    ASSUME StreamTypes, NEW b \in Bodies, NEW i \in 1 .. Len(b), NEW k, k = SOF_LEN + i,
           b[i] \in {"sof", "eof"}, buffer' = <<>>, ~escape_next'
    PROVE  Hopeless(b, k)'
<1>1. Len(b) \in Nat
  BY BodyTypes
<1>2. ~Esc(b)[i] /\ Esc(b)[i - 1] /\ ~Esc(b)[0]
  BY EscIs
<1>3. i # 1
  BY <1>2
<1>4. i \in 2 .. Len(b) /\ i \in i .. Len(b)
  BY <1>1, <1>3
<1>5. Len(buffer)' = 0
  OBVIOUS
<1>6. Window(b, i, i)'
  BY <1>1, <1>5 DEF Window
<1>7. escape_next' <=> in_frame' /\ Esc(b)[i]
  BY <1>2
<1> QED
  BY <1>4, <1>6, <1>7, HopelessWindow

\* What is in the buffer then is no content.
LEMMA HopelessUnheard ==
    ASSUME StreamTypes, NEW b \in Bodies, NEW j \in Nat, Hopeless(b, j)
    PROVE  Frames!Text(buffer) \notin Bodies
<1>1. Len(b) \in Nat /\ SOF_LEN \in Nat
  BY BodyTypes, ConsoleAssumption DEF ConsoleAssumption
<1>2. CASE Len(buffer) <= 1
  <2>1. Len(buffer) \in Nat
    BY DEF StreamTypes
  <2> QED
    BY <1>2, <2>1, BodiesKept
<1>3. CASE \E q \in 2 .. Len(b) :
              j \in SOF_LEN + q .. SOF_LEN + Len(b) /\ Window(b, q, j - SOF_LEN)
  <2>1. PICK q \in 2 .. Len(b) :
              j \in SOF_LEN + q .. SOF_LEN + Len(b) /\ Window(b, q, j - SOF_LEN)
    BY <1>3
  <2>2. q \in 0 .. Len(b) /\ j - SOF_LEN \in q .. Len(b) /\ j - SOF_LEN - q # Len(b)
    BY <1>1, <2>1
  <2> QED
    BY <2>1, <2>2, PartsDiffer
<1> QED
  BY <1>2, <1>3 DEF Hopeless

\* It stays so until the frame ends.
LEMMA HopelessStays ==
    ASSUME StreamTypes, NEW b \in Bodies, NEW j \in 0 .. FrameLen(b) - 1, Hopeless(b, j),
           Frames!Process(<<Char(b, j + 1), "frame">>), NEW k, k = j + 1
    PROVE  Hopeless(b, k)' /\ heard' = heard /\ (k = FrameLen(b) => ~in_frame')
<1> DEFINE z == <<Char(b, j + 1), "frame">>
<1>1. /\ SOF_LEN \in Nat /\ SOF_LEN >= 2 /\ MAX_FRAME_BUFFER_SIZE \in Nat
      /\ Len(b) \in Nat /\ FrameLen(b) \in Nat /\ FrameLen(b) > SOF_LEN + Len(b)
      /\ Len(b) < MAX_FRAME_BUFFER_SIZE
  BY BodyTypes, ConsoleAssumption DEF ConsoleAssumption
<1>2. z \in Bytes
  BY <1>1, CharTypes DEF Bytes
<1>3. z[1] = Char(b, j + 1) /\ z[2] = "frame"
  OBVIOUS
<1>4. Frames!Process(z)
  OBVIOUS
<1> HIDE DEF z
<1>5. Keeps(z) \/ Spills(z) \/ Opens(z) \/ Closes(z)
  BY <1>2, <1>4, Outcomes
<1>6. heard' = heard
  BY <1>1, <1>5, HopelessUnheard DEF Keeps, Spills, Opens, Closes
<1>7. CASE j >= SOF_LEN + Len(b) /\ ~escape_next
  <2>1. z[1] = "eof"
    BY <1>1, <1>3, <1>7 DEF Char
  <2>2. Closes(z)
    BY <1>5, <1>7, <2>1 DEF Keeps, Spills, Opens
  <2>3. buffer' = <<>> /\ ~escape_next' /\ ~in_frame'
    BY <2>2 DEF Closes
  <2>4. Len(buffer)' <= 1
    BY <2>3
  <2>5. k >= SOF_LEN + Len(b)
    BY <1>1, <1>7
  <2> QED
    BY <1>6, <2>3, <2>4, <2>5, HopelessEnd
<1>8. CASE \E q \in 2 .. Len(b) :
          /\ j \in SOF_LEN + q .. SOF_LEN + Len(b)
          /\ Window(b, q, j - SOF_LEN)
          /\ escape_next <=> in_frame /\ Esc(b)[j - SOF_LEN]
  <2> DEFINE i == j - SOF_LEN
  <2>1. PICK q \in 2 .. Len(b) :
          /\ j \in SOF_LEN + q .. SOF_LEN + Len(b)
          /\ Window(b, q, i)
          /\ escape_next <=> in_frame /\ Esc(b)[i]
    BY <1>8
  <2>2. i \in q .. Len(b) /\ q \in 0 .. Len(b) /\ (i = Len(b) => j >= SOF_LEN + Len(b))
    BY <1>1, <2>1
  <2>3. CASE i = Len(b)
    <3>1. ~escape_next
      BY <2>1, <2>3, EscIs
    <3> QED
      BY <1>7, <2>2, <2>3, <3>1
  <2>4. CASE i # Len(b)
    <3>1. i + 1 \in 1 .. Len(b) /\ i + 1 \in q .. Len(b) /\ i < Len(b) /\ k = SOF_LEN + (i + 1)
          /\ (i + 1) - 1 = i /\ k # FrameLen(b)
      BY <1>1, <2>2, <2>4
    <3>2. z[1] = b[i + 1]
      BY <1>1, <1>3, <3>1 DEF Char
    <3>3. Window(b, q, i) /\ (escape_next <=> in_frame /\ Esc(b)[i])
      BY <2>1
    <3>a. Len(buffer) = i - q
      BY <3>3 DEF Window
    <3>b. b[i + 1] \in {"sof", "eof", "dle", "text"}
      BY <3>1, BodyTypes DEF Frames!Characters, Frames!Special
    <3>c. Esc(b)[i + 1] <=> b[i + 1] = "dle" /\ ~Esc(b)[i]
      BY <3>1, EscIs
    <3>d. Len(b) \in Nat /\ i \in Nat /\ q \in Nat
      BY <1>1, <2>2
    <3> HIDE DEF i
    <3>4. CASE Keeps(z)
      <4>1. buffer' = Append(buffer, <<b[i + 1], "frame">>)
        BY <1>3, <3>2, <3>4 DEF Keeps, z
      <4>2. Window(b, q, i + 1)'
        BY <2>2, <3>1, <3>3, <4>1, WindowGrows
      <4>3. escape_next' <=> in_frame' /\ Esc(b)[i + 1]
        BY <3>2, <3>3, <3>4, <3>c DEF Keeps
      <4>4. Hopeless(b, k)'
        BY <3>1, <4>2, <4>3, HopelessWindow
      <4> QED
        BY <1>6, <3>1, <4>4
    <3>5. CASE Spills(z)
      <4>1. Len(buffer) + 1 >= MAX_FRAME_BUFFER_SIZE
        BY <3>5 DEF Spills
      <4> QED
        BY <1>1, <2>1, <2>2, <3>a, <3>d, <4>1
    <3>6. CASE Opens(z) \/ Closes(z)
      <4>1. b[i + 1] \in {"sof", "eof"} /\ buffer' = <<>> /\ ~escape_next'
        BY <3>2, <3>6 DEF Opens, Closes
      <4>2. Hopeless(b, k)'
        BY <3>1, <4>1, HopelessBegins
      <4> QED
        BY <1>6, <3>1, <4>2
    <3> QED
      BY <1>5, <3>4, <3>5, <3>6
  <2> QED
    BY <2>3, <2>4
<1> QED
  BY <1>7, <1>8 DEF Hopeless

\* Disturbances pay for frames heard that were not whole: while the filter may hear one more of the
\* frame being sent, one disturbance is left for it.
HeardAt(b, j) ==
    /\ ~broken /\ j <= SOF_LEN + Len(b) => heard <= whole + noise
    /\ ~broken /\ j < SOF_LEN /\ in_frame /\ buffer # <<>> => heard + 1 <= whole + noise
    /\ ~broken /\ j > SOF_LEN + Len(b) => whole + 1 <= heard /\ heard <= whole + noise + 1
    /\ broken => heard <= whole + noise /\ (heard + 1 <= whole + noise \/ Hopeless(b, j))

IdleHeard ==
    /\ heard <= whole + noise
    /\ in_frame => heard + 1 <= whole + noise

\* The numbers that occur are natural, and a frame is longer than its SOFs and content.
LEMMA Sizes ==
    ASSUME NEW b \in Bodies
    PROVE  /\ SOF_LEN \in Nat /\ SOF_LEN >= 2
           /\ MAX_FRAME_BUFFER_SIZE \in Nat /\ MAX_FRAME_BUFFER_SIZE >= 1
           /\ Len(b) \in Nat /\ Len(b) < MAX_FRAME_BUFFER_SIZE
           /\ FrameLen(b) \in Nat /\ FrameLen(b) > SOF_LEN + Len(b)
  BY BodyTypes, ConsoleAssumption DEF ConsoleAssumption

\* The numbers HeardAt relates are natural.
LEMMA HeardTypes ==
    ASSUME StreamTypes
    PROVE  heard \in Nat /\ whole \in Nat /\ noise \in Nat /\ broken \in BOOLEAN
  BY DEF StreamTypes

\* HeardAt of a disturbed frame, after a step.
LEMMA HeardBroken ==
    ASSUME NEW b, NEW k, broken', heard' <= whole' + noise',
           heard' + 1 <= whole' + noise' \/ Hopeless(b, k)'
    PROVE  HeardAt(b, k)'
  BY Zenon DEF HeardAt

\* The next character of a disturbed frame.
LEMMA HeardBrokenByte ==
    ASSUME StreamTypes, StreamTypes', NEW b \in Bodies, NEW j \in 0 .. FrameLen(b) - 1,
           NEW k, k = j + 1,
           broken, HeardAt(b, j), Frames!Process(<<Char(b, j + 1), "frame">>),
           broken' = broken, noise' = noise, whole' = whole
    PROVE  /\ heard <= heard'
           /\ k # FrameLen(b) => HeardAt(b, k)'
           /\ k = FrameLen(b) => IdleHeard'
<1> DEFINE z == <<Char(b, j + 1), "frame">>
<1>1. z \in Bytes /\ j \in Nat /\ k \in Nat
  BY Sizes, CharTypes DEF Bytes
<1>2. z[1] = Char(b, j + 1) /\ z[2] = "frame"
  OBVIOUS
<1>3. Frames!Process(z)
  OBVIOUS
<1> HIDE DEF z
<1>4. Keeps(z) \/ Spills(z) \/ Opens(z) \/ Closes(z)
  BY <1>1, <1>3, Outcomes
<1>5. heard <= whole + noise /\ (heard + 1 <= whole + noise \/ Hopeless(b, j))
  BY DEF HeardAt
<1>6. /\ heard \in Nat /\ whole \in Nat /\ noise \in Nat
      /\ heard' \in Nat /\ whole' \in Nat /\ noise' \in Nat
  BY DEF StreamTypes
<1>7. heard' = heard \/ (heard' = heard + 1 /\ Closes(z))
  BY <1>4 DEF Keeps, Spills, Opens, Closes
<1>8. CASE Hopeless(b, j)
  <2>1. Hopeless(b, k)' /\ heard' = heard /\ (k = FrameLen(b) => ~in_frame')
    BY <1>8, HopelessStays
  <2>2. heard' <= whole' + noise' /\ heard <= heard'
    BY <1>5, <1>6, <2>1
  <2> QED
    BY <2>1, <2>2, HeardBroken DEF IdleHeard
<1>9. CASE ~Hopeless(b, j) /\ heard' = heard
  <2>1. heard' + 1 <= whole' + noise'
    BY <1>5, <1>9
  <2>2. heard' <= whole' + noise' /\ heard <= heard'
    BY <1>6, <1>9, <2>1
  <2> QED
    BY <2>1, <2>2, HeardBroken DEF IdleHeard
<1>10. CASE ~Hopeless(b, j) /\ heard' = heard + 1 /\ Closes(z)
  <2>1. heard + 1 <= whole + noise
    BY <1>5, <1>10
  <2>2. heard' <= whole' + noise' /\ heard <= heard'
    BY <1>6, <1>10, <2>1
  <2>3. buffer' = <<>> /\ ~escape_next' /\ ~in_frame' /\ z[1] = "eof"
    BY <1>10 DEF Closes
  <2>4. Hopeless(b, k)'
    <3>1. CASE k > SOF_LEN + Len(b)
      <4>1. Len(buffer)' <= 1
        BY <2>3
      <4>2. k >= SOF_LEN + Len(b)
        BY <1>1, <3>1, Sizes
      <4> QED
        BY <2>3, <4>1, <4>2, HopelessEnd
    <3>2. CASE ~(k > SOF_LEN + Len(b))
      <4> DEFINE i == k - SOF_LEN
      <4>1. Char(b, k) = "eof"
        BY <1>2, <2>3
      <4>2. i \in 1 .. Len(b) /\ b[i] = "eof" /\ k = SOF_LEN + i
        BY <1>1, <3>2, <4>1, Sizes DEF Char
      <4> HIDE DEF i
      <4> QED
        BY <2>3, <4>2, HopelessBegins
    <3> QED
      BY <3>1, <3>2
  <2> QED
    BY <2>2, <2>3, <2>4, HeardBroken DEF IdleHeard
<1> QED
  BY <1>7, <1>8, <1>9, <1>10

\* The next character of an undisturbed frame.
LEMMA HeardWholeByte ==
    ASSUME StreamTypes, StreamTypes', FilterInv, NEW b \in Bodies, NEW j \in 0 .. FrameLen(b) - 1,
           NEW k, k = j + 1,
           ~broken, Aligned(b, j), HeardAt(b, j), whole <= heard,
           Frames!Process(<<Char(b, j + 1), "frame">>),
           broken' = broken, noise' = noise,
           k = FrameLen(b) => whole' = whole + 1, k # FrameLen(b) => whole' = whole
    PROVE  /\ whole' <= heard'
           /\ k # FrameLen(b) => HeardAt(b, k)'
           /\ k = FrameLen(b) => IdleHeard'
<1> DEFINE z == <<Char(b, j + 1), "frame">>
<1>1. z \in Bytes /\ j \in Nat /\ k \in Nat
  BY Sizes, CharTypes DEF Bytes
<1>2. z[1] = Char(b, j + 1) /\ z[2] = "frame"
  OBVIOUS
<1>3. Frames!Process(z)
  OBVIOUS
<1> HIDE DEF z
<1>4. Keeps(z) \/ Spills(z) \/ Opens(z) \/ Closes(z)
  BY <1>1, <1>3, Outcomes
<1>5. /\ heard \in Nat /\ whole \in Nat /\ noise \in Nat
      /\ heard' \in Nat /\ whole' \in Nat /\ noise' \in Nat
  BY DEF StreamTypes
<1>6. /\ j <= SOF_LEN + Len(b) => heard <= whole + noise
      /\ j < SOF_LEN /\ in_frame /\ buffer # <<>> => heard + 1 <= whole + noise
      /\ j > SOF_LEN + Len(b) => whole + 1 <= heard /\ heard <= whole + noise + 1
  BY DEF HeardAt
<1>7. /\ Aligned(b, k)'
      /\ j = SOF_LEN + Len(b) => heard' = heard + 1
      /\ j # SOF_LEN + Len(b) => heard' = heard
  BY AlignedByte
<1>8. CASE k < SOF_LEN
  <2>1. j < SOF_LEN /\ j <= SOF_LEN + Len(b) /\ j # SOF_LEN + Len(b) /\ k # FrameLen(b)
        /\ ~(k > SOF_LEN + Len(b))
    BY <1>1, <1>8, Sizes
  <2>2. z[1] = "sof"
    BY <1>1, <1>2, <2>1, Sizes DEF Char
  <2>3. heard' = heard /\ whole' = whole /\ heard <= whole + noise
    BY <1>6, <1>7, <2>1
  <2>4. heard' <= whole' + noise' /\ whole' <= heard'
    BY <2>3
  <2>5. ASSUME in_frame' /\ buffer' # <<>> PROVE heard' + 1 <= whole' + noise'
    <3>1. Keeps(z)
      BY <1>4, <2>5 DEF Spills, Opens, Closes
    <3>2. escape_next /\ in_frame
      BY <2>2, <2>5, <3>1 DEF Keeps
    <3>3. heard + 1 <= whole + noise
      BY <1>6, <2>1, <3>2 DEF FilterInv
    <3> QED
      BY <2>3, <3>3
  <2> QED
    BY <2>1, <2>4, <2>5 DEF HeardAt
<1>9. CASE ~(k < SOF_LEN) /\ j < SOF_LEN + Len(b)
  <2>1. j <= SOF_LEN + Len(b) /\ j # SOF_LEN + Len(b) /\ k # FrameLen(b) /\ ~(k > SOF_LEN + Len(b))
    BY <1>1, <1>9, Sizes
  <2>2. heard' = heard /\ whole' = whole /\ heard <= whole + noise
    BY <1>6, <1>7, <2>1
  <2>3. heard' <= whole' + noise' /\ whole' <= heard'
    BY <2>2
  <2> QED
    BY <1>9, <2>1, <2>3 DEF HeardAt
<1>10. CASE j >= SOF_LEN + Len(b)
  <2>1. k > SOF_LEN + Len(b) /\ ~(k < SOF_LEN) /\ ~(k <= SOF_LEN + Len(b))
    BY <1>1, <1>10, Sizes
  <2>2. ~in_frame'
    BY <1>7, <2>1, Zenon DEF Aligned
  <2>3. \/ heard' = heard + 1 /\ heard <= whole + noise
        \/ heard' = heard /\ whole + 1 <= heard /\ heard <= whole + noise + 1
    BY <1>1, <1>6, <1>7, <1>10, Sizes
  <2>4. ASSUME k = FrameLen(b) PROVE whole' <= heard' /\ IdleHeard'
    <3>1. whole' = whole + 1
      BY <2>4
    <3>2. whole' <= heard' /\ heard' <= whole' + noise'
      BY <1>5, <2>3, <3>1
    <3> QED
      BY <2>2, <3>2 DEF IdleHeard
  <2>5. ASSUME k # FrameLen(b) PROVE whole' <= heard' /\ HeardAt(b, k)'
    <3>1. whole' = whole
      BY <2>5
    <3>2. whole' <= heard' /\ whole' + 1 <= heard' /\ heard' <= whole' + noise' + 1
      BY <1>5, <2>3, <3>1
    <3> QED
      BY <2>1, <3>2, Zenon DEF HeardAt
  <2> QED
    BY <2>4, <2>5
<1> QED
  BY <1>1, <1>8, <1>9, <1>10, Sizes

\* A frame disturbed by something the filter did not hear a frame in.
LEMMA HeardDisturbed ==
    ASSUME StreamTypes, StreamTypes', NEW b \in Bodies, NEW j \in 0 .. FrameLen(b) - 1,
           NEW k \in j .. FrameLen(b) - 1, HeardAt(b, j),
           broken', noise' = noise + 1, whole' = whole, heard' = heard,
           ~broken /\ j > SOF_LEN + Len(b) => Len(buffer)' <= 1 /\ ~escape_next'
    PROVE  HeardAt(b, k)'
<1>1. /\ heard \in Nat /\ whole \in Nat /\ noise \in Nat
      /\ heard' \in Nat /\ whole' \in Nat /\ noise' \in Nat
  BY DEF StreamTypes
<1>2. CASE ~broken /\ j > SOF_LEN + Len(b)
  <2>1. heard <= whole + noise + 1
    BY <1>2 DEF HeardAt
  <2>2. heard' <= whole' + noise'
    BY <1>1, <2>1
  <2>3. k >= SOF_LEN + Len(b)
    BY <1>2, Sizes
  <2>4. Hopeless(b, k)'
    BY <1>2, <2>3, HopelessEnd
  <2> QED
    BY <2>2, <2>4, HeardBroken
<1>3. CASE broken \/ j <= SOF_LEN + Len(b)
  <2>1. heard <= whole + noise
    BY <1>3, HeardTypes DEF HeardAt
  <2>2. heard' + 1 <= whole' + noise' /\ heard' <= whole' + noise'
    BY <1>1, <2>1
  <2> QED
    BY <2>2, HeardBroken
<1> QED
  BY <1>2, <1>3, Sizes

\* A frame the line loses the rest of.
LEMMA HeardCut ==
    ASSUME StreamTypes, StreamTypes', NEW b \in Bodies, NEW j \in 0 .. FrameLen(b) - 1,
           HeardAt(b, j), ~broken => Aligned(b, j),
           noise' = noise + 1, whole' = whole, heard' = heard, in_frame' = in_frame
    PROVE  IdleHeard'
<1>1. /\ heard \in Nat /\ whole \in Nat /\ noise \in Nat
      /\ heard' \in Nat /\ whole' \in Nat /\ noise' \in Nat
  BY DEF StreamTypes
<1>2. CASE ~broken /\ j > SOF_LEN + Len(b)
  <2>1. heard <= whole + noise + 1
    BY <1>2 DEF HeardAt
  <2>2. heard' <= whole' + noise'
    BY <1>1, <2>1
  <2>3. ~in_frame'
    BY <1>2 DEF Aligned
  <2> QED
    BY <2>2, <2>3 DEF IdleHeard
<1>3. CASE broken \/ j <= SOF_LEN + Len(b)
  <2>1. heard <= whole + noise
    BY <1>3, HeardTypes DEF HeardAt
  <2>2. heard' + 1 <= whole' + noise' /\ heard' <= whole' + noise'
    BY <1>1, <2>1
  <2> QED
    BY <2>2 DEF IdleHeard
<1> QED
  BY <1>2, <1>3, Sizes

\* A character of the console in a frame.
LEMMA HeardTyped ==
    ASSUME StreamTypes, StreamTypes', FilterInv, NEW b \in Bodies, NEW j \in 0 .. FrameLen(b) - 1,
           HeardAt(b, j), ~broken => Aligned(b, j), NEW byte \in Bytes, Frames!Process(byte),
           broken', noise' = noise + 1, whole' = whole
    PROVE  HeardAt(b, j)' /\ heard <= heard'
<1>1. /\ heard \in Nat /\ whole \in Nat /\ noise \in Nat
      /\ heard' \in Nat /\ whole' \in Nat /\ noise' \in Nat
  BY DEF StreamTypes
<1>2. Keeps(byte) \/ Spills(byte) \/ Opens(byte) \/ Closes(byte)
  BY Outcomes
<1>3. j \in Nat /\ j \in j .. FrameLen(b) - 1
  BY Sizes
<1>4. CASE heard' = heard
  <2>1. ASSUME ~broken, j > SOF_LEN + Len(b) PROVE Len(buffer)' <= 1 /\ ~escape_next'
    <3>1. buffer = <<>> /\ ~in_frame
      BY <2>1 DEF Aligned
    <3>2. CASE Keeps(byte)
      <4>1. buffer' = Append(<<>>, byte) /\ ~escape_next'
        BY <3>1, <3>2 DEF Keeps
      <4>2. Len(buffer') = 1
        BY <4>1
      <4> QED
        BY <4>1, <4>2
    <3>3. CASE Spills(byte) \/ Opens(byte) \/ Closes(byte)
      <4>1. buffer' = <<>> /\ ~escape_next'
        BY <3>3 DEF Spills, Opens, Closes
      <4> QED
        BY <4>1
    <3> QED
      BY <1>2, <3>2, <3>3
  <2>2. HeardAt(b, j)'
    BY <1>3, <1>4, <2>1, HeardDisturbed
  <2> QED
    BY <1>1, <1>4, <2>2
<1>5. CASE heard' = heard + 1 /\ Frames!Text(buffer) \in Bodies /\ Closes(byte)
  <2>0. heard <= heard'
    BY <1>1, <1>5
  <2>1. Len(buffer) >= 2 /\ \E x \in 1 .. Len(buffer) : buffer[x][1] \in {"sof", "eof"}
    BY <1>5, BodiesKept
  <2>2. in_frame /\ buffer # <<>>
    BY <2>1 DEF FilterInv
  <2>3. buffer' = <<>> /\ ~escape_next'
    BY <1>5 DEF Closes
  <2>4. Len(buffer)' <= 1
    BY <2>3
  <2>5. CASE broken
    <3>1. heard + 1 <= whole + noise
      BY <1>3, <1>5, <2>5, HopelessUnheard DEF HeardAt
    <3>2. heard' + 1 <= whole' + noise' /\ heard' <= whole' + noise'
      BY <1>1, <1>5, <3>1
    <3> QED
      BY <2>0, <3>2, HeardBroken
  <2>6. CASE ~broken /\ j < SOF_LEN
    <3>1. heard + 1 <= whole + noise
      BY <2>2, <2>6 DEF HeardAt
    <3>2. heard' + 1 <= whole' + noise' /\ heard' <= whole' + noise'
      BY <1>1, <1>5, <3>1
    <3> QED
      BY <2>0, <3>2, HeardBroken
  <2>7. CASE ~broken /\ j >= SOF_LEN /\ j <= SOF_LEN + Len(b)
    <3>1. Window(b, 0, j - SOF_LEN)
      BY <2>7 DEF Aligned, InContent
    <3>2. 0 \in 0 .. Len(b) /\ j - SOF_LEN \in 0 .. Len(b)
      BY <1>3, <2>7, Sizes
    <3>3. j - SOF_LEN - 0 = Len(b)
      BY <1>5, <3>1, <3>2, PartsDiffer
    <3>4. j >= SOF_LEN + Len(b)
      BY <1>3, <3>3, Sizes
    <3>5. Hopeless(b, j)'
      BY <2>3, <2>4, <3>4, HopelessEnd
    <3>6. heard <= whole + noise
      BY <2>7 DEF HeardAt
    <3>7. heard' <= whole' + noise'
      BY <1>1, <1>5, <3>6
    <3> QED
      BY <2>0, <3>5, <3>7, HeardBroken
  <2>8. CASE ~broken /\ j > SOF_LEN + Len(b)
    BY <2>2, <2>8 DEF Aligned
  <2> QED
    BY <1>3, <2>5, <2>6, <2>7, <2>8, Sizes
<1>6. heard' = heard \/ (heard' = heard + 1 /\ Frames!Text(buffer) \in Bodies /\ Closes(byte))
  BY <1>2 DEF Keeps, Spills, Opens, Closes
<1> QED
  BY <1>4, <1>5, <1>6

\* A character of the console between two frames.
LEMMA HeardIdle ==
    ASSUME StreamTypes, StreamTypes', IdleHeard, NEW byte \in Bytes, Frames!Process(byte),
           whole' = whole,
           \/ noise' = noise + 1
           \/ noise' = noise /\ byte[1] \in {"text", "dle"}
    PROVE  IdleHeard' /\ heard <= heard'
<1>1. /\ heard \in Nat /\ whole \in Nat /\ noise \in Nat
      /\ heard' \in Nat /\ whole' \in Nat /\ noise' \in Nat
  BY DEF StreamTypes
<1>2. heard <= whole + noise /\ (in_frame => heard + 1 <= whole + noise)
  BY DEF IdleHeard
<1>3. Keeps(byte) \/ Spills(byte) \/ Opens(byte) \/ Closes(byte)
  BY Outcomes
<1>4. CASE Closes(byte)
  <2>1. byte[1] = "eof" /\ ~in_frame' /\ (heard' = heard \/ heard' = heard + 1)
    BY <1>4 DEF Closes
  <2>2. noise' = noise + 1
    BY <2>1
  <2>3. heard' <= whole' + noise' /\ heard <= heard'
    BY <1>1, <1>2, <2>1, <2>2
  <2> QED
    BY <2>1, <2>3 DEF IdleHeard
<1>5. CASE noise' = noise + 1 /\ ~Closes(byte)
  <2>1. heard' = heard
    BY <1>3, <1>5 DEF Keeps, Spills, Opens
  <2>2. heard' <= whole' + noise' /\ heard <= heard' /\ heard' + 1 <= whole' + noise'
    BY <1>1, <1>2, <1>5, <2>1
  <2> QED
    BY <2>2 DEF IdleHeard
<1>6. CASE noise' = noise /\ byte[1] \in {"text", "dle"} /\ ~Closes(byte)
  <2>1. heard' = heard /\ (in_frame' => in_frame)
    BY <1>3, <1>6 DEF Keeps, Spills, Opens
  <2>2. heard' <= whole' + noise' /\ heard <= heard'
    BY <1>1, <1>2, <1>6, <2>1
  <2>3. ASSUME in_frame' PROVE heard' + 1 <= whole' + noise'
    <3>1. heard + 1 <= whole + noise
      BY <1>2, <2>1, <2>3
    <3> QED
      BY <1>1, <1>6, <2>1, <3>1
  <2> QED
    BY <2>2, <2>3 DEF IdleHeard
<1> QED
  BY <1>4, <1>5, <1>6

\* The numbers the losses relate are integers, before and after a step.
LEMMA LossTypes ==
    ASSUME StreamTypes, StreamTypes'
    PROVE  /\ Waiting \in Nat /\ Len(buffer) \in Nat /\ Missing \in Int /\ Budget \in Int
           /\ Waiting' \in Nat /\ Len(buffer)' \in Nat /\ Missing' \in Int /\ Budget' \in Int
           /\ Waiting <= Len(buffer)
           /\ MAX_FRAME_BUFFER_SIZE \in Nat /\ MAX_FRAME_BUFFER_SIZE >= 1
           /\ SOF_LEN \in Nat /\ SOF_LEN >= 2
<1>1. /\ Waiting \in Nat /\ Len(buffer) \in Nat /\ Missing \in Int /\ Budget \in Int
      /\ Waiting <= Len(buffer)
  BY LostIs
<1>2. Budget' \in Int
  BY BudgetGrows
<1>3. buffer' \in Seq(Bytes) /\ typed' \in Nat /\ passed' \in Nat
  BY DEF StreamTypes
<1>4. Waiting' \in Nat
  <2>1. Frames!From("console", buffer') \in Nat
    BY <1>3, Counted1
  <2> QED
    BY <2>1 DEF Waiting, Count
<1>5. Missing' \in Int
  <2>1. Frames!Pending' \in Int
    BY <1>4 DEF Frames!Pending, Waiting, Count
  <2>2. Missing' = typed' - passed' - Frames!Pending'
    BY DEF Missing, Frames!Lost
  <2> QED
    BY <1>3, <2>1, <2>2
<1>6. Len(buffer)' \in Nat
  BY <1>3
<1>7. /\ MAX_FRAME_BUFFER_SIZE \in Nat /\ MAX_FRAME_BUFFER_SIZE >= 1
      /\ SOF_LEN \in Nat /\ SOF_LEN >= 2
  BY ConsoleAssumption DEF ConsoleAssumption
<1> QED
  BY <1>1, <1>2, <1>4, <1>5, <1>6, <1>7

\* The same, of values: the user's characters lost, waiting and kept after the step.
Effect(byte, u, l, w, n) ==
    /\ Keeps(byte) => /\ n = Len(buffer) + 1
                      /\ w = Waiting + u
                      /\ in_frame => l = Missing + u
                      /\ ~in_frame => l = Missing
    /\ Spills(byte) => /\ in_frame => l = Missing + u
                       /\ ~in_frame => l = Missing
    /\ Opens(byte) => l = Missing + u
    /\ Closes(byte) => /\ in_frame => l = Missing + u
                       /\ ~in_frame => l = Missing + Waiting + u
    /\ ~Keeps(byte) => n = 0 /\ w = 0

\* They are what the four outcomes amount to.
LEMMA Effects ==
    ASSUME StreamTypes, StreamTypes', NEW byte \in Bytes, Frames!Process(byte),
           NEW u, u = User(byte), typed' = typed + u,
           NEW l, l = Missing', NEW w, w = Waiting', NEW n, n = Len(buffer)'
    PROVE  Effect(byte, u, l, w, n) /\ excess' >= excess
<1>1. Keeps(byte) \/ Spills(byte) \/ Opens(byte) \/ Closes(byte)
  BY Outcomes
<1>2. /\ Keeps(byte) => /\ Len(buffer)' = Len(buffer) + 1
                        /\ Waiting' = Waiting + u
                        /\ in_frame => Missing' = Missing + u
                        /\ ~in_frame => Missing' = Missing
      /\ Spills(byte) => /\ in_frame => Missing' = Missing + u
                         /\ ~in_frame => Missing' = Missing
      /\ Opens(byte) => Missing' = Missing + u
      /\ Closes(byte) => /\ in_frame => Missing' = Missing + u
                         /\ ~in_frame => Missing' = Missing + Waiting + u
  BY Moves, Zenon
<1>3. ASSUME ~Keeps(byte) PROVE Len(buffer)' = 0 /\ Waiting' = 0
  <2>1. buffer' = <<>>
    BY <1>1, <1>3 DEF Spills, Opens, Closes
  <2> QED
    BY <2>1, Emptied
<1>4. Effect(byte, u, l, w, n)
  BY <1>2, <1>3, Zenon DEF Effect
<1>5. excess' >= excess
  <2>1. excess' >= excess \/ excess' = excess
    BY <1>1 DEF Keeps, Spills, Opens, Closes
  <2>2. excess \in Nat
    BY DEF StreamTypes
  <2> QED
    BY <2>1, <2>2
<1> QED
  BY <1>4, <1>5

\* A frame's next character, the filter being in step with the frame.
LEMMA SmallLossByte ==
    ASSUME StreamTypes, StreamTypes', FilterInv,
           NEW b \in Bodies, NEW j \in 0 .. FrameLen(b) - 1, NEW k, k = j + 1,
           Aligned(b, j), SmallLoss(j), Frames!Process(<<Char(b, j + 1), "frame">>),
           typed' = typed, noise' = noise
    PROVE  SmallLoss(k)'
<1> DEFINE z == <<Char(b, j + 1), "frame">>
<1>1. PICK l \in Int, g \in Int, w \in Nat, n \in Nat :
         l = Missing' /\ g = Budget' /\ w = Waiting' /\ n = Len(buffer)'
  BY LossTypes
<1>2. z \in Bytes /\ j \in Nat /\ k \in Nat
  BY Sizes, CharTypes DEF Bytes
<1>3. z[1] = Char(b, j + 1) /\ z[2] = "frame"
  OBVIOUS
<1>4. Frames!Process(z)
  OBVIOUS
<1> HIDE DEF z
<1>5. Keeps(z) \/ Spills(z) \/ Opens(z) \/ Closes(z)
  BY <1>2, <1>4, Outcomes
<1>6. 0 = User(z)
  BY <1>3 DEF User
<1>7. typed' = typed + 0
  BY DEF StreamTypes
<1>8. Effect(z, 0, l, w, n) /\ excess' >= excess
  BY <1>1, <1>2, <1>4, <1>6, <1>7, Effects
<1>9. /\ Missing \in Int /\ Budget \in Int /\ Waiting \in Nat
      /\ Len(buffer) \in Nat /\ MAX_FRAME_BUFFER_SIZE \in Nat /\ SOF_LEN \in Nat
  BY LossTypes
<1>10. g >= Budget
  BY <1>1, <1>8, BudgetGrows
<1> USE DEF Effect
<1>11. Missing <= Budget
  BY DEF SmallLoss
<1>12. CASE in_frame
  <2>1. l <= g
    BY <1>5, <1>8, <1>9, <1>10, <1>11, <1>12
  <2>2. ASSUME ~in_frame' PROVE n = 0 /\ w = 0
    <3>1. buffer' = <<>>
      BY <1>5, <1>12, <2>2 DEF Keeps, Spills, Opens, Closes
    <3> QED
      BY <1>1, <3>1, Emptied
  <2>3. ASSUME ~in_frame' PROVE l + n <= g + MAX_FRAME_BUFFER_SIZE /\ l + w <= g
    BY <1>9, <2>1, <2>2, <2>3
  <2> QED
    BY <1>1, <2>1, <2>3 DEF SmallLoss
<1>13. CASE ~in_frame
  <2>1. ~escape_next
    BY <1>13 DEF FilterInv
  <2>2. CASE Keeps(z)
    <3>1. l = Missing /\ n = Len(buffer) + 1 /\ Missing + Len(buffer) <= Budget + MAX_FRAME_BUFFER_SIZE
      BY <1>1, <1>8, <1>13, <2>2 DEF SmallLoss
    <3>2. Len(buffer) + 1 >= MAX_FRAME_BUFFER_SIZE => g = Budget + 1
      <4>1. Len(buffer) + 1 >= MAX_FRAME_BUFFER_SIZE => excess' = excess + 1
        BY <2>2 DEF Keeps
      <4> QED
        BY <1>1, <4>1, BudgetGrows
    <3>3. l <= g /\ l + n <= g + MAX_FRAME_BUFFER_SIZE
      BY <1>9, <1>10, <1>11, <3>1, <3>2
    <3>4. ~(k < SOF_LEN)
      <4>1. z[1] # "sof"
        BY <2>1, <2>2 DEF Keeps
      <4> QED
        BY <1>2, <1>3, <1>9, <4>1 DEF Char
    <3> QED
      BY <1>1, <3>3, <3>4 DEF SmallLoss
  <2>3. CASE Opens(z)
    <3>1. l <= g
      BY <1>8, <1>9, <1>10, <1>11, <2>3
    <3> QED
      BY <1>1, <2>3, <3>1 DEF SmallLoss, Opens
  <2>4. CASE Spills(z) \/ Closes(z)
    <3>1. n = 0 /\ w = 0
      BY <1>1, <2>4, Emptied DEF Spills, Closes
    <3>2. ASSUME Closes(z) PROVE Waiting = 0
      <4>1. Char(b, j + 1) = "eof"
        BY <1>3, <3>2 DEF Closes
      <4>2. j >= SOF_LEN
        BY <1>2, <1>9, <4>1 DEF Char
      <4>3. j > SOF_LEN + Len(b)
        BY <1>2, <1>13, <4>2, Sizes DEF Aligned, InContent
      <4>4. buffer = <<>>
        BY <4>3 DEF Aligned
      <4> QED
        BY <4>4, LostIs
    <3>3. l = Missing
      BY <1>8, <1>9, <1>13, <2>4, <3>2
    <3>4. l <= g /\ l + n <= g + MAX_FRAME_BUFFER_SIZE /\ l + w <= g
      BY <1>9, <1>10, <1>11, <3>1, <3>3
    <3> QED
      BY <1>1, <3>4 DEF SmallLoss
  <2> QED
    BY <1>5, <2>2, <2>3, <2>4
<1> QED
  BY <1>12, <1>13

\* A frame's next character, the filter taking the frame for something else.
LEMMA LargeLossByte ==
    ASSUME StreamTypes, StreamTypes', FilterInv,
           NEW b \in Bodies, NEW j \in 0 .. FrameLen(b) - 1, NEW k, k = j + 1,
           LargeLoss(j), Frames!Process(<<Char(b, j + 1), "frame">>),
           typed' = typed, noise' = noise
    PROVE  LargeLoss(k)'
<1> DEFINE z == <<Char(b, j + 1), "frame">>
<1>1. PICK l \in Int, g \in Int, w \in Nat, n \in Nat :
         l = Missing' /\ g = Budget' /\ w = Waiting' /\ n = Len(buffer)'
  BY LossTypes
<1>2. z \in Bytes /\ j \in Nat /\ k \in Nat
  BY Sizes, CharTypes DEF Bytes
<1>3. z[1] = Char(b, j + 1) /\ z[2] = "frame"
  OBVIOUS
<1>4. Frames!Process(z)
  OBVIOUS
<1> HIDE DEF z
<1>5. Keeps(z) \/ Spills(z) \/ Opens(z) \/ Closes(z)
  BY <1>2, <1>4, Outcomes
<1>6. 0 = User(z)
  BY <1>3 DEF User
<1>7. typed' = typed + 0
  BY DEF StreamTypes
<1>8. Effect(z, 0, l, w, n) /\ excess' >= excess
  BY <1>1, <1>2, <1>4, <1>6, <1>7, Effects
<1>9. /\ Missing \in Int /\ Budget \in Int /\ Waiting \in Nat
      /\ Len(buffer) \in Nat /\ MAX_FRAME_BUFFER_SIZE \in Nat /\ SOF_LEN \in Nat
  BY LossTypes
<1>10. g >= Budget
  BY <1>1, <1>8, BudgetGrows
<1> USE DEF Effect
<1>11. /\ Missing + MAX_FRAME_BUFFER_SIZE <= Budget
       /\ ~in_frame => Missing + Len(buffer) <= Budget
       /\ ~in_frame /\ j >= SOF_LEN => Missing + MAX_FRAME_BUFFER_SIZE + Waiting <= Budget
  BY DEF LargeLoss
<1>12. CASE in_frame
  <2>1. l + MAX_FRAME_BUFFER_SIZE <= g
    BY <1>5, <1>8, <1>9, <1>10, <1>11, <1>12
  <2>2. ASSUME ~in_frame' PROVE n = 0 /\ w = 0
    <3>1. buffer' = <<>>
      BY <1>5, <1>12, <2>2 DEF Keeps, Spills, Opens, Closes
    <3> QED
      BY <1>1, <3>1, Emptied
  <2>3. ASSUME ~in_frame' PROVE l + n <= g /\ l + MAX_FRAME_BUFFER_SIZE + w <= g
    BY <1>9, <2>1, <2>2, <2>3
  <2> QED
    BY <1>1, <2>1, <2>3 DEF LargeLoss
<1>13. CASE ~in_frame
  <2>1. ~escape_next
    BY <1>13 DEF FilterInv
  <2>2. z[1] # "sof" => j >= SOF_LEN
    BY <1>2, <1>3, <1>9 DEF Char
  <2>3. CASE Keeps(z)
    <3>1. /\ l = Missing /\ n = Len(buffer) + 1 /\ w = Waiting
          /\ Missing + Len(buffer) <= Budget
      BY <1>8, <1>9, <1>11, <1>13, <2>3
    <3>2. Len(buffer) + 1 >= MAX_FRAME_BUFFER_SIZE => g = Budget + 1
      <4>1. Len(buffer) + 1 >= MAX_FRAME_BUFFER_SIZE => excess' = excess + 1
        BY <2>3 DEF Keeps
      <4> QED
        BY <1>1, <4>1, BudgetGrows
    <3>3. j >= SOF_LEN
      BY <2>1, <2>2, <2>3 DEF Keeps
    <3>4. Missing + MAX_FRAME_BUFFER_SIZE + Waiting <= Budget
      BY <1>11, <1>13, <3>3
    <3>5. l + MAX_FRAME_BUFFER_SIZE <= g /\ l + n <= g /\ l + MAX_FRAME_BUFFER_SIZE + w <= g
      BY <1>9, <1>10, <1>11, <3>1, <3>2, <3>4
    <3> QED
      BY <1>1, <3>5 DEF LargeLoss
  <2>4. CASE Opens(z)
    <3>1. l + MAX_FRAME_BUFFER_SIZE <= g
      BY <1>8, <1>9, <1>10, <1>11, <2>4
    <3> QED
      BY <1>1, <2>4, <3>1 DEF LargeLoss, Opens
  <2>5. CASE Spills(z) \/ Closes(z)
    <3>1. n = 0 /\ w = 0
      BY <1>1, <2>5, Emptied DEF Spills, Closes
    <3>2. l + MAX_FRAME_BUFFER_SIZE <= g
      <4>1. CASE Spills(z)
        BY <1>8, <1>9, <1>10, <1>11, <1>13, <4>1
      <4>2. CASE Closes(z)
        <5>1. z[1] # "sof"
          BY <4>2 DEF Closes
        <5>2. Missing + MAX_FRAME_BUFFER_SIZE + Waiting <= Budget
          BY <1>11, <1>13, <2>2, <5>1
        <5> QED
          BY <1>8, <1>9, <1>10, <1>13, <4>2, <5>2
      <4> QED
        BY <2>5, <4>1, <4>2
    <3>3. l + n <= g /\ l + MAX_FRAME_BUFFER_SIZE + w <= g
      BY <1>9, <3>1, <3>2
    <3> QED
      BY <1>1, <3>2, <3>3 DEF LargeLoss
  <2> QED
    BY <1>5, <2>3, <2>4, <2>5
<1> QED
  BY <1>12, <1>13

\* A character of the console in a frame, which costs at most the buffer and itself.
LEMMA LargeLossTyped ==
    ASSUME StreamTypes, StreamTypes', NEW j \in Nat, LargeLoss(j),
           NEW byte \in Bytes, byte[2] = "console", Frames!Process(byte),
           typed' = typed + 1, noise' = noise + 1
    PROVE  LargeLoss(j)'
<1>1. PICK l \in Int, g \in Int, w \in Nat, n \in Nat :
         l = Missing' /\ g = Budget' /\ w = Waiting' /\ n = Len(buffer)'
  BY LossTypes
<1>2. Keeps(byte) \/ Spills(byte) \/ Opens(byte) \/ Closes(byte)
  BY Outcomes
<1>3. 1 = User(byte)
  BY DEF User
<1>4. Effect(byte, 1, l, w, n) /\ excess' >= excess
  BY <1>1, <1>3, Effects
<1>5. /\ Missing \in Int /\ Budget \in Int /\ Waiting \in Nat /\ Waiting <= Len(buffer)
      /\ Len(buffer) \in Nat /\ MAX_FRAME_BUFFER_SIZE \in Nat /\ MAX_FRAME_BUFFER_SIZE >= 1
      /\ SOF_LEN \in Nat /\ SOF_LEN >= 2
  BY LossTypes
<1>6. g >= Budget + MAX_FRAME_BUFFER_SIZE + 1
  BY <1>1, <1>4, BudgetGrows
<1> USE DEF Effect
<1>7. /\ Missing + MAX_FRAME_BUFFER_SIZE <= Budget
      /\ ~in_frame => Missing + Len(buffer) <= Budget
      /\ ~in_frame /\ j >= SOF_LEN => Missing + MAX_FRAME_BUFFER_SIZE + Waiting <= Budget
  BY DEF LargeLoss
<1>8. l + MAX_FRAME_BUFFER_SIZE <= g
  <2>1. CASE l = Missing \/ l = Missing + 1
    BY <1>5, <1>6, <1>7, <2>1
  <2>2. CASE ~in_frame /\ l = Missing + Waiting + 1
    <3>1. Missing + Len(buffer) <= Budget
      BY <1>7, <2>2
    <3> QED
      BY <1>5, <1>6, <2>2, <3>1
  <2> QED
    BY <1>2, <1>4, <2>1, <2>2
<1>9. CASE Keeps(byte)
  <2>1. ASSUME ~in_frame' PROVE l + n <= g
    <3>1. l = Missing /\ n = Len(buffer) + 1 /\ Missing + Len(buffer) <= Budget
      BY <1>4, <1>7, <1>9, <2>1 DEF Keeps
    <3> QED
      BY <1>5, <1>6, <3>1
  <2>2. ASSUME ~in_frame', j >= SOF_LEN PROVE l + MAX_FRAME_BUFFER_SIZE + w <= g
    <3>1. l = Missing /\ w = Waiting + 1 /\ Missing + MAX_FRAME_BUFFER_SIZE + Waiting <= Budget
      BY <1>4, <1>7, <1>9, <2>2 DEF Keeps
    <3> QED
      BY <1>5, <1>6, <3>1
  <2> QED
    BY <1>1, <1>8, <2>1, <2>2 DEF LargeLoss
<1>10. CASE ~Keeps(byte)
  <2>1. n = 0 /\ w = 0
    BY <1>4, <1>10
  <2>2. l + n <= g /\ l + MAX_FRAME_BUFFER_SIZE + w <= g
    BY <1>5, <1>8, <2>1
  <2> QED
    BY <1>1, <1>8, <2>2 DEF LargeLoss
<1> QED
  BY <1>9, <1>10

\* The same while the filter was in step: it may have lost the frame, unless that only begins.
LEMMA SmallLossTyped ==
    ASSUME StreamTypes, StreamTypes', NEW b \in Bodies, NEW j \in 0 .. FrameLen(b) - 1,
           Aligned(b, j), SmallLoss(j),
           NEW byte \in Bytes, byte[2] = "console", Frames!Process(byte),
           typed' = typed + 1, noise' = noise + 1
    PROVE  LossAt(b, j)'
<1>1. PICK l \in Int, g \in Int, w \in Nat, n \in Nat :
         l = Missing' /\ g = Budget' /\ w = Waiting' /\ n = Len(buffer)'
  BY LossTypes
<1>2. Keeps(byte) \/ Spills(byte) \/ Opens(byte) \/ Closes(byte)
  BY Outcomes
<1>3. 1 = User(byte)
  BY DEF User
<1>4. Effect(byte, 1, l, w, n) /\ excess' >= excess
  BY <1>1, <1>3, Effects
<1>5. /\ Missing \in Int /\ Budget \in Int /\ Waiting \in Nat /\ Waiting <= Len(buffer)
      /\ Len(buffer) \in Nat /\ MAX_FRAME_BUFFER_SIZE \in Nat /\ MAX_FRAME_BUFFER_SIZE >= 1
      /\ SOF_LEN \in Nat /\ SOF_LEN >= 2
  BY LossTypes
<1>6. g >= Budget + MAX_FRAME_BUFFER_SIZE + 1
  BY <1>1, <1>4, BudgetGrows
<1> USE DEF Effect
<1>7. /\ Missing <= Budget
      /\ ~in_frame => Missing + Len(buffer) <= Budget + MAX_FRAME_BUFFER_SIZE
      /\ ~in_frame /\ 0 < j /\ j < SOF_LEN => Missing + Waiting <= Budget
  BY DEF SmallLoss
<1>8. j \in Nat /\ Len(b) \in Nat
  BY Sizes
<1>9. ~in_frame /\ j >= SOF_LEN => Waiting = 0
  <2>1. ASSUME ~in_frame, j >= SOF_LEN PROVE buffer = <<>>
    BY <1>5, <1>8, <2>1 DEF Aligned, InContent
  <2> QED
    BY <2>1, LostIs
<1>10. ~in_frame /\ 0 < j => Missing + Waiting <= Budget
  <2>1. ASSUME ~in_frame, j >= SOF_LEN PROVE Missing + Waiting <= Budget
    <3>1. Waiting = 0
      BY <1>9, <2>1
    <3> QED
      BY <1>5, <1>7, <3>1
  <2>2. j >= SOF_LEN \/ j < SOF_LEN
    BY <1>5, <1>8
  <2> QED
    BY <1>7, <2>1, <2>2
<1>11. CASE Keeps(byte)
  <2>1. l + MAX_FRAME_BUFFER_SIZE <= g
    <3>1. l = Missing \/ l = Missing + 1
      BY <1>4, <1>11
    <3> QED
      BY <1>5, <1>6, <1>7, <3>1
  <2>2. ASSUME ~in_frame' PROVE l + n <= g
    <3>1. l = Missing /\ n = Len(buffer) + 1
          /\ Missing + Len(buffer) <= Budget + MAX_FRAME_BUFFER_SIZE
      BY <1>4, <1>7, <1>11, <2>2 DEF Keeps
    <3> QED
      BY <1>5, <1>6, <3>1
  <2>3. ASSUME ~in_frame', j >= SOF_LEN PROVE l + MAX_FRAME_BUFFER_SIZE + w <= g
    <3>1. l = Missing /\ w = Waiting + 1 /\ ~in_frame
      BY <1>4, <1>11, <2>3 DEF Keeps
    <3>2. Waiting = 0
      BY <1>9, <2>3, <3>1
    <3> QED
      BY <1>5, <1>6, <1>7, <3>1, <3>2
  <2>4. LargeLoss(j)'
    BY <1>1, <2>1, <2>2, <2>3 DEF LargeLoss
  <2> QED
    BY <2>4, Zenon DEF LossAt
<1>12. CASE ~Keeps(byte) /\ (in_frame \/ 0 < j \/ ~Closes(byte))
  <2>1. n = 0 /\ w = 0
    BY <1>4, <1>12
  <2>2. l + MAX_FRAME_BUFFER_SIZE <= g
    <3>1. CASE l = Missing \/ l = Missing + 1
      BY <1>5, <1>6, <1>7, <3>1
    <3>2. CASE ~in_frame /\ 0 < j /\ l = Missing + Waiting + 1
      <4>1. Missing + Waiting <= Budget
        BY <1>10, <3>2
      <4> QED
        BY <1>5, <1>6, <3>2, <4>1
    <3> QED
      BY <1>2, <1>4, <1>12, <3>1, <3>2
  <2>3. l + n <= g /\ l + MAX_FRAME_BUFFER_SIZE + w <= g
    BY <1>5, <2>1, <2>2
  <2>4. LargeLoss(j)'
    BY <1>1, <2>2, <2>3 DEF LargeLoss
  <2> QED
    BY <2>4, Zenon DEF LossAt
<1>13. CASE ~in_frame /\ ~(0 < j) /\ Closes(byte)
  <2>1. l = Missing + Waiting + 1 /\ Missing + Len(buffer) <= Budget + MAX_FRAME_BUFFER_SIZE
    BY <1>4, <1>7, <1>13
  <2>2. buffer' = <<>> /\ ~escape_next'
    BY <1>13 DEF Closes
  <2>3. n = 0
    BY <1>1, <2>2, Emptied
  <2>4. l <= g /\ l + n <= g + MAX_FRAME_BUFFER_SIZE
    BY <1>5, <1>6, <2>1, <2>3
  <2>5. SmallLoss(j)'
    BY <1>1, <1>13, <2>4 DEF SmallLoss
  <2>6. ~(j >= SOF_LEN) /\ ~(j > SOF_LEN + Len(b))
    BY <1>5, <1>8, <1>13
  <2>7. Aligned(b, j)'
    BY <2>2, <2>6, Zenon DEF Aligned
  <2> QED
    BY <2>5, <2>7, Zenon DEF LossAt
<1> QED
  BY <1>11, <1>12, <1>13

\* A character of the console between two frames that the filter takes for a part of one.
LEMMA IdleLossSpecial ==
    ASSUME StreamTypes, StreamTypes', IdleLoss,
           NEW byte \in Bytes, byte[2] = "console", Frames!Process(byte),
           typed' = typed + 1, noise' = noise + 1
    PROVE  IdleLoss'
<1>1. PICK l \in Int, g \in Int, w \in Nat, n \in Nat :
         l = Missing' /\ g = Budget' /\ w = Waiting' /\ n = Len(buffer)'
  BY LossTypes
<1>2. Keeps(byte) \/ Spills(byte) \/ Opens(byte) \/ Closes(byte)
  BY Outcomes
<1>3. 1 = User(byte)
  BY DEF User
<1>4. Effect(byte, 1, l, w, n) /\ excess' >= excess
  BY <1>1, <1>3, Effects
<1>5. /\ Missing \in Int /\ Budget \in Int /\ Waiting \in Nat /\ Waiting <= Len(buffer)
      /\ Len(buffer) \in Nat /\ MAX_FRAME_BUFFER_SIZE \in Nat /\ MAX_FRAME_BUFFER_SIZE >= 1
      /\ SOF_LEN \in Nat /\ SOF_LEN >= 2
  BY LossTypes
<1>6. g >= Budget + MAX_FRAME_BUFFER_SIZE + 1
  BY <1>1, <1>4, BudgetGrows
<1> USE DEF Effect
<1>7. /\ Missing <= Budget
      /\ in_frame => Missing + MAX_FRAME_BUFFER_SIZE <= Budget + Len(buffer)
      /\ ~in_frame => Missing + Len(buffer) <= Budget + MAX_FRAME_BUFFER_SIZE
  BY DEF IdleLoss
<1>8. CASE l = Missing \/ l = Missing + 1
  <2>1. l <= g /\ l + 1 <= g /\ l + MAX_FRAME_BUFFER_SIZE <= g + n
    BY <1>5, <1>6, <1>7, <1>8
  <2>2. ASSUME ~in_frame' PROVE l + n <= g + MAX_FRAME_BUFFER_SIZE
    <3>1. CASE Keeps(byte)
      <4>1. n = Len(buffer) + 1 /\ Missing + Len(buffer) <= Budget + MAX_FRAME_BUFFER_SIZE
        BY <1>4, <1>7, <2>2, <3>1 DEF Keeps
      <4> QED
        BY <1>5, <1>6, <1>8, <4>1
    <3>2. CASE ~Keeps(byte)
      <4>1. n = 0
        BY <1>4, <3>2
      <4> QED
        BY <1>5, <2>1, <4>1
    <3> QED
      BY <3>1, <3>2
  <2> QED
    BY <1>1, <2>1, <2>2 DEF IdleLoss
<1>9. CASE ~in_frame /\ Closes(byte) /\ l = Missing + Waiting + 1
  <2>1. n = 0 /\ ~in_frame'
    BY <1>1, <1>9, Emptied DEF Closes
  <2>2. Missing + Len(buffer) <= Budget + MAX_FRAME_BUFFER_SIZE
    BY <1>7, <1>9
  <2>3. l <= g /\ l + n <= g + MAX_FRAME_BUFFER_SIZE
    BY <1>5, <1>6, <1>9, <2>1, <2>2
  <2> QED
    BY <1>1, <2>1, <2>3 DEF IdleLoss
<1> QED
  BY <1>2, <1>4, <1>8, <1>9

\* A plain character of the console between two frames.
LEMMA IdleLossPlain ==
    ASSUME StreamTypes, StreamTypes', IdleLoss,
           NEW byte \in Bytes, byte[2] = "console", Frames!Process(byte),
           byte[1] \in {"text", "dle"}, typed' = typed + 1, noise' = noise
    PROVE  IdleLoss'
<1>1. PICK l \in Int, g \in Int, w \in Nat, n \in Nat :
         l = Missing' /\ g = Budget' /\ w = Waiting' /\ n = Len(buffer)'
  BY LossTypes
<1>2. Keeps(byte) \/ Spills(byte) \/ Opens(byte) \/ Closes(byte)
  BY Outcomes
<1>3. 1 = User(byte)
  BY DEF User
<1>4. Effect(byte, 1, l, w, n) /\ excess' >= excess
  BY <1>1, <1>3, Effects
<1>5. /\ Missing \in Int /\ Budget \in Int /\ Waiting \in Nat /\ Waiting <= Len(buffer)
      /\ Len(buffer) \in Nat /\ MAX_FRAME_BUFFER_SIZE \in Nat /\ MAX_FRAME_BUFFER_SIZE >= 1
      /\ SOF_LEN \in Nat /\ SOF_LEN >= 2
  BY LossTypes
<1>6. g >= Budget
  BY <1>1, <1>4, BudgetGrows
<1> USE DEF Effect
<1>7. Keeps(byte) \/ Spills(byte)
  BY <1>2 DEF Opens, Closes
<1>8. CASE Keeps(byte)
  <2>1. n = Len(buffer) + 1
    BY <1>4, <1>8
  <2>2. n >= MAX_FRAME_BUFFER_SIZE => g = Budget + 1
    <3>1. Len(buffer) + 1 >= MAX_FRAME_BUFFER_SIZE => excess' = excess + 1
      BY <1>8 DEF Keeps
    <3> QED
      BY <1>1, <2>1, <3>1, BudgetGrows
  <2>3. CASE in_frame
    <3>1. /\ l = Missing + 1 /\ Missing <= Budget /\ Missing + 1 <= Budget
          /\ Missing + MAX_FRAME_BUFFER_SIZE <= Budget + Len(buffer)
      BY <1>4, <1>8, <2>3 DEF IdleLoss
    <3>2. l <= g /\ l + 1 <= g /\ l + MAX_FRAME_BUFFER_SIZE <= g + n
      BY <1>5, <1>6, <2>1, <2>2, <3>1
    <3>3. in_frame'
      BY <1>8, <2>3 DEF Keeps
    <3> QED
      BY <1>1, <3>2, <3>3 DEF IdleLoss
  <2>4. CASE ~in_frame
    <3>1. /\ l = Missing /\ Missing <= Budget
          /\ Missing + Len(buffer) <= Budget + MAX_FRAME_BUFFER_SIZE
      BY <1>4, <1>8, <2>4 DEF IdleLoss
    <3>2. l <= g /\ l + n <= g + MAX_FRAME_BUFFER_SIZE
      BY <1>5, <1>6, <2>1, <2>2, <3>1
    <3>3. ~in_frame'
      BY <1>8, <2>4 DEF Keeps
    <3> QED
      BY <1>1, <3>2, <3>3 DEF IdleLoss
  <2> QED
    BY <2>3, <2>4
<1>9. CASE Spills(byte)
  <2>1. l = Missing \/ (in_frame /\ l = Missing + 1)
    BY <1>4, <1>9
  <2>2. l <= Budget
    BY <1>5, <2>1 DEF IdleLoss
  <2>3. n = 0 /\ ~in_frame'
    BY <1>1, <1>9, Emptied DEF Spills
  <2>4. l <= g /\ l + n <= g + MAX_FRAME_BUFFER_SIZE
    BY <1>5, <1>6, <2>2, <2>3
  <2> QED
    BY <1>1, <2>3, <2>4 DEF IdleLoss
<1> QED
  BY <1>7, <1>8, <1>9

\* The line loses a byte of a frame.
LEMMA LossSkipped ==
    ASSUME StreamTypes, StreamTypes', NEW b \in Bodies, NEW j \in 0 .. FrameLen(b) - 1,
           NEW k, k = j + 1, LossAt(b, j), noise' = noise + 1,
           UNCHANGED <<buffer, in_frame, passed, typed, excess>>
    PROVE  LossAt(b, k)' /\ IdleLoss'
<1>0. PICK l \in Int, g \in Int, w \in Nat, n \in Nat :
         l = Missing' /\ g = Budget' /\ w = Waiting' /\ n = Len(buffer)'
  BY LossTypes
<1>1. w = Waiting /\ n = Len(buffer) /\ l = Missing
  BY <1>0 DEF Waiting, Count, Missing, Frames!Lost, Frames!Pending
<1>2. excess' >= excess
  BY DEF StreamTypes
<1>3. g >= Budget + MAX_FRAME_BUFFER_SIZE + 1
  BY <1>0, <1>2, BudgetGrows
<1>4. /\ Missing \in Int /\ Budget \in Int /\ Waiting \in Nat /\ Waiting <= Len(buffer)
      /\ Len(buffer) \in Nat /\ MAX_FRAME_BUFFER_SIZE \in Nat /\ MAX_FRAME_BUFFER_SIZE >= 1
      /\ SOF_LEN \in Nat /\ SOF_LEN >= 2
  BY LossTypes
<1>5. j \in Nat /\ k \in Nat /\ Len(b) \in Nat
  BY Sizes
<1>6. /\ Missing <= Budget
      /\ ~in_frame => Missing + Len(buffer) <= Budget + MAX_FRAME_BUFFER_SIZE
      /\ ~in_frame /\ k >= SOF_LEN => Missing + Waiting <= Budget + 1
  <2>1. CASE Aligned(b, j) /\ SmallLoss(j)
    <3>1. ASSUME ~in_frame, k >= SOF_LEN PROVE Missing + Waiting <= Budget
      <4>1. CASE j < SOF_LEN
        <5>1. 0 < j
          BY <1>4, <1>5, <3>1
        <5> QED
          BY <2>1, <3>1, <4>1, <5>1 DEF SmallLoss
      <4>2. CASE j >= SOF_LEN
        <5>1. buffer = <<>>
          BY <1>4, <1>5, <2>1, <3>1, <4>2 DEF Aligned, InContent
        <5>2. Waiting = 0
          BY <5>1, LostIs
        <5>3. Missing <= Budget
          BY <2>1 DEF SmallLoss
        <5> QED
          BY <1>4, <5>2, <5>3
      <4> QED
        BY <1>4, <1>5, <4>1, <4>2
    <3>2. ~in_frame /\ k >= SOF_LEN => Missing + Waiting <= Budget + 1
      BY <1>4, <3>1
    <3> QED
      BY <2>1, <3>2 DEF SmallLoss
  <2>2. CASE LargeLoss(j)
    <3>1. Missing + MAX_FRAME_BUFFER_SIZE <= Budget
          /\ (~in_frame => Missing + Len(buffer) <= Budget)
      BY <2>2 DEF LargeLoss
    <3>2. Missing <= Budget
      BY <1>4, <3>1
    <3>3. ASSUME ~in_frame
          PROVE  /\ Missing + Len(buffer) <= Budget + MAX_FRAME_BUFFER_SIZE
                 /\ Missing + Waiting <= Budget + 1
      <4>1. Missing + Len(buffer) <= Budget
        BY <3>1, <3>3
      <4> QED
        BY <1>4, <4>1
    <3> QED
      BY <3>2, <3>3
  <2> QED
    BY <2>1, <2>2 DEF LossAt
<1>7. l + MAX_FRAME_BUFFER_SIZE <= g /\ l <= g /\ l + 1 <= g
      /\ l + MAX_FRAME_BUFFER_SIZE <= g + n
  BY <1>1, <1>3, <1>4, <1>6
<1>8. ASSUME ~in_frame' PROVE l + n <= g /\ l + n <= g + MAX_FRAME_BUFFER_SIZE
  <2>1. Missing + Len(buffer) <= Budget + MAX_FRAME_BUFFER_SIZE
    BY <1>6, <1>8
  <2> QED
    BY <1>1, <1>3, <1>4, <2>1
<1>9. ASSUME ~in_frame', k >= SOF_LEN PROVE l + MAX_FRAME_BUFFER_SIZE + w <= g
  <2>1. Missing + Waiting <= Budget + 1
    BY <1>6, <1>9
  <2> QED
    BY <1>1, <1>3, <1>4, <2>1
<1>10. IdleLoss'
  BY <1>0, <1>7, <1>8 DEF IdleLoss
<1>11. LargeLoss(k)'
  BY <1>0, <1>7, <1>8, <1>9 DEF LargeLoss
<1> QED
  BY <1>10, <1>11, Zenon DEF LossAt

\* What the frame's end leaves.
LEMMA LossEnds ==
    ASSUME StreamTypes, StreamTypes', NEW b \in Bodies, NEW k, k = FrameLen(b), LossAt(b, k)'
    PROVE  IdleLoss'
<1>0. PICK l \in Int, g \in Int, w \in Nat, n \in Nat :
         l = Missing' /\ g = Budget' /\ w = Waiting' /\ n = Len(buffer)'
  BY LossTypes
<1>1. MAX_FRAME_BUFFER_SIZE \in Nat /\ MAX_FRAME_BUFFER_SIZE >= 1
  BY LossTypes
<1>2. CASE Aligned(b, k)' /\ SmallLoss(k)'
  <2>1. k > SOF_LEN + Len(b)
    BY Sizes
  <2>2. ~in_frame'
    BY <1>2, <2>1, Zenon DEF Aligned
  <2>3. l <= g /\ l + n <= g + MAX_FRAME_BUFFER_SIZE
    BY <1>0, <1>2, <2>2 DEF SmallLoss
  <2> QED
    BY <1>0, <2>2, <2>3 DEF IdleLoss
<1>3. CASE LargeLoss(k)'
  <2>1. l + MAX_FRAME_BUFFER_SIZE <= g /\ (~in_frame' => l + n <= g)
    BY <1>0, <1>3 DEF LargeLoss
  <2>2. l <= g /\ l + 1 <= g /\ l + MAX_FRAME_BUFFER_SIZE <= g + n
    BY <1>1, <2>1
  <2>3. ASSUME ~in_frame' PROVE l + n <= g + MAX_FRAME_BUFFER_SIZE
    <3>1. l + n <= g
      BY <2>1, <2>3
    <3> QED
      BY <1>1, <3>1
  <2> QED
    BY <1>0, <2>2, <2>3 DEF IdleLoss
<1>4. (Aligned(b, k)' /\ SmallLoss(k)') \/ LargeLoss(k)'
  BY Zenon DEF LossAt
<1> QED
  BY <1>2, <1>3, <1>4

\* The filter gives up what it holds, to the user or not.
Flushes == Frames!Empty(buffer, FALSE) \/ (Frames!PassOn(buffer) /\ Frames!Clear(FALSE))

\* Giving up the buffer keeps the types.
LEMMA FlushedTypes ==
    ASSUME StreamTypes, Flushes, UNCHANGED <<heard, excess>>
    PROVE  FilterTypes'
<1>1. CASE Frames!Empty(buffer, FALSE)
  BY <1>1, EmptyTypes DEF StreamTypes
<1>2. CASE Frames!PassOn(buffer) /\ Frames!Clear(FALSE)
  <2>1. buffer' = <<>> /\ escape_next' = FALSE /\ in_frame' = FALSE
    BY <1>2 DEF Frames!Clear
  <2>2. Frames!From("console", buffer) \in Nat /\ Frames!From("frame", buffer) \in Nat
    BY Counted1 DEF StreamTypes
  <2>3. passed \in Nat /\ leaked \in Nat /\ heard \in Nat /\ excess \in Nat
    BY DEF StreamTypes
  <2>4. passed' \in Nat /\ leaked' \in Nat
    BY <1>2, <2>2, <2>3 DEF Frames!PassOn
  <2>5. buffer' \in Seq(Bytes)
    BY <2>1
  <2> QED
    BY <2>1, <2>3, <2>4, <2>5 DEF FilterTypes
<1> QED
  BY <1>1, <1>2 DEF Flushes

\* It costs the user nothing.
LEMMA Flushed ==
    ASSUME StreamTypes, StreamTypes', Flushes, typed' = typed
    PROVE  /\ buffer' = <<>> /\ ~escape_next' /\ ~in_frame'
           /\ Missing' <= Missing
           /\ ~in_frame => Missing' = Missing
           /\ ~in_frame /\ Count("frame") = 0 => leaked' = leaked
<1>1. buffer' = <<>> /\ ~escape_next' /\ ~in_frame'
  BY DEF Flushes, Frames!Empty, Frames!Clear
<1>2. (passed' = passed /\ leaked' = leaked /\ in_frame)
      \/ (passed' = passed + Waiting /\ leaked' = leaked + Count("frame"))
  BY DEF Flushes, Frames!Empty, Frames!PassOn, Waiting, Count
<1>3. /\ typed \in Nat /\ passed \in Nat /\ leaked \in Nat
      /\ typed' \in Nat /\ passed' \in Nat
  BY DEF StreamTypes
<1>4. /\ Waiting \in Nat
      /\ in_frame => Missing = typed - passed
      /\ ~in_frame => Missing = typed - passed - Waiting
  BY LostIs
<1>5. Missing' = typed' - passed'
  <2>1. Waiting' = 0
    BY <1>1, Emptied
  <2>2. Frames!Pending' = 0
    BY <1>1, <2>1 DEF Frames!Pending, Waiting, Count
  <2>3. Missing' = typed' - passed' - Frames!Pending'
    BY DEF Missing, Frames!Lost
  <2> QED
    BY <1>3, <2>2, <2>3
<1>6. CASE in_frame
  <2>1. Missing = typed - passed /\ (passed' = passed \/ passed' = passed + Waiting)
    BY <1>2, <1>4, <1>6
  <2>2. PICK p \in Nat : p = passed' /\ passed <= p
    BY <1>3, <1>4, <2>1
  <2>3. PICK l : l = Missing' /\ l = typed - p
    BY <1>3, <1>5, <2>2
  <2>4. l <= Missing
    <3>1. \A t, x, y \in Nat : x <= y => t - y <= t - x
      OBVIOUS
    <3>2. typed - p <= typed - passed
      BY <1>3, <2>2, <3>1, Zenon
    <3> QED
      BY <2>1, <2>3, <3>2, Zenon
  <2> QED
    BY <1>1, <1>6, <2>3, <2>4
<1>7. CASE ~in_frame
  <2>1. Missing = typed - passed - Waiting /\ passed' = passed + Waiting
        /\ leaked' = leaked + Count("frame")
    BY <1>2, <1>4, <1>7
  <2>2. Missing' = Missing
    BY <1>3, <1>4, <1>5, <2>1
  <2>3. Missing' <= Missing
    BY <2>2, LossTypes
  <2>4. Count("frame") = 0 => leaked' = leaked
    BY <1>3, <2>1
  <2> QED
    BY <1>1, <2>2, <2>3, <2>4
<1> QED
  BY <1>6, <1>7

\* In a frame that costs a disturbance, and the frame.
LEMMA LossFlushed ==
    ASSUME StreamTypes, StreamTypes', NEW b \in Bodies, NEW j \in 0 .. FrameLen(b) - 1,
           LossAt(b, j), Flushes, typed' = typed, noise' = noise + 1, excess' = excess
    PROVE  LossAt(b, j)'
<1>0. PICK l \in Int, g \in Int, w \in Nat, n \in Nat :
         l = Missing' /\ g = Budget' /\ w = Waiting' /\ n = Len(buffer)'
  BY LossTypes
<1>1. buffer' = <<>> /\ l <= Missing
  BY <1>0, Flushed
<1>2. w = 0 /\ n = 0
  BY <1>0, <1>1, Emptied
<1>3. excess' >= excess
  BY DEF StreamTypes
<1>4. g >= Budget + MAX_FRAME_BUFFER_SIZE + 1
  BY <1>0, <1>3, BudgetGrows
<1>5. Missing \in Int /\ Budget \in Int /\ MAX_FRAME_BUFFER_SIZE \in Nat
  BY LossTypes
<1>6. Missing <= Budget
  BY <1>5 DEF LossAt, SmallLoss, LargeLoss
<1>7. l + MAX_FRAME_BUFFER_SIZE <= g /\ l + n <= g /\ l + MAX_FRAME_BUFFER_SIZE + w <= g
  BY <1>1, <1>2, <1>4, <1>5, <1>6
<1>8. LargeLoss(j)'
  BY <1>0, <1>7 DEF LargeLoss
<1> QED
  BY <1>8, Zenon DEF LossAt

\* Between two frames it costs nothing.
LEMMA IdleLossFlushed ==
    ASSUME StreamTypes, StreamTypes', IdleLoss, Flushes, typed' = typed, noise' = noise,
           excess' = excess
    PROVE  IdleLoss'
<1>0. PICK l \in Int, g \in Int, w \in Nat, n \in Nat :
         l = Missing' /\ g = Budget' /\ w = Waiting' /\ n = Len(buffer)'
  BY LossTypes
<1>1. buffer' = <<>> /\ ~in_frame' /\ l <= Missing
  BY <1>0, Flushed
<1>2. n = 0
  BY <1>0, <1>1, Emptied
<1>3. excess' >= excess
  BY DEF StreamTypes
<1>4. g >= Budget
  BY <1>0, <1>3, BudgetGrows
<1>5. Missing \in Int /\ Budget \in Int /\ MAX_FRAME_BUFFER_SIZE \in Nat
  BY LossTypes
<1>6. Missing <= Budget
  BY DEF IdleLoss
<1>7. l <= g /\ l + n <= g + MAX_FRAME_BUFFER_SIZE
  BY <1>1, <1>2, <1>4, <1>5, <1>6
<1> QED
  BY <1>0, <1>1, <1>7 DEF IdleLoss

-----------------------------------------------------------------------------
(* The invariant.                                                          *)

\* Nothing of the frame is where the user may see it.
Undoubted(j) ==
    /\ ~broken
    /\ j = 0 => ~in_frame /\ Count("frame") = 0
    /\ 0 < j /\ j <= SOF_LEN => in_frame /\ buffer = <<>>

\* While a frame is sent, of which j characters are.
At(b, j) ==
    /\ sending = Rest(b, j)
    /\ ~broken => Aligned(b, j)
    /\ ~doubt => Undoubted(j)
    /\ HeardAt(b, j)
    /\ LossAt(b, j)

Idle ==
    /\ ~doubt => ~in_frame /\ Count("frame") = 0
    /\ IdleHeard
    /\ IdleLoss

StreamInv ==
    /\ StreamTypes
    /\ FilterInv
    /\ whole <= heard
    /\ sending = <<>> => Idle
    /\ sending # <<>> => \E b \in Bodies : \E j \in 0 .. FrameLen(b) - 1 : At(b, j)

\* A step in which nothing of the console is lost and nothing of a frame shown.
Apart == Missing' = Missing /\ leaked' = leaked

\* A frame's next character, with no disturbance since the filter was last in step.
LEMMA UndoubtedByte ==
    ASSUME StreamTypes, StreamTypes', FilterInv,
           NEW b \in Bodies, NEW j \in 0 .. FrameLen(b) - 1, NEW k, k = j + 1,
           Aligned(b, j), Undoubted(j), Frames!Process(<<Char(b, j + 1), "frame">>),
           typed' = typed, broken' = broken
    PROVE  Apart /\ Undoubted(k)'
<1> DEFINE z == <<Char(b, j + 1), "frame">>
<1>1. z \in Bytes /\ j \in Nat /\ k \in Nat
  BY Sizes, CharTypes DEF Bytes
<1>2. z[1] = Char(b, j + 1) /\ z[2] = "frame"
  OBVIOUS
<1>3. Frames!Process(z)
  OBVIOUS
<1> HIDE DEF z
<1>4. Keeps(z) \/ Spills(z) \/ Opens(z) \/ Closes(z)
  BY <1>1, <1>3, Outcomes
<1>5. PICK u : u = 0 /\ u = User(z)
  BY <1>2 DEF User
<1>6. typed' = typed + u
  BY <1>5 DEF StreamTypes
<1>7. /\ Keeps(z) => (in_frame => Missing' = Missing + u)
      /\ Spills(z) => (in_frame => Missing' = Missing + u)
      /\ Opens(z) => Missing' = Missing + u
      /\ Closes(z) => /\ in_frame => Missing' = Missing + u
                      /\ ~in_frame => Missing' = Missing + Waiting + u
  BY <1>1, <1>5, <1>6, Moves, Zenon
<1>8. Missing \in Int /\ leaked \in Nat /\ SOF_LEN \in Nat /\ SOF_LEN >= 2
  BY LossTypes DEF StreamTypes
<1>a. Missing + u = Missing /\ Missing + 0 + u = Missing
  BY <1>5, <1>8
<1>9. CASE j < SOF_LEN
  <2>1. z[1] = "sof"
    BY <1>1, <1>2, <1>8, <1>9 DEF Char
  <2>2. j = 0 => ~in_frame /\ Count("frame") = 0
    BY DEF Undoubted
  <2>3. j # 0 => in_frame /\ buffer = <<>>
    BY <1>1, <1>8, <1>9 DEF Undoubted
  <2>4. ~escape_next
    BY <2>2, <2>3 DEF FilterInv
  <2>5. Opens(z)
    BY <1>4, <2>1, <2>4 DEF Keeps, Spills, Closes
  <2>6. leaked' = leaked
    <3>1. CASE j = 0
      <4>1. leaked' = leaked + Count("frame")
        BY <2>2, <2>5, <3>1 DEF Opens, Passes
      <4> QED
        BY <1>8, <2>2, <3>1, <4>1
    <3>2. CASE j # 0
      BY <2>3, <2>5, <3>2 DEF Opens
    <3> QED
      BY <3>1, <3>2
  <2>7. Missing' = Missing
    BY <1>7, <1>a, <2>5
  <2>8. in_frame' /\ buffer' = <<>> /\ k # 0
    BY <1>1, <2>5 DEF Opens
  <2>9. ~broken'
    BY DEF Undoubted
  <2> QED
    BY <2>6, <2>7, <2>8, <2>9 DEF Apart, Undoubted
<1>10. CASE j >= SOF_LEN
  <2>1. ~(k = 0) /\ ~(k <= SOF_LEN)
    BY <1>1, <1>8, <1>10
  <2>2. Undoubted(k)'
    BY <2>1, Zenon DEF Undoubted
  <2>3. CASE j <= SOF_LEN + Len(b)
    <3>1. in_frame
      BY <1>10, <2>3 DEF Aligned, InContent
    <3>2. leaked' = leaked
      BY <1>4, <3>1 DEF Keeps, Spills, Opens, Closes
    <3>3. Missing' = Missing
      BY <1>4, <1>7, <1>a, <3>1
    <3> QED
      BY <2>2, <3>2, <3>3 DEF Apart
  <2>4. CASE j > SOF_LEN + Len(b)
    <3>1. buffer = <<>> /\ ~in_frame /\ ~escape_next
      BY <2>4 DEF Aligned
    <3>2. z[1] = "eof"
      BY <1>1, <1>2, <2>4, Sizes DEF Char
    <3>3. Closes(z)
      BY <1>4, <3>1, <3>2 DEF Keeps, Spills, Opens
    <3>4. Waiting = 0
      BY <3>1, LostIs
    <3>5. Missing' = Missing
      BY <1>7, <1>a, <3>1, <3>3, <3>4
    <3>6. leaked' = leaked
      BY <3>3 DEF Closes
    <3> QED
      BY <2>2, <3>5, <3>6 DEF Apart
  <2> QED
    BY <1>1, <2>3, <2>4, Sizes
<1> QED
  BY <1>1, <1>8, <1>9, <1>10

\* A plain character of the console, the same.
LEMMA UndoubtedTyped ==
    ASSUME StreamTypes, StreamTypes', FilterInv, ~in_frame, Count("frame") = 0,
           NEW byte \in Bytes, byte[2] = "console", byte[1] \in {"text", "dle"},
           Frames!Process(byte), typed' = typed + 1
    PROVE  Apart /\ ~in_frame' /\ Count("frame")' = 0
<1>1. Keeps(byte) \/ Spills(byte)
  BY Outcomes DEF Opens, Closes
<1>2. PICK u : u = 1 /\ u = User(byte)
  BY DEF User
<1>3. typed' = typed + u
  BY <1>2
<1>4. Missing' = Missing
  BY <1>1, <1>2, <1>3, Moves, Zenon
<1>5. CASE Keeps(byte)
  <2>1. buffer' = Append(buffer, byte) /\ ~in_frame' /\ leaked' = leaked
    BY <1>5 DEF Keeps
  <2>2. Frames!From("frame", Append(buffer, byte)) = Frames!From("frame", buffer) + 0
    <3>1. buffer \in Seq(Bytes)
      BY DEF StreamTypes
    <3> QED
      BY <3>1, CountedAppend
  <2>3. Count("frame")' = 0
    BY <2>1, <2>2 DEF Count
  <2> QED
    BY <1>4, <2>1, <2>3 DEF Apart
<1>6. CASE Spills(byte)
  <2>1. buffer' = <<>> /\ ~in_frame' /\ leaked' = leaked + (Count("frame") + 0)
    BY <1>6 DEF Spills, Passes
  <2>2. leaked' = leaked
    BY <2>1 DEF StreamTypes
  <2>3. Count("frame")' = 0
    BY <2>1, Emptied
  <2> QED
    BY <1>4, <2>1, <2>2, <2>3 DEF Apart
<1> QED
  BY <1>1, <1>5, <1>6

\* What FramesApart says of a step: without a disturbance before or after it, the step is Apart.
Step == ~doubt /\ ~doubt' => Apart

\* The types, of their parts.
LEMMA TypesFrom ==
    ASSUME StreamTypes, FilterTypes', {broken', doubt'} \subseteq BOOLEAN,
           {typed', whole', frames', noise'} \subseteq Nat
    PROVE  StreamTypes'
  BY DEF StreamTypes, FilterTypes

\* The next character of a frame is a byte.
LEMMA FirstBytes ==
    ASSUME NEW b \in Bodies, NEW j \in 0 .. FrameLen(b) - 1
    PROVE  <<Char(b, j + 1), "frame">> \in Bytes
  BY Sizes, CharTypes DEF Bytes

\* A heartbeat begins.
LEMMA SendKeeps ==
    ASSUME StreamInv, Frames!SendHeartbeat
    PROVE  StreamInv' /\ Step
<1>1. sending = <<>> /\ Idle /\ StreamTypes /\ FilterInv /\ whole <= heard
  BY DEF Frames!SendHeartbeat, StreamInv
<1>2. PICK b \in Bodies : sending' = Frames!Build(b)
  BY DEF Frames!SendHeartbeat
<1>3. /\ UNCHANGED <<buffer, escape_next, in_frame, passed, heard, typed, whole, doubt, leaked,
                     excess, noise>>
      /\ frames' = frames + 1 /\ broken' = FALSE
  BY DEF Frames!SendHeartbeat, Frames!filter
<1>4. StreamTypes'
  <2>1. FilterTypes'
    BY <1>1, <1>3 DEF StreamTypes, FilterTypes
  <2>2. {broken', doubt'} \subseteq BOOLEAN
    BY <1>1, <1>3 DEF StreamTypes
  <2>3. {typed', whole', frames', noise'} \subseteq Nat
    BY <1>1, <1>3 DEF StreamTypes
  <2> QED
    BY <1>1, <2>1, <2>2, <2>3, TypesFrom
<1>5. FilterInv'
  BY <1>1, <1>3 DEF FilterInv
<1>6. whole' <= heard'
  BY <1>1, <1>3
<1>7. Missing' = Missing /\ Waiting' = Waiting /\ Budget' = Budget /\ Count("frame")' = Count("frame")
  BY <1>3 DEF Missing, Frames!Lost, Frames!Pending, Waiting, Count, Budget
<1>8. 0 \in 0 .. FrameLen(b) - 1 /\ SOF_LEN \in Nat /\ SOF_LEN >= 2 /\ Len(b) \in Nat
  BY Sizes
<1>9. sending' = Rest(b, 0) /\ sending' # <<>>
  BY <1>2, <1>8, BuildIs, RestSteps
<1>10. PICK j : j = 0
  OBVIOUS
<1>11. ~(j >= SOF_LEN) /\ ~(j > SOF_LEN + Len(b)) /\ j + 1 < SOF_LEN /\ ~(0 < j)
  BY <1>8, <1>10
<1>12. Aligned(b, j)'
  BY <1>11, Zenon DEF Aligned
<1>13. Undoubted(j)' \/ doubt'
  <2>1. doubt' \/ (~in_frame /\ Count("frame") = 0)
    BY <1>1, <1>3 DEF Idle
  <2>2. doubt' \/ (~in_frame' /\ Count("frame")' = 0)
    BY <1>3, <1>7, <2>1
  <2> QED
    BY <1>3, <1>11, <2>2 DEF Undoubted
<1>14. HeardAt(b, j)'
  <2>1. heard <= whole + noise /\ (in_frame => heard + 1 <= whole + noise)
    BY <1>1 DEF Idle, IdleHeard
  <2>2. heard' <= whole' + noise' /\ (in_frame' => heard' + 1 <= whole' + noise')
    BY <1>3, <2>1
  <2> QED
    BY <1>3, <1>11, <2>2 DEF HeardAt
<1>15. SmallLoss(j)'
  <2>1. /\ Missing <= Budget
        /\ ~in_frame => Missing + Len(buffer) <= Budget + MAX_FRAME_BUFFER_SIZE
    BY <1>1 DEF Idle, IdleLoss
  <2>2. Len(buffer)' = Len(buffer)
    BY <1>3
  <2>3. /\ Missing' <= Budget'
        /\ ~in_frame' => Missing' + Len(buffer)' <= Budget' + MAX_FRAME_BUFFER_SIZE
    BY <1>3, <1>7, <2>1, <2>2
  <2> QED
    BY <1>11, <2>3 DEF SmallLoss
<1>16. LossAt(b, j)'
  BY <1>12, <1>15, Zenon DEF LossAt
<1>17. At(b, j)'
  BY <1>9, <1>10, <1>12, <1>13, <1>14, <1>16 DEF At
<1>18. \E c \in Bodies : \E i \in 0 .. FrameLen(c) - 1 : At(c, i)'
  BY <1>8, <1>10, <1>17
<1>19. StreamInv'
  BY <1>4, <1>5, <1>6, <1>9, <1>18 DEF StreamInv
<1>20. Apart
  BY <1>3, <1>7 DEF Apart
<1> QED
  BY <1>19, <1>20 DEF Step

\* A character of the console keeps the types.
LEMMA TypeTypes ==
    ASSUME StreamTypes, Frames!Type
    PROVE  StreamTypes'
<1>1. PICK c \in Frames!Characters :
        /\ Frames!Process(<<c, "console">>)
        /\ IF sending = <<>> /\ c \in {"text", "dle"}
           THEN UNCHANGED <<broken, doubt, noise>>
           ELSE broken' = (sending # <<>>) /\ doubt' = TRUE /\ noise' = noise + 1
  BY DEF Frames!Type, Frames!Noise
<1>2. <<c, "console">> \in Bytes
  BY DEF Bytes
<1>3. FilterTypes'
  BY <1>1, <1>2, ProcessTypes
<1>4. typed' = typed + 1 /\ whole' = whole /\ frames' = frames
  BY DEF Frames!Type
<1>5. {broken', doubt'} \subseteq BOOLEAN
  BY <1>1 DEF StreamTypes
<1>6. noise' = noise \/ noise' = noise + 1
  BY <1>1
<1>7. {typed', whole', frames', noise'} \subseteq Nat
  BY <1>4, <1>6 DEF StreamTypes
<1> QED
  BY <1>3, <1>5, <1>7, TypesFrom

\* A character of the console, in a frame or between two.
LEMMA TypeKeeps ==
    ASSUME StreamInv, Frames!Type
    PROVE  StreamInv' /\ Step
<1>1. PICK c \in Frames!Characters :
        /\ Frames!Process(<<c, "console">>)
        /\ IF sending = <<>> /\ c \in {"text", "dle"}
           THEN UNCHANGED <<broken, doubt, noise>>
           ELSE broken' = (sending # <<>>) /\ doubt' = TRUE /\ noise' = noise + 1
  BY DEF Frames!Type, Frames!Noise
<1> DEFINE z == <<c, "console">>
<1>2. z \in Bytes /\ z[2] = "console" /\ z[1] = c /\ Frames!Process(z)
  BY <1>1 DEF Bytes
<1> HIDE DEF z
<1>3. typed' = typed + 1 /\ whole' = whole /\ frames' = frames /\ sending' = sending
  BY DEF Frames!Type
<1>4. StreamTypes /\ FilterInv /\ whole <= heard
  BY DEF StreamInv
<1>5. StreamTypes'
  BY <1>4, TypeTypes
<1>6. FilterInv'
  BY <1>2, <1>4, FilterKept
<1>7. CASE sending = <<>> /\ c \in {"text", "dle"}
  <2>1. UNCHANGED <<broken, doubt, noise>>
    BY <1>1, <1>7
  <2>2. Idle
    BY <1>7 DEF StreamInv
  <2>3. IdleHeard' /\ heard <= heard'
    BY <1>2, <1>3, <1>4, <1>5, <1>7, <2>1, <2>2, HeardIdle DEF Idle
  <2>4. IdleLoss'
    BY <1>2, <1>3, <1>4, <1>5, <1>7, <2>1, <2>2, IdleLossPlain DEF Idle
  <2>5. ASSUME ~doubt PROVE Apart /\ ~in_frame' /\ Count("frame")' = 0
    <3>1. ~in_frame /\ Count("frame") = 0
      BY <2>2, <2>5 DEF Idle
    <3> QED
      BY <1>2, <1>3, <1>4, <1>5, <1>7, <3>1, UndoubtedTyped
  <2>6. Idle'
    BY <2>1, <2>3, <2>4, <2>5 DEF Idle
  <2>7. whole' <= heard'
    BY <1>3, <1>4, <1>5, <2>3 DEF StreamTypes
  <2> QED
    BY <1>3, <1>5, <1>6, <1>7, <2>5, <2>6, <2>7 DEF StreamInv, Step
<1>8. CASE sending = <<>> /\ c \notin {"text", "dle"}
  <2>1. doubt' /\ noise' = noise + 1
    BY <1>1, <1>8
  <2>2. Idle
    BY <1>8 DEF StreamInv
  <2>3. IdleHeard' /\ heard <= heard'
    BY <1>2, <1>3, <1>4, <1>5, <2>1, <2>2, HeardIdle DEF Idle
  <2>4. IdleLoss'
    BY <1>2, <1>3, <1>4, <1>5, <2>1, <2>2, IdleLossSpecial DEF Idle
  <2>6. Idle'
    BY <2>1, <2>3, <2>4 DEF Idle
  <2>7. whole' <= heard'
    BY <1>3, <1>4, <1>5, <2>3 DEF StreamTypes
  <2> QED
    BY <1>3, <1>5, <1>6, <1>8, <2>1, <2>6, <2>7 DEF StreamInv, Step
<1>9. CASE sending # <<>>
  <2>1. broken' /\ doubt' /\ noise' = noise + 1
    BY <1>1, <1>9
  <2>2. PICK b \in Bodies : \E j \in 0 .. FrameLen(b) - 1 : At(b, j)
    BY <1>9 DEF StreamInv
  <2>3. PICK j \in 0 .. FrameLen(b) - 1 : At(b, j)
    BY <2>2
  <2>4. /\ sending = Rest(b, j) /\ (~broken => Aligned(b, j))
        /\ HeardAt(b, j) /\ LossAt(b, j)
    BY <2>3 DEF At
  <2>5. HeardAt(b, j)' /\ heard <= heard'
    BY <1>2, <1>3, <1>4, <1>5, <2>1, <2>4, HeardTyped
  <2>6. LossAt(b, j)'
    <3>1. j \in Nat
      BY Sizes
    <3>2. CASE Aligned(b, j) /\ SmallLoss(j)
      BY <1>2, <1>3, <1>4, <1>5, <2>1, <3>2, SmallLossTyped
    <3>3. CASE LargeLoss(j)
      <4>1. LargeLoss(j)'
        BY <1>2, <1>3, <1>4, <1>5, <2>1, <3>1, <3>3, LargeLossTyped
      <4> QED
        BY <4>1, Zenon DEF LossAt
    <3> QED
      BY <2>4, <3>2, <3>3 DEF LossAt
  <2>7. At(b, j)'
    BY <1>3, <2>1, <2>4, <2>5, <2>6 DEF At
  <2>8. \E d \in Bodies : \E i \in 0 .. FrameLen(d) - 1 : At(d, i)'
    BY <2>7
  <2>9. whole' <= heard'
    BY <1>3, <1>4, <1>5, <2>5 DEF StreamTypes
  <2> QED
    BY <1>3, <1>5, <1>6, <1>9, <2>1, <2>8, <2>9 DEF StreamInv, Step
<1> QED
  BY <1>7, <1>8, <1>9

\* While a frame is sent there is a content and a place in it.
LEMMA SendingAt ==
    ASSUME StreamInv, sending # <<>>
    PROVE  /\ StreamTypes /\ FilterInv /\ whole <= heard
           /\ \E b \in Bodies : \E j \in 0 .. FrameLen(b) - 1 : At(b, j)
  BY DEF StreamInv

\* A frame's next character, and the last one.
LEMMA FrameByteKeeps ==
    ASSUME StreamInv, Frames!FrameByte
    PROVE  StreamInv' /\ Step
<1>1. /\ sending # <<>> /\ Frames!Process(<<Head(sending), "frame">>) /\ sending' = Tail(sending)
      /\ IF Tail(sending) = <<>> /\ ~broken
         THEN whole' = whole + 1 /\ doubt' = FALSE
         ELSE UNCHANGED <<whole, doubt>>
      /\ UNCHANGED <<broken, typed, frames, noise>>
  BY DEF Frames!FrameByte
<1>2. StreamTypes /\ FilterInv /\ whole <= heard
  BY <1>1, SendingAt
<1>3. PICK b \in Bodies : \E j \in 0 .. FrameLen(b) - 1 : At(b, j)
  BY <1>1, SendingAt
<1>4. PICK j \in 0 .. FrameLen(b) - 1 : At(b, j)
  BY <1>3
<1>5. /\ sending = Rest(b, j) /\ (~broken => Aligned(b, j)) /\ (~doubt => Undoubted(j))
      /\ HeardAt(b, j) /\ LossAt(b, j)
  BY <1>4 DEF At
<1>6. PICK k \in Nat : k = j + 1
  BY Sizes
<1>7. /\ Head(sending) = Char(b, j + 1) /\ Tail(sending) = Rest(b, k)
      /\ Rest(b, k) = <<>> <=> k = FrameLen(b)
  BY <1>5, <1>6, RestSteps
<1> DEFINE z == <<Char(b, j + 1), "frame">>
<1>8. z \in Bytes /\ Frames!Process(z)
  BY <1>1, <1>7, FirstBytes
<1>9. FilterTypes' /\ FilterInv'
  BY <1>2, <1>8, ProcessTypes, FilterKept
<1>10. StreamTypes'
  <2>1. {broken', doubt'} \subseteq BOOLEAN
    BY <1>1, <1>2 DEF StreamTypes
  <2>2. whole' = whole \/ whole' = whole + 1
    BY <1>1
  <2>3. {typed', whole', frames', noise'} \subseteq Nat
    BY <1>1, <1>2, <2>2 DEF StreamTypes
  <2> QED
    BY <1>2, <1>9, <2>1, <2>3, TypesFrom
<1>11. ~broken => Aligned(b, k)'
  BY <1>2, <1>5, <1>6, <1>8, AlignedByte
<1>12. LossAt(b, k)'
  <2>1. CASE Aligned(b, j) /\ SmallLoss(j)
    <3>1. Aligned(b, k)'
      BY <1>2, <1>6, <1>8, <2>1, AlignedByte
    <3>2. SmallLoss(k)'
      BY <1>1, <1>2, <1>6, <1>8, <1>10, <2>1, SmallLossByte
    <3> QED
      BY <3>1, <3>2, Zenon DEF LossAt
  <2>2. CASE LargeLoss(j)
    <3>1. LargeLoss(k)'
      BY <1>1, <1>2, <1>6, <1>8, <1>10, <2>2, LargeLossByte
    <3> QED
      BY <3>1, Zenon DEF LossAt
  <2> QED
    BY <1>5, <2>1, <2>2 DEF LossAt
<1>13. /\ k = FrameLen(b) /\ ~broken => whole' = whole + 1 /\ ~doubt'
       /\ k # FrameLen(b) \/ broken => whole' = whole /\ doubt' = doubt
  BY <1>1, <1>7
<1>14. /\ whole' <= heard'
       /\ k # FrameLen(b) => HeardAt(b, k)'
       /\ k = FrameLen(b) => IdleHeard'
  <2>1. CASE broken
    <3>1. /\ heard <= heard'
          /\ k # FrameLen(b) => HeardAt(b, k)'
          /\ k = FrameLen(b) => IdleHeard'
      BY <1>1, <1>2, <1>5, <1>6, <1>8, <1>10, <1>13, <2>1, HeardBrokenByte
    <3>2. whole' <= heard'
      BY <1>2, <1>10, <1>13, <2>1, <3>1 DEF StreamTypes
    <3> QED
      BY <3>1, <3>2
  <2>2. CASE ~broken
    BY <1>1, <1>2, <1>5, <1>6, <1>8, <1>10, <1>13, <2>2, HeardWholeByte
  <2> QED
    BY <2>1, <2>2
<1>15. ASSUME ~doubt PROVE Apart /\ Undoubted(k)'
  <2>1. Undoubted(j) /\ ~broken
    BY <1>5, <1>15 DEF Undoubted
  <2> QED
    BY <1>1, <1>2, <1>5, <1>6, <1>8, <1>10, <2>1, UndoubtedByte
<1>16. CASE k # FrameLen(b)
  <2>1. sending' = Rest(b, k) /\ sending' # <<>> /\ k \in 0 .. FrameLen(b) - 1
    BY <1>1, <1>6, <1>7, <1>16, Sizes
  <2>2. doubt' = doubt /\ broken' = broken
    BY <1>1, <1>13, <1>16
  <2>3. At(b, k)'
    BY <1>11, <1>12, <1>14, <1>15, <1>16, <2>1, <2>2 DEF At
  <2>4. \E d \in Bodies : \E i \in 0 .. FrameLen(d) - 1 : At(d, i)'
    BY <2>1, <2>3
  <2> QED
    BY <1>9, <1>10, <1>14, <1>15, <2>1, <2>4 DEF StreamInv, Step
<1>17. CASE k = FrameLen(b)
  <2>1. sending' = <<>>
    BY <1>1, <1>7, <1>17
  <2>2. IdleLoss'
    BY <1>2, <1>10, <1>12, <1>17, LossEnds
  <2>3. ASSUME ~doubt' PROVE ~in_frame' /\ Count("frame")' = 0
    <3>1. ~broken
      BY <1>5, <1>13, <2>3 DEF Undoubted
    <3>2. k > SOF_LEN + Len(b)
      BY <1>17, Sizes
    <3>3. buffer' = <<>> /\ ~in_frame'
      BY <1>11, <3>1, <3>2, Zenon DEF Aligned
    <3> QED
      BY <3>3, Emptied
  <2>4. Idle'
    BY <1>14, <1>17, <2>2, <2>3 DEF Idle
  <2> QED
    BY <1>9, <1>10, <1>14, <1>15, <2>1, <2>4 DEF StreamInv, Step
<1> QED
  BY <1>16, <1>17

\* The line loses a byte of a frame, or the rest.
LEMMA FrameLostKeeps ==
    ASSUME StreamInv, Frames!FrameLost
    PROVE  StreamInv' /\ Step
<1>1. /\ sending # <<>> /\ noise' = noise + 1 /\ sending' \in {Tail(sending), <<>>}
      /\ broken' = (sending' # <<>>) /\ doubt'
      /\ UNCHANGED <<buffer, escape_next, in_frame, passed, heard, typed, whole, leaked, excess, frames>>
  BY DEF Frames!FrameLost, Frames!Noise, Frames!filter
<1>2. StreamTypes /\ FilterInv /\ whole <= heard
  BY <1>1, SendingAt
<1>3. PICK b \in Bodies : \E j \in 0 .. FrameLen(b) - 1 : At(b, j)
  BY <1>1, SendingAt
<1>4. PICK j \in 0 .. FrameLen(b) - 1 : At(b, j)
  BY <1>3
<1>5. /\ sending = Rest(b, j) /\ (~broken => Aligned(b, j))
      /\ HeardAt(b, j) /\ LossAt(b, j)
  BY <1>4 DEF At
<1>6. PICK k \in Nat : k = j + 1
  BY Sizes
<1>7. /\ Tail(sending) = Rest(b, k)
      /\ Rest(b, k) = <<>> <=> k = FrameLen(b)
  BY <1>5, <1>6, RestSteps
<1>8. StreamTypes'
  <2>1. FilterTypes'
    BY <1>1, <1>2 DEF StreamTypes, FilterTypes
  <2>2. {broken', doubt'} \subseteq BOOLEAN
    BY <1>1 DEF Frames!FrameLost
  <2>3. {typed', whole', frames', noise'} \subseteq Nat
    BY <1>1, <1>2 DEF StreamTypes
  <2> QED
    BY <1>2, <2>1, <2>2, <2>3, TypesFrom
<1>9. FilterInv'
  BY <1>1, <1>2 DEF FilterInv
<1>10. whole' <= heard'
  BY <1>1, <1>2
<1>11. LossAt(b, k)' /\ IdleLoss'
  BY <1>1, <1>2, <1>5, <1>6, <1>8, LossSkipped
<1>12. CASE sending' = <<>>
  <2>1. IdleHeard'
    BY <1>1, <1>2, <1>5, <1>8, HeardCut
  <2>2. Idle'
    BY <1>1, <1>11, <2>1 DEF Idle
  <2> QED
    BY <1>1, <1>8, <1>9, <1>10, <1>12, <2>2 DEF StreamInv, Step
<1>13. CASE sending' # <<>>
  <2>1. sending' = Rest(b, k) /\ k # FrameLen(b) /\ broken'
    BY <1>1, <1>7, <1>13
  <2>2. k \in j .. FrameLen(b) - 1 /\ k \in 0 .. FrameLen(b) - 1
    BY <1>6, <2>1, Sizes
  <2>3. ~broken /\ j > SOF_LEN + Len(b) => Len(buffer)' <= 1 /\ ~escape_next'
    <3>1. ASSUME ~broken, j > SOF_LEN + Len(b) PROVE Len(buffer)' <= 1 /\ ~escape_next'
      <4>1. buffer = <<>> /\ ~escape_next
        BY <1>5, <3>1 DEF Aligned
      <4> QED
        BY <1>1, <4>1
    <3> QED
      BY <3>1
  <2>4. HeardAt(b, k)'
    BY <1>1, <1>2, <1>5, <1>8, <2>1, <2>2, <2>3, HeardDisturbed
  <2>5. At(b, k)'
    BY <1>1, <1>11, <2>1, <2>4 DEF At
  <2>6. \E d \in Bodies : \E i \in 0 .. FrameLen(d) - 1 : At(d, i)'
    BY <2>2, <2>5
  <2> QED
    BY <1>1, <1>8, <1>9, <1>10, <1>13, <2>6 DEF StreamInv, Step
<1> QED
  BY <1>12, <1>13

\* What a timeout and a new proxy have in common.
LEMMA FlushKeeps ==
    ASSUME StreamInv, Flushes, Frames!Settled,
           UNCHANGED <<sending, heard, typed, whole, excess, frames>>
    PROVE  StreamInv' /\ Step
<1>1. StreamTypes /\ FilterInv /\ whole <= heard
  BY DEF StreamInv
<1>2. IF sending = <<>>
      THEN doubt' = FALSE /\ UNCHANGED <<broken, noise>>
      ELSE doubt' = TRUE /\ broken' = TRUE /\ noise' = noise + 1
  BY DEF Frames!Settled, Frames!Noise
<1>3. StreamTypes'
  <2>1. FilterTypes'
    BY <1>1, FlushedTypes
  <2>2. {broken', doubt'} \subseteq BOOLEAN
    BY <1>1, <1>2 DEF StreamTypes
  <2>3. noise' = noise \/ noise' = noise + 1
    BY <1>2
  <2>4. {typed', whole', frames', noise'} \subseteq Nat
    BY <1>1, <2>3 DEF StreamTypes
  <2> QED
    BY <1>1, <2>1, <2>2, <2>4, TypesFrom
<1>4. /\ buffer' = <<>> /\ ~escape_next' /\ ~in_frame'
      /\ ~in_frame => Missing' = Missing
      /\ ~in_frame /\ Count("frame") = 0 => leaked' = leaked
  BY <1>1, <1>3, Flushed
<1>5. FilterInv'
  BY <1>4, FilterCleared
<1>6. whole' <= heard'
  BY <1>1
<1>7. CASE sending = <<>>
  <2>1. Idle
    BY <1>7 DEF StreamInv
  <2>2. noise' = noise
    BY <1>2, <1>7
  <2>3. IdleLoss'
    BY <1>1, <1>3, <2>1, <2>2, IdleLossFlushed DEF Idle
  <2>4. heard' <= whole' + noise'
    BY <2>1, <2>2 DEF Idle, IdleHeard
  <2>5. Count("frame")' = 0
    BY <1>4, Emptied
  <2>6. Idle'
    BY <1>4, <2>3, <2>4, <2>5 DEF Idle, IdleHeard
  <2>7. ~doubt => Apart
    BY <1>4, <2>1 DEF Idle, Apart
  <2> QED
    BY <1>3, <1>5, <1>6, <1>7, <2>6, <2>7 DEF StreamInv, Step
<1>8. CASE sending # <<>>
  <2>1. doubt' /\ broken' /\ noise' = noise + 1
    BY <1>2, <1>8
  <2>2. PICK b \in Bodies : \E j \in 0 .. FrameLen(b) - 1 : At(b, j)
    BY <1>8, SendingAt
  <2>3. PICK j \in 0 .. FrameLen(b) - 1 : At(b, j)
    BY <2>2
  <2>4. sending = Rest(b, j) /\ HeardAt(b, j) /\ LossAt(b, j)
    BY <2>3 DEF At
  <2>5. j \in j .. FrameLen(b) - 1
    BY Sizes
  <2>6. Len(buffer)' <= 1
    BY <1>4
  <2>7. HeardAt(b, j)'
    BY <1>1, <1>3, <1>4, <2>1, <2>4, <2>5, <2>6, HeardDisturbed
  <2>8. LossAt(b, j)'
    BY <1>1, <1>3, <2>1, <2>4, LossFlushed
  <2>9. At(b, j)'
    BY <2>1, <2>4, <2>7, <2>8 DEF At
  <2>10. \E d \in Bodies : \E i \in 0 .. FrameLen(d) - 1 : At(d, i)'
    BY <2>9
  <2> QED
    BY <1>3, <1>5, <1>6, <1>8, <2>1, <2>10 DEF StreamInv, Step
<1> QED
  BY <1>7, <1>8

\* The invariant holds initially.
LEMMA StreamInit == Frames!Init => StreamInv
<1> SUFFICES ASSUME Frames!Init PROVE StreamInv
  OBVIOUS
<1>1. /\ sending = <<>> /\ buffer = <<>> /\ escape_next = FALSE /\ in_frame = FALSE
      /\ broken = FALSE /\ doubt = FALSE
      /\ passed = 0 /\ heard = 0 /\ typed = 0 /\ whole = 0 /\ leaked = 0 /\ excess = 0
      /\ frames = 0 /\ noise = 0
  BY DEF Frames!Init
<1>2. StreamTypes
  <2>1. buffer \in Seq(Bytes)
    BY <1>1
  <2>2. {passed, heard, typed, whole, leaked, excess, frames, noise} \subseteq Nat
    BY <1>1
  <2>3. {escape_next, in_frame, broken, doubt} \subseteq BOOLEAN
    BY <1>1
  <2> QED
    BY <2>1, <2>2, <2>3 DEF StreamTypes
<1>3. FilterInv
  BY <1>1 DEF FilterInv
<1>4. Waiting = 0 /\ Len(buffer) = 0 /\ Missing = 0
  <2>1. Waiting = 0 /\ Len(buffer) = 0
    BY <1>1, <1>2, LostIs
  <2>2. Missing = typed - passed - Waiting
    BY <1>1, <1>2, LostIs
  <2> QED
    BY <1>1, <2>1, <2>2
<1>5. Count("frame") = 0
  BY <1>1, CountedEmpty DEF Count
<1>6. Budget = 0 /\ MAX_FRAME_BUFFER_SIZE \in Nat
  <2>1. MAX_FRAME_BUFFER_SIZE + 1 \in Nat /\ MAX_FRAME_BUFFER_SIZE \in Nat
    BY ConsoleAssumption DEF ConsoleAssumption
  <2>2. Budget = 0 * (MAX_FRAME_BUFFER_SIZE + 1) + 0
    BY <1>1 DEF Budget
  <2> QED
    BY <2>1, <2>2
<1>7. Idle
  BY <1>1, <1>4, <1>5, <1>6 DEF Idle, IdleHeard, IdleLoss
<1> QED
  BY <1>1, <1>2, <1>3, <1>7 DEF StreamInv

\* Each step keeps the invariant, and takes nothing from the user without doubt.
LEMMA StreamStep ==
    ASSUME StreamInv, [Frames!Next]_Frames!frameVars
    PROVE  StreamInv' /\ Step
<1>1. CASE Frames!Type
  BY <1>1, TypeKeeps
<1>2. CASE Frames!SendHeartbeat
  BY <1>2, SendKeeps
<1>3. CASE Frames!FrameByte
  BY <1>3, FrameByteKeeps
<1>4. CASE Frames!FrameLost
  BY <1>4, FrameLostKeeps
<1>5. CASE Frames!Timeout
  <2>1. Flushes /\ Frames!Settled /\ UNCHANGED <<sending, heard, typed, whole, excess, frames>>
    BY <1>5 DEF Frames!Timeout, Frames!Empty, Flushes
  <2> QED
    BY <2>1, FlushKeeps
<1>6. CASE Frames!Replaced
  <2>1. Flushes /\ Frames!Settled /\ UNCHANGED <<sending, heard, typed, whole, excess, frames>>
    BY <1>6 DEF Frames!Replaced, Flushes
  <2> QED
    BY <2>1, FlushKeeps
<1>7. CASE UNCHANGED Frames!frameVars
  <2>1. UNCHANGED <<sending, buffer, escape_next, in_frame, passed, heard, typed, whole, broken,
                    doubt, leaked, excess, frames, noise>>
    BY <1>7 DEF Frames!frameVars, Frames!filter
  <2>2. StreamInv'
    BY <2>1 DEF StreamInv, StreamTypes, FilterInv, Idle, IdleHeard, IdleLoss, At, Undoubted,
                HeardAt, Hopeless, LossAt, SmallLoss, LargeLoss, Aligned, InContent, Window,
                Count, Waiting, Missing, Frames!Lost, Frames!Pending, Budget
  <2>3. Apart
    BY <2>1 DEF Apart, Missing, Frames!Lost, Frames!Pending
  <2> QED
    BY <2>2, <2>3 DEF Step
<1> QED
  BY <1>1, <1>2, <1>3, <1>4, <1>5, <1>6, <1>7 DEF Frames!Next

\* StreamInv is inductive.
LEMMA StreamInvariant == Frames!Spec => []StreamInv
<1>1. Frames!Init => StreamInv
  BY StreamInit
<1>2. StreamInv /\ [Frames!Next]_Frames!frameVars => StreamInv'
  BY StreamStep
<1> QED
  BY <1>1, <1>2, PTL DEF Frames!Spec

\* What the invariant says of heartbeats and losses.
LEMMA InvHears == StreamInv => HeartbeatsHeard
<1> SUFFICES ASSUME StreamInv PROVE HeartbeatsHeard
  OBVIOUS
<1>1. StreamTypes /\ whole <= heard
  BY DEF StreamInv
<1>2. heard \in Nat /\ whole \in Nat /\ noise \in Nat
  BY <1>1 DEF StreamTypes
<1>3. MAX_FRAME_BUFFER_SIZE \in Nat /\ Missing \in Int /\ Budget \in Int
  BY <1>1, LostIs, ConsoleAssumption DEF ConsoleAssumption
<1>4. CASE sending = <<>>
  <2>1. heard <= whole + noise /\ Missing <= Budget
    BY <1>4 DEF StreamInv, Idle, IdleHeard, IdleLoss
  <2>2. heard \in whole .. whole + noise + (IF sending # <<>> THEN 1 ELSE 0)
    BY <1>1, <1>2, <1>4, <2>1
  <2> QED
    BY <2>1, <2>2 DEF HeartbeatsHeard, Frames!HeartbeatsHeard, Missing, Budget
<1>5. CASE sending # <<>>
  <2>1. PICK b \in Bodies : \E j \in 0 .. FrameLen(b) - 1 : At(b, j)
    BY <1>5, SendingAt
  <2>2. PICK j \in 0 .. FrameLen(b) - 1 : At(b, j)
    BY <2>1
  <2>3. HeardAt(b, j) /\ LossAt(b, j)
    BY <2>2 DEF At
  <2>4. heard <= whole + noise + 1
    <3>1. heard <= whole + noise \/ heard <= whole + noise + 1
      BY <1>1, <2>3, HeardTypes, Sizes DEF HeardAt
    <3> QED
      BY <1>2, <3>1
  <2>5. Missing <= Budget
    BY <1>3, <2>3 DEF LossAt, SmallLoss, LargeLoss
  <2>6. heard \in whole .. whole + noise + (IF sending # <<>> THEN 1 ELSE 0)
    BY <1>1, <1>2, <1>5, <2>4
  <2> QED
    BY <2>5, <2>6 DEF HeartbeatsHeard, Frames!HeartbeatsHeard, Missing, Budget
<1> QED
  BY <1>4, <1>5

\* The frames are a part of the program that TLC checks.
LEMMA StreamPart == ConsoleSpec => Frames!Spec
<1>1. ConsoleInit => Frames!Init
  BY DEF ConsoleInit
<1>2. [ConsoleNext]_consoleVars => [Frames!Next]_Frames!frameVars
  BY DEF ConsoleNext, LinksStep, FramesStep, HeartbeatsStep, consoleVars, streamVars,
         Frames!frameVars, Frames!filter
<1> QED
  BY <1>1, <1>2, PTL DEF ConsoleSpec, Frames!Spec

(* The state of the filter and of the counts is typed.                                       *)
THEOREM StreamTypeCorrect == ConsoleSpec => []StreamTypes
<1>1. StreamInv => StreamTypes
  BY DEF StreamInv
<1> QED
  BY <1>1, StreamPart, StreamInvariant, PTL

(* Every heartbeat whose bytes arrive together is heard, and no more frames than were sent   *)
(* and disturbances there were; a disturbance costs the user a buffer and a character at     *)
(* most, but for escapes (FrameFilter, console-monitor:287-396).                              *)
THEOREM HeartbeatsHold == ConsoleSpec => []HeartbeatsHeard
  BY StreamPart, StreamInvariant, InvHears, PTL

(* Without a disturbance no character of the console is lost and none of a frame shown       *)
(* (FrameFilter, console-monitor:287-396).                                                   *)
THEOREM FramesHoldApart == ConsoleSpec => FramesApart
<1>1. StreamInv /\ [Frames!Next]_Frames!frameVars
        => [~doubt /\ ~doubt' => Frames!Lost' = Frames!Lost /\ leaked' = leaked]_Frames!frameVars
  BY StreamStep DEF Step, Apart, Missing
<1> QED
  BY <1>1, StreamPart, StreamInvariant, PTL DEF Frames!Spec, FramesApart, Frames!FramesApart
=============================================================================
