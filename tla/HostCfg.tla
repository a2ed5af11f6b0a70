-------------------------------- MODULE HostCfg --------------------------------
(***************************************************************************)
(* scripts/hostcfgd: rows of CONFIG_DB that system services are made of.   *)
(* The services read their rows themselves, at boot and whenever they are  *)
(* restarted.  hostcfgd remembers what it takes for applied and, at a      *)
(* notification, restarts the service of a row that differs.               *)
(*                                                                         *)
(* Not here: the tables whose files hostcfgd writes itself, from the rows  *)
(* it was told of and without a comparison (AAA, PAM, passwords, ssh,      *)
(* kdump), FIPS, memory statistics, and the loopback interfaces, whose     *)
(* changes restart chrony whatever it has.                                 *)
(***************************************************************************)
EXTENDS Naturals, Sequences

CONSTANTS
    Settings,        \* values of a row
    None,            \* no row, no field, an empty one; nothing remembered
    Unread,          \* a service that has not started yet, or is stopped
    MaxSettings,     \* bound: changes of CONFIG_DB
    MaxConfigFaults  \* bound: failing commands, ends of hostcfgd

\* Fields of DEVICE_METADATA|localhost; SYSLOG_*; MGMT_INTERFACE, MGMT_VRF_CONFIG, NTP*; LOGGING,
\* SERIAL_CONSOLE (handled alike); BANNER_MESSAGE; DNS_*.
Metadata == {"hostname", "timezone", "osversion"}
Items    == Metadata \cup {"syslog", "iface", "vrf", "ntp", "logging", "banner", "dns"}

\* What a service is made of: the files of some are made together.
Service(i) ==
    CASE i \in {"osversion", "syslog"} -> {"osversion", "syslog"}
      [] i \in {"iface", "vrf"}        -> {"iface", "vrf"}
      [] OTHER                         -> {i}

VARIABLES
    setting,    \* CONFIG_DB
    news,       \* notifications hostcfgd has not handled: the item that changed
    hpc,        \* "down", "waiting" for the system to be up, "idle", "busy", and between the
                \* commands of update_mgmt_vrf
    init_data,
    remembered, \* the caches
    tasks,      \* items of the notification, or of the start, still to be looked at
    told,       \* the rows as they were read for it
    applied,    \* what each service is made of
    astray,     \* history: items whose service may have another row than hostcfgd remembers
    settings, configFaults

memory   == <<init_data, remembered, tasks, told>>
hostVars == <<setting, news, hpc, memory, applied, astray, settings, configFaults>>

Nothing == [i \in Items |-> None]

Init ==
    /\ \E s \in Settings : setting = [i \in Items |-> s]
    /\ news = <<>>
    /\ hpc = "down"
    /\ init_data = Nothing
    /\ remembered = Nothing
    /\ tasks = <<>>
    /\ told = Nothing
    /\ applied \in {a \in [Items -> Settings \cup {Unread}] :
                       \A i \in Items : a[i] \in {setting[i], Unread}}
    /\ astray = {}
    /\ settings = 0
    /\ configFaults = 0

Fault == configFaults < MaxConfigFaults /\ configFaults' = configFaults + 1
-----------------------------------------------------------------------------
(* CONFIG_DB, and the services that start with the system                  *)

Set(i) ==
    /\ settings < MaxSettings
    /\ settings' = settings + 1
    /\ \E s \in Settings \cup {None} : s # setting[i] /\ setting' = [setting EXCEPT ![i] = s]
    /\ news' = IF hpc = "down" THEN news ELSE Append(news, i)
    /\ UNCHANGED <<hpc, memory, applied, astray, configFaults>>

\* Services to be started with the system; not one that failed or was stopped.
ToBoot == {i \in Items \ astray : applied[i] = Unread}

Boots(i) ==
    /\ i \in ToBoot
    /\ hpc \in {"down", "waiting"}
    /\ applied' = [applied EXCEPT ![i] = setting[i]]
    /\ UNCHANGED <<setting, news, hpc, memory, astray, settings, configFaults>>
-----------------------------------------------------------------------------
(* The start                                                               *)

\* listen subscribes and reads all tables.
Subscribe ==
    /\ hpc = "down"
    /\ hpc' = "waiting"
    /\ init_data' = setting
    /\ UNCHANGED <<setting, news, remembered, tasks, told, applied, astray, settings,
                   configFaults>>

\* load, once the system is up: most of what was read counts as applied.  The VRF's state is
\* looked for in the table instead of its row, and not found.
Load ==
    /\ hpc = "waiting"
    /\ ToBoot = {}
    /\ hpc' = "busy"
    /\ remembered' = [init_data EXCEPT !["banner"] = None, !["vrf"] = None]
    /\ tasks' = <<"timezone", "dns", "banner">>
    /\ told' = init_data
    /\ init_data' = Nothing
    /\ astray' = {i \in Items : applied[i] # told'[i]}
    /\ UNCHANGED <<setting, news, applied, settings, configFaults>>
-----------------------------------------------------------------------------
(* Handlers                                                                *)

\* The row of the notification is read when its turn comes.
Notified ==
    /\ hpc = "idle"
    /\ news # <<>>
    /\ news' = Tail(news)
    /\ hpc' = "busy"
    /\ tasks' = IF Head(news) \in Metadata THEN <<"hostname", "timezone", "osversion">>
                                           ELSE <<Head(news)>>
    /\ told' = setting
    /\ UNCHANGED <<setting, init_data, remembered, applied, astray, settings, configFaults>>

Handled ==
    /\ hpc = "busy"
    /\ tasks = <<>>
    /\ hpc' = "idle"
    /\ told' = Nothing
    /\ UNCHANGED <<setting, news, init_data, remembered, tasks, applied, astray, settings,
                   configFaults>>

On(i) == hpc = "busy" /\ tasks # <<>> /\ Head(tasks) = i

\* The item is done with, or one of its commands is next.
Goes(step) ==
    /\ hpc' = step
    /\ tasks' = IF step = "busy" THEN Tail(tasks) ELSE tasks
    /\ UNCHANGED <<setting, news, init_data, told, settings>>

Remember(i) == remembered' = [remembered EXCEPT ![i] = told[i]]

\* Items for which nothing is to be done when there is no row, or an empty one.
IgnoresNone == {"hostname", "timezone", "osversion", "vrf", "banner"}

NothingToDo(i) ==
    \/ told[i] = None /\ i \in IgnoresNone
    \/ told[i] = remembered[i] /\ CASE i = "dns"      -> FALSE
                                    [] i = "timezone" -> applied[i] = told[i]
                                    [] OTHER          -> TRUE

Skip(i) ==
    /\ On(i)
    /\ NothingToDo(i)
    /\ Goes("busy")
    /\ UNCHANGED <<remembered, applied, astray, configFaults>>

\* The items of a service are what their rows are when it starts.
Rows(is) == [j \in Items |-> IF j \in is THEN setting[j] ELSE applied[j]]

Known(j) == IF On(j) THEN told[j] ELSE remembered[j]

Restarted(is) ==
    /\ applied' = Rows(is)
    /\ astray' = (astray \ is) \cup {j \in is : setting[j] # Known(j)}
    /\ UNCHANGED configFaults

\* It may have started all the same, or for some.
Fails(is) ==
    /\ Fault
    /\ \E part \in SUBSET is : applied' = Rows(part)
    /\ astray' = astray \cup is

\* A row that has gone differs from one that never was.
Differs(i) ==
    \/ ~NothingToDo(i)
    \/ told[i] = None /\ i \in {"iface", "logging"}

\* Mutant of RestartKept: what has been applied is not remembered.
RestartForgotten(i) ==
    /\ On(i)
    /\ i \in {"syslog", "iface", "ntp", "logging", "banner"}
    /\ Differs(i)
    /\ UNCHANGED remembered
    /\ Restarted(Service(i)) \/ Fails(Service(i))
    /\ Goes("busy")

\* What has been applied is remembered then.
RestartKept(i) ==
    /\ On(i)
    /\ i \in {"syslog", "iface", "ntp", "logging", "banner"}
    /\ Differs(i)
    /\ \/ Remember(i) /\ Restarted(Service(i))
       \/ UNCHANGED remembered /\ Fails(Service(i))
    /\ Goes("busy")

\* hostname_update remembers first; rsyslog_config and DnsCfg remember nothing.
RestartBlindly(i) ==
    /\ On(i)
    /\ i \in {"hostname", "osversion", "dns"}
    /\ ~NothingToDo(i)
    /\ IF i = "hostname" THEN Remember(i) ELSE UNCHANGED remembered
    /\ Restarted(Service(i)) \/ Fails(Service(i))
    /\ Goes("busy")

\* apply_timezone_if_needed: the command is given the row, and its outcome not looked at.
SetTimezone ==
    /\ On("timezone")
    /\ ~NothingToDo("timezone")
    /\ Remember("timezone")
    /\ \/ /\ applied' = [applied EXCEPT !["timezone"] = told["timezone"]]
          /\ astray' = astray \ {"timezone"}
          /\ UNCHANGED configFaults
       \/ UNCHANGED applied /\ astray' = astray \cup {"timezone"} /\ Fault
    /\ Goes("busy")
-----------------------------------------------------------------------------
(* update_mgmt_vrf: chrony is stopped while the interfaces change.         *)

VrfServices == {"iface", "vrf", "ntp"}

\* An exception leaves the rest undone.
GivesUp(outcomes) ==
    /\ applied' \in {applied} \cup outcomes
    /\ astray' = astray \cup VrfServices
    /\ UNCHANGED remembered
    /\ Goes("busy")
    /\ Fault

StopChrony ==
    /\ On("vrf")
    /\ ~NothingToDo("vrf")
    /\ LET stopped == [applied EXCEPT !["ntp"] = Unread]
       IN  \/ /\ applied' = stopped
              /\ Goes("interfaces")
              /\ UNCHANGED <<remembered, astray, configFaults>>
           \/ GivesUp({stopped})

RestartInterfaces ==
    /\ hpc = "interfaces"
    /\ \/ /\ applied' = Rows(Service("vrf"))
          /\ Goes("chrony")
          /\ UNCHANGED <<remembered, astray, configFaults>>
       \/ GivesUp({Rows(part) : part \in SUBSET Service("vrf")})

\* chrony reads the rows of NTP anew.
StartChrony ==
    /\ hpc = "chrony"
    /\ \/ /\ Remember("vrf")
          /\ applied' = Rows({"ntp"})
          /\ astray' = (astray \ VrfServices)
                       \cup {j \in VrfServices : applied'[j] # remembered'[j]}
          /\ Goes("busy")
          /\ UNCHANGED configFaults
       \/ GivesUp({Rows({"ntp"})})
-----------------------------------------------------------------------------
\* hostcfgd ends, at any place, and what it has not handled is lost; it starts with the system's
\* target, or by hand.
Ends ==
    /\ hpc # "down"
    /\ Fault
    /\ hpc' = "down"
    /\ news' = <<>>
    /\ init_data' = Nothing
    /\ remembered' = Nothing
    /\ tasks' = <<>>
    /\ told' = Nothing
    /\ astray' = IF hpc \in {"interfaces", "chrony"} THEN astray \cup VrfServices ELSE astray
    /\ UNCHANGED <<setting, applied, settings>>

Handle ==
    \/ \E i \in Items : Skip(i) \/ RestartKept(i) \/ RestartBlindly(i)
    \/ SetTimezone
    \/ StopChrony \/ RestartInterfaces \/ StartChrony

Next ==
    \/ \E i \in Items : Set(i) \/ Boots(i)
    \/ Subscribe \/ Load \/ Notified \/ Handle \/ Handled
    \/ Ends

Spec == Init /\ [][Next]_hostVars
-----------------------------------------------------------------------------
\* The type of the state.
TypeOK ==
    /\ setting \in [Items -> Settings \cup {None}]
    /\ news \in Seq(Items)
    /\ hpc \in {"down", "waiting", "idle", "busy", "interfaces", "chrony"}
    /\ {init_data, remembered, told} \subseteq [Items -> Settings \cup {None}]
    /\ tasks \in Seq(Items)
    /\ applied \in [Items -> Settings \cup {None, Unread}]
    /\ astray \subseteq Items
    /\ settings \in Nat
    /\ configFaults \in Nat

\* Between two notifications every service is made of the rows of CONFIG_DB, whatever changes
\* while services boot and restart and the daemon ends and starts again.  The exceptions: a
\* service that is not made of the row hostcfgd remembers, because the row changed between the
\* two readings (1496, 1619, 1708) or a command failed (1528, 1638); rows that were removed
\* (1516, 1546, 1590, 1653, 2102); and a syslog flag that is what it was at the start, since
\* its cache is never written (1595).
ServicesFollowRows ==
    (hpc = "idle" /\ news = <<>>) =>
        \A i \in Items :
            \/ applied[i] = setting[i]
            \/ i \in astray
            \/ setting[i] = None /\ i \in IgnoresNone
            \/ setting[i] = remembered[i] /\ i = "osversion"
=============================================================================
