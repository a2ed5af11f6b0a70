# A TLA+ model of sonic-host-services

This directory holds TLA+ modules that model the daemons of sonic-host-services, TLC
configurations that check them on small instances, and proofs, checked by TLAPS, of the
properties that carry most of the weight. Line numbers are those of `src/`.

    tlc -workers 2 -config cacl_update.cfg MCCaclUpdate    # any run of PROJECT.json
    tlapm CaclUpdateProofs.tla                             # any *Proofs module, some minutes each

`PROJECT.json` lists the runs, the mapping of every definition to the source lines it
models, a mutant for each property (a plausible bug in the code that the property catches),
the findings, the hazards and the theorems.

## 1. Inventory

sonic-host-services is a set of independent host processes of a SONiC switch. They share no
memory; they meet in Redis (CONFIG_DB, STATE_DB, APPL_DB), in systemd, in iptables, in files and
on D-Bus. Inside a process the main pattern is one main loop over `select`, with threads spawned
for whatever takes long.

### caclmgrd (`scripts/caclmgrd`, 1383 lines)

*State.* Rows of ACL_TABLE and ACL_RULE as last read (`_tables_db_info`, `_rules_db_info`,
one attribute each for all threads); per namespace a lock, a change counter, the current
update thread and a queue of exceptions; `RedfishAllowed`, `bfdAllowed`, `VxlanAllowed`,
`VxlanSrcIP`, `dashHaPortMap`, `DualToR`, `dhcp_packet_mark_tbl`; and, outside, iptables.

*Operations.* First programming of every namespace, subscription (`run`, 1181-1372); draining
of ACL and FEATURE notifications; counting and spawning; the update thread
(`check_and_update_control_plane_acls`, 975-1022), which sleeps until nothing changed for
`UPDATE_DELAY_SECS` and then reads, translates and programs; single insertions and deletions
for BFD, VXLAN and DASH-HA by the main thread; the DHCP chain of dual ToR devices (541-632).

*Hard.* Everything between the notification and the flush of the chain: changes that fall
between the reading of two tables, a counter reset under the main thread, an exception whose
clean-up runs without the lock, SIGKILL and restart, attributes shared by the threads of
several namespaces, the main thread editing the chain while an update flushes it; commands that fail
and are only logged (235-247); DROP rules that name a mark which changes under them.

*Correct when.* No change is lost; one update at a time per namespace; iptables holds what CONFIG_DB
asks for whenever no update is owed and no command failed, and settles there; an exception always
leads to a new start; handlers and updates agree on the BFD, VXLAN and DASH-HA rules; the DHCP chain
has one rule for each interface in standby, under its present mark.

### Reboot service (`host_modules/reboot.py`)

*State.* `reboot_status_flag` (active, when, reason, count, method, status), `reboot_count`, a
lock. *Operations.* `issue_reboot` (D-Bus), `execute_reboot` in a thread, `get_reboot_status`.
*Hard.* The flag is written by the D-Bus thread and by the reboot threads; the device may go
down at any moment; docker or psutil failing looks like success. *Correct when.* One reboot at
a time is executed and it is the one announced; success means a halt that was seen; an
accepted request ends in an outcome.

### Reboot cause (`scripts/determine-reboot-cause`, `scripts/process-reboot-cause`)

Two one-shot programs, one after the other, after a boot. *State.* Files under
`/host/reboot-cause` (`reboot-cause.txt`, the history, the link to its newest file), REBOOT_CAUSE
in STATE_DB. *Operations.* Decide the cause from the file, the kernel's command line and the
platform; write the history file; renew the link; reset `reboot-cause.txt`; publish and prune.
*Hard.* The device may go down between any two of these, and a new cause may be written while
the old one is filed. *Correct when.* The cause of a reboot is neither lost nor misfiled, the link
names a whole file, ten files at most are kept and the newest are published.

### gnoi-shutdown-daemon (`scripts/gnoi_shutdown_daemon.py`)

*State.* `active_transitions` with its lock, a thread per DPU in transition; outside: `admin_status`
(CONFIG_DB), `gnoi_halt_in_progress` and the operational status (STATE_DB, platform). *Operations.*
Receive a keyspace notification, read `admin_status`, claim the DPU, spawn; the handler: check the
operational status, wait for the flag, read the DPU's address, send Reboot(HALT), poll RebootStatus,
clear the flag. *Hard.* Notifications that come while a handler runs are dropped; the platform
raises the flag when it likes; every step has a timeout; an exception skips the clearing; a reading
that fails loses the notification. *Correct when.* One handler per DPU; it ends; a DPU that is to be
down gets a handler; the flag does not stay up.

### featured (`scripts/featured`)

*State.* `_cached_config`, `is_delayed_enabled`; FEATURE rows in CONFIG_DB, states in STATE_DB,
unit files and services in systemd. *Operations.* Render every row at start and write it back,
subscribe, handle a row's notification, release the delayed features, enable or disable a
service. *Hard.* The window between the first reading and the subscription; the write-back
races with the operator; a command fails half way, or unnoticed; three triggers release delayed features.
*Correct when.* The cache follows the rows and STATE_DB follows the cache; delayed features are
not started early and are started eventually; the daemon's own write-backs do not keep it busy.

### console-monitor (`scripts/console-monitor`, 1503 lines)

*State.* The DCE service: `active_links`, `_config_cache`, and per link two units of systemd, a pty
bridge and a proxy. A proxy: frame filter buffer and escape state, two file descriptors, heartbeat
timer, the STATE_DB row of its line. The DTE service, on the device at the other end: whether it is
enabled, a heartbeat thread and the event that stops it. *Operations.* `_sync` (1016-1054) compares
the rows with the links at every notification and stops, starts or restarts links by `systemctl`; a
proxy reads its row (630-647), waits for its device, passes bytes, takes frames out of them, and
writes "Up" or "Unknown" as it hears heartbeats or not; the DTE service starts and stops its thread
as CONSOLE_SWITCH says. *Hard.* Rows that change while links are worked on, calls that fail in the
middle of a link, a proxy that reads its row between two changes; user data and frames on one byte
stream; heartbeats against their timeout, data in between, a thread that is not waited for to its
end, a signal to stop that comes before `run` sets `running` (593). *Correct when.* The links that
run are those of the rows, with their baud rates; a proxy has its bridge; what is configured comes
up; every user byte passes and no frame leaks but after a disturbance; the row tells what was heard;
heartbeats are sent as the switch says.

### D-Bus host service (`scripts/sonic-host-server`, `host_modules/*`)

One process, one D-Bus main loop that runs one method at a time, a module per service. Those with
state or a protocol:

| module | state | what is hard |
|---|---|---|
| `reboot` | see above | see above |
| `debug_service` | a pool of one thread, a cancellation event per command, pty and pipe | the event is looked at only when the command writes (59): a silent command that timed out keeps the thread; descriptors on every path |
| `ssh_mgmt` | three files and a directory with their copies | a copy that fails while the others go on; a checkpoint found again after a crash; a restore that removes the checkpoint although it failed (171-182) |
| `gnsi_console` | `/etc/shadow`, its copy, a temporary file | torn copies; other programs that change passwords; lines found by the beginning of a name (92) |
| `glome` | a configuration and its backup | the backup is made before the request is parsed; both are written in place |
| `debug_info` | archives and directories in `/tmp/dump`, one archive on persistent storage, a flag | commands that outlive their timeout; storing once in a boot |
| `image_service`, `file_service` (downloads) | the files they make | partial and temporary files |
| `gnoi_reset` | `is_reset_ongoing` | every request is answered as unsupported before it reaches the reboot (`_parse_arguments` always returns 0) |
| `docker_service`, `gcu`, `config_engine`, `systemd_service`, `showtech` | none between calls | one command or library call and its status |

*Correct when.* One debug command at a time runs, is heard no longer than its call, and holds the
pool only by silence; checkpoints that were announced are faithful and restores restore them; no
file is torn, left behind or replaced but where a failure is to blame.

### hostcfgd (`scripts/hostcfgd`, 2542 lines, `scripts/ldap.py`)

*State.* One cache per handler (AAA, passwords, SSH, NTP, kdump, management interface and VRF,
device metadata, syslog, DNS, FIPS, memory statistics, ...). *Operations.* `load` (2221-2280),
registration (2459-2528), a handler per table: compare with the cache, render files, restart
services. *Hard.* Single-threaded, but the services read their rows themselves, when they boot or
are restarted, which is another time than the daemon's; caches are written before the command that
may raise (hostname, 1525), after it, or never (the syslog flag, 1595), and one is filled from the
wrong place (the VRF, 1620); chrony is stopped while the interfaces restart; what changes while the
daemon is down is taken for applied. *Correct when.* Between two notifications each service is made
of the row, or hostcfgd is known to differ from it and why.

### aaastatsd, procdockerstatsd, utilities

aaastatsd copies RADIUS statistics files into COUNTERS_DB from a configuration thread, a thread
for "clear" and a file watcher, without a lock. procdockerstatsd (in Python and in Rust) is a
sequential loop of parsing and writing. `utils/` wraps library calls.

### How they interact

| from | to | through |
|---|---|---|
| operator | caclmgrd, featured, hostcfgd, gnoi-shutdown, console-monitor | CONFIG_DB rows and notifications |
| featured | caclmgrd | FEATURE rows (redfish), as any writer of CONFIG_DB |
| gnoi-shutdown-daemon (switch) | reboot service (DPU) | gNOI Reboot and RebootStatus, D-Bus behind it |
| reboot commands, kdump, chassisd | reboot cause | `reboot-cause.txt` |
| platform | gnoi-shutdown-daemon | `gnoi_halt_in_progress`, operational status |
| caclmgrd handlers | caclmgrd updates | attributes and the INPUT chain, no lock |
| DCE service | serial proxies, pty bridges | `systemctl`; the proxies read CONFIG_DB themselves |
| telemetry (gNSI, gNOI) | D-Bus services | one method call at a time |
| daemons | systemd | `systemctl`, `Restart=` of the unit files in `data/debian` |

## 2. Modules

| module | models | state and actions |
|---|---|---|
| `AclSync` | what caclmgrd promises of one namespace | the view CONFIG_DB asks for, what iptables holds, whether an update is owed; `Change`, `Owe`, `Program`, `Settle`, and `Lose` for a programming that fails in part and is not repeated |
| `CaclUpdate` | caclmgrd's debounced updates | one action per step of the main thread between two places where another actor can act (`Boot*`, `Main*`), of an update thread (`Worker*`), of the operator, and of systemd (`Restart`); `BootInstallFails` and `WorkerInstallFails` are programmings one of whose commands fails |
| `AclRules` | caclmgrd's translation of ACL rules | `StartAcls` reads the rows, `NextTable`, `ReadRule`, `AddRule` and `NextService` are the nested loops, `EndAcls` the end of an update; `SetAclRule` the operator, `AclRestart` a new daemon |
| `CaclChain` | caclmgrd's BFD, VXLAN and DASH-HA rules | handlers pop a notification and queue their commands and assignments, `MainStep` does one; `Read*`, `VxlanCommand`, `DashDone`, `RunCommand` are the update thread; `MainStepFails` and `RunCommandFails` are commands that fail |
| `DhcpChain` | caclmgrd's DHCP chain | `SelectReady`, `PopMark`, `MarksDone`, `PopMux`, `MuxesDone` drain the notifications of one select; `DhcpCommand` and `DhcpCommandFails` are the handlers' calls of iptables, `SetMark` and `SetMux` the tables, `DhcpRestart` a new daemon |
| `Reboot` | `reboot.py` and the device it reboots | `Call` ... `SpawnFails` are `issue_reboot`, `RunCommand` ... `LastPmon` are `execute_reboot`, `PmonStops`, `HaltCmdEnds`, `DeviceReboots` the device |
| `RebootCause` | determine- and process-reboot-cause | one action per file that is written, removed or linked, `Boot` at any of them, `WriteCause` for whoever leaves a cause |
| `GnoiShutdown` | `gnoi_shutdown_daemon.py` | `Receive` ... `Spawn` the main loop, `ReadFails` its reading that raises, `CheckOper` ... `EndHandler` a handler thread, `SetAdmin`, `Detach`, `Power` operator and platform, `Crash` |
| `Featured` | `scripts/featured` | `Snapshot` ... `RegisterCallbacks` the start, `Deregister`, `NothingNew`, `Change`, `PortListener`, `PortTimeout` the loop, `Skip`, `Run`, `EnableFails`, `RunFails`, `Resync*` what a job does |
| `ConsoleLinks` | the DCE service of console-monitor | `TakeNote`, `Check*`, `Read*` and `Visit*` are `_sync`, `StopProxy` ... `StartProxyFails` one link's calls of `systemctl`, `ProxyReads` a proxy, `Change` the operator, `Killed`, `Stopped`, `Restart` the end of the service and the next one |
| `ConsoleFrames` | `FrameFilter` and the DTE service's frames on one line | `Type` and `SendHeartbeat`, `FrameByte` put bytes on the line, `FrameLost` takes some away, `Process` is the filter, `Timeout` its timer, `Replaced` a new proxy |
| `ConsoleHeartbeats` | the DTE service, and a proxy's heartbeats and row | `Enable`, `Disable`, `ThreadEnds`, `Joined`, `JoinGivenUp`, `DteRestarts` at one end; `Heartbeat` and `Data` arrive, `Check` is the timeout, `Runs` ... `Ends`, `ProxyKilled`, `ProxyStarted` a proxy's life; `Tick` is five seconds |
| `HostCfg` | hostcfgd's handlers that compare with a cache | `Subscribe`, `Load`, `Notified`, `Handled` the daemon, `Skip`, `RestartKept`, `RestartBlindly`, `SetTimezone` the handlers by what they remember, `StopChrony`, `RestartInterfaces`, `StartChrony` the management VRF, `Boots` the services, `Ends` |
| `DebugExecutor` | `debug_service.py` | `RunCommand` and the three `Answer*` are the D-Bus thread, `Take` ... `WaitOver` the pool's thread, `Write`, `CloseEnd`, `Exit` the command |
| `SshMgmt` | `ssh_mgmt.py` | a method's checks (`Create`, `Restore`, `Set`, `Delete`, `Refuse`), then one action per file, `*Fails`, `*Done`; `Crash`; `Lose` for files that vanish |
| `GnsiConsole` | `gnsi_console.py` | likewise; a set reads, then writes, fills and moves the temporary file; `Passwd` is any other program |
| `Glome` | `glome.py` | `Push` ... `WriteFails` are `push_config` step by step, `Restore*` |
| `DebugInfo` | `debug_info.py` | `Collect`, `Command`, `Tar`, `Tidy` and the storing (`SetFlag` ... `CopyFails`), `Ack`, `StrayEnds` for commands that outlived their timeout, `Crash`, `Boot` |
| `FileTransfer` | the downloads and `remove` | `Image*` and `File*`, `Remove`, `Other` for the directories' other users |
| `CaclUpdateProofs`, `CaclChainProofs`, `GnoiShutdownProofs` | | theorems about the module each is named after; the first has the refinement of `AclSync` |
| `CaclRulesProofs` | | theorems about `DhcpChain`, `AclRules` and their composition `MCCaclRules` |
| `RebootProofs` | | theorems about `Reboot` and `RebootCause` |
| `ConsoleProofs` | | theorems about `ConsoleLinks`, `ConsoleFrames` and `ConsoleHeartbeats`, the last two in the composition `MCConsoleLinks` |
| `HostServerProofs` | | theorems about the six services of the host server, and about `MCHostServer` |
| `FeaturedProofs` | | theorems about `Featured` and `HostCfg` |
| `MC*` | | the small instances for TLC |

`CaclUpdate` and `AclSync` are composed by refinement: `HostSync == INSTANCE AclSync WITH ...`
maps the host namespace, and `ImplementsAclSync` is checked by TLC and, for a device with one
namespace, proved (`SyncImplemented`). `CaclChain` takes from
`CaclUpdate` that a namespace has one update at a time (proved: `SingleUpdaterHolds`), so it has
one update thread.

`MCCaclRules`, `MCReboot`, `MCConsoleLinks`, `MCFeatured` and `MCHostServer` put components side by
side that share nothing: the INPUT and the DHCP chain, and the translation of ACL rules; the reboot
service, which starts anew with
the device, and the programs that account for the reboot afterwards; the DCE service's links, the
bytes of one line, and its heartbeats; featured and hostcfgd, which follow different tables, and of
hostcfgd three groups of items with no service in common; the six services of the host server with
files and variables of their own. Steps of two such components commute and no property speaks of
both, so that a behaviour of all of them is one of each. The instances therefore pick one component
at the start (`subject`, `about`, `part`, `service`) and let the others rest: the states add up
instead of multiplying, and nothing that a property could see is lost. The D-Bus loop runs one
method of one service at a time anyway; what runs beside it, the command of `DebugExecutor`, touches
no other service's state.

Variables named *history* in the modules (`seenT`, `seenR`, `missed`, `raced`, `gen`, `served`,
`excused`, `late`, `uncleared`, `tried`, `blind`, `orphaned`, `failed`, `spoilt`, `crossed`,
`unread`, `announced`, `original`, `masked`, `lastCause`, `overtaken`, `whole`, `broken`, `doubt`,
`leaked`, `excess`, `quiet`, `silent`, `stale`, `misread`, `astray`, `cmdFailed`, `addrs`, `unfiled`
and the like) are read by
properties and by no guard: they record what the program does not, so that a property can name its
exception instead of being weakened everywhere.

### Abstractions

- *CaclUpdate.* The rules of one ACL table are one value. What is kept is what decides whether
  an update is right: which table is control plane, which serves REDFISH, which rule set was
  read. What the rules of a table become is `AclRules`. Not in the model: NAT and midplane rules.
  The commands of a programming are one step. It installs the plan; or raises; or some command
  exits nonzero, which `run_commands` logs and no more (235-247): then iptables holds the rules of
  before, neither (`Broken`) or, when the command was of no consequence, the new ones, and counter
  and thread are reset as if all was well (1006-1009). A SIGKILL cuts the commands of the threads
  at work anywhere.
  The select loop returns one namespace at a time, as in the code, and handles FEATURE rows in
  the host namespace. A rule is only added to an existing table and a table deleted only without
  rules, which is the leafref of SONiC's YANG model.
- *AclRules.* An update reads all rows at once (747-748), so that rows change, and the daemon is
  started again, between translations only: what comes earlier is as if before `StartAcls`, and what
  comes later the translation does not see. What may come between its readings is in `CaclUpdate`.
  The options of iptables are left out: a rule's action is its identity, its ports a
  set, its addresses their IP version; a rule has addresses of one version only. A priority is the
  sequence of its digits. The final DROP of the chain is left out. Every rule has PRIORITY and
  PACKET_ACTION: the skipping of those without (797-800, 851) is left out.
- *CaclChain.* A chain is a count per rule; the order of rules is left out, except that an
  insertion at position 2 fails while the chain has no first rule (an update has just flushed).
  A lookup by IP version is left out: each rule is one rule, and a command that fails for iptables
  or for ip6tables alone counts as one that fails for both. Any command may fail, of a handler, of an
  update or of the first programming; what the daemon remembers is assigned all the same. The number
  of failures is bounded by `MaxChainFaults` and, so that the two do not multiply, by the changes of
  the databases, of which a failure takes one. The source address of a tunnel may change in place.
- *DhcpChain.* One namespace; the marks of two interfaces differ; a row of DHCP_PACKET_MARK
  carries a mark. One select reads all waiting notifications of both tables. A notification is
  handled with what the row holds when it is read, so a row that vanished in between is an entry
  that reads as vanished. Any command may fail, because an update may hold the xtables lock; a
  restart empties the chain, as the start of the code does.
- *Reboot.* The methods COLD, WARM and HALT stand for those with a command, times are left to
  the interleaving. `get_reboot_status` changes nothing. `when` and `reason` are not modelled.
- *RebootCause.* The number of a boot stands for the time in the names of its files. Of the
  kernel's command line, warm and express boots are treated as fast ones. What was written survives
  a power cut unless it was being written. Left out: the directories of DPUs and CHASSIS_STATE_DB,
  the parsing of a cause into user and time, a clock that steps back.
- *GnoiShutdown.* DPU and platform are external: the RPCs succeed or fail as they like. A
  keyspace notification carries no value, the daemon reads the row. A reading that raises what the loop
  catches (365-367) drops the notification; what it does not catch ends the daemon (`Crash`).
- *Featured.* One state per feature and one service; left out are scope fields, per-ASIC
  instances and databases, the auto-restart drop-in file, the exclusion list and the write-back of
  the `delayed` field. A unit file is enabled or disabled (or masked, which the code treats alike); that
  systemd does not know the unit (`invalid`) is left out. "enable" is run without
  raising for every unit (501-513), generated or not: it may fail unnoticed (`EnableFails`). Of the
  commands that raise, a job fails at one of them, some of them done.
- *ConsoleLinks.* A unit of systemd runs or does not; the baud rate stands for the whole row. A
  proxy is modelled up to the point where it has its configuration; what it does then is
  `ConsoleFrames` and `ConsoleHeartbeats`.
- *ConsoleFrames.* A character is SOF, EOF, DLE or any other. The checksum tells a frame's content
  from everything else: what is between SOF and EOF is a frame when it is one of `Bodies`, which are
  escaped as the code does it; crc16 and the fields of a frame are left out. Bytes carry their origin
  for the properties. A buffer of six characters stands for the code's 64.
- *ConsoleHeartbeats.* A heartbeat arrives whole or not at all; time passes in ticks of five
  seconds, three of which are the timeout. That a signal is missed (`deaf`) ends with
  systemd's SIGKILL.
- *HostCfg.* A row, or the fields that are handled together, is one value, and a service is made of
  the values its rows had when it last started: the services are external and read CONFIG_DB
  themselves. A failing command may have had its effect or not. Left out, because their files are
  written from the row of the notification and nothing is compared: AAA, PAM, passwords, ssh, kdump;
  also FIPS, memory statistics and the loopback interfaces.
- *DebugExecutor.* Output is "there is something to read" for each of the two ends. Outputs that
  are heard too late are counted up to three (`MaxLate`); the property says two at most. Not in the
  model: the pipe's object `p.stderr` closes its descriptor, which was closed by number (89), a second
  time when it is collected; nobody looks at the error, and the number may be another file's by then.
- *SshMgmt, GnsiConsole, Glome.* A file is one value, the password file one line per account.
  Copies of `GnsiConsole` and `Glome` may be torn (`Torn`); `SshMgmt` replaces its files by a copy
  to a temporary file and a move, or fails.
- *DebugInfo.* Which command collects what is left out; a command of the collection may end, fail
  or outlive its timeout (`stray`); tar ends, fails or is killed at its timeout, which the code takes
  for a failure (341-344).
- *FileTransfer.* The HTTP libraries are external and report a body that ends early as an error.
  Between the check that a file is not there (`file_service.py` 67) and its opening (99) another user
  of the directory may make it, and the download overwrites it: that is a behaviour of the model, but
  no property speaks of it.

## 3. Runs

All runs use two TLC workers. The longest take two and a half minutes, the others less than one.

| run | states | bounds | what it shows |
|---|---|---|---|
| `cacl_update` | 546 044 | one namespace, one table for REDFISH, two rule sets, two thread identities, three changes, one exception or failing command | no change is lost by the debouncing, wherever an exception strikes; one update at a time; caclmgrd implements `AclSync`; iptables settles on CONFIG_DB, unless a command failed unnoticed; an exception restarts the daemon |
| `cacl_multi` (violation) | | two namespaces, one change | an update can program the rows of another namespace |
| `cacl_chain` | 3 523 751 | two tunnel addresses, two DPUs, two ports, two changes, of which one may be a failing command, two updates; two interfaces, one mark, two changes, one failure; three ACL rules in two tables, two changes; symmetry in addresses, DPUs and ports | without an overlap or a failing command the chain follows attributes and databases, and the update after either repairs it; the DHCP chain follows its two tables; ACL rules become what their rows say, in whatever order they are read |
| `cacl_bfd` (violation) | | one DPU | an overlap loses the BFD rule for good |
| `reboot` | 214 100 | two threads, three requests, two failures; three boots, two history files | one reboot at a time, success means a halt seen, a request comes to an outcome; the cause of a reboot is filed once the device is up again, wherever it goes down |
| `gnoi` | 196 098 | two DPUs, two threads, three changes, one fault | one handler per DPU, no "down" lost, no flag left, handlers end, with the exceptions named |
| `featured` | 1 217 564 | one feature that is delayed, three changes, two faults; hostcfgd: ten items in three groups, two values, three changes, one fault | cache, rows and STATE_DB agree between notifications; delayed features wait; the daemon comes to rest; what hostcfgd restarts is made of its rows |
| `featured_start` (violation) | | two changes, one fault | a failed service is reported enabled and not started |
| `console_links` | 2 189 019 | two lines, two baud rates, three changes, one fault; two frames, eight bytes, two disturbances; a timeout of three ticks, two wishes, two faults | the links that run are those of the rows, and what is configured comes up; frames and the user's bytes are told apart; the row of a line tells what was heard of it, and the switch is obeyed |
| `dbus_services` | 574 774 | two of every kind, four calls of each service with a checkpoint, three downloads, one or two faults | the properties of the six services of the host server |
| `debug_timeout` (violation) | | two commands, no fault | a command that was reported as timed out runs on |
| `console_accounts` (violation) | | two accounts of which one's name begins with the other's, two calls | setting one password takes an account away |

*Why the bounds are enough.* Three changes allow one during the first reading, one during the sleep
of an update and one during its readings; or down, up, down again of a DPU; or, for a console line,
a change before, during and after the reading of the rows. A second fault after a first adds nothing
in `cacl_update`, because the first ends in a restart or is repaired by the next programming;
`reboot` and `featured` need two (a thread that does not start and a blind look; a failed service
and a failed command). A second thread identity is there to be misused: the properties say it is
not. Features do not interact except through the order in which one loop handles them, DPUs and
console lines only through their main loop and its sets, which is why there are two of them. Two
frames are one that is torn and one that comes after it; eight bytes fill the buffer and overflow
it, with SOF and EOF bytes of a frame inside it or without. A timeout of three ticks is passed with
a heartbeat, with data only and with nothing; two wishes are a switch, or a proxy, that goes off and
on again. A row of hostcfgd's that goes to another value and back needs two changes, which leaves a
third in between or after. Two of the four calls of a checkpointed service are a checkpoint and a
restore, which leaves two for what comes between. One mark is enough for `DhcpChain`: an interface
has it, or loses it, or gets it back, and the deletion of a rule under an earlier mark happens with
`NoMark`. Three boots are one that leaves a cause, one that goes down while it is filed and one that
finishes. The bounds of `cacl_chain` are those at which it still ends in time; they give each
handler an overlap with two updates, and a failing command a change or an update after it. It starts
with any rows but all four at once, one of which is therefore still to come, and with none that
lacks its field, which takes a change. Its three ACL rules are two of one table, which may share a
priority, differ in version or in ports, or have the priorities 10 and 9, whose order as strings is
the wrong one, and one that leaves its ports to another table; they start as any rules, so that a
change gives every update another before it, and two a third.

*Type invariants* are in the runs `cacl_chain` (of `AclRules`), `featured` and `dbus_services`. They
are proved for every instance (section 4), and those of the other modules with them. `ProxyHasBridge`,
`SetReported`, `LateOutputBounded` and `DescriptorsReturned` are
proved, too, and no run repeats them.

*Deadlock* is checked in `cacl_update` and `cacl_multi`, where the daemon always goes round its
loop. The other systems may rest when the bounded environment has nothing left to do
(`CHECK_DEADLOCK FALSE`).

### Properties

The exceptions are the code's own; each is a history variable or a condition with its line in the
module's comment.

- `NoLostChange` (`CaclUpdate`): whenever the rows read by the last update differ from CONFIG_DB,
  somebody still owes a reading: a waiting notification, `todo`, a thread before that reading, a
  recorded exception, or a dead daemon. The exception is a table whose row vanishes between the
  first reading and the subscription, of which nothing is replayed (`missed`).
- `InstalledFromOwnRows`, `ImplementsAclSync`, `Converges`, `ExceptionRestarts`: what is
  programmed comes from the namespace's own rows; the debt is cleared only by holding what
  CONFIG_DB asks for; it is cleared eventually; an exception leads to a new start. Excepted, until the
  next programming, is one of whose commands one exited nonzero (`failed`): it is logged and not
  tried again, and nothing is owed. `AclSync` has an action for it (`Lose`), and for rows that vanished
  before the subscription.
- `ChainFollowsAttributes`, `ChainFollowsDatabases` (`CaclChain`): no stale and no duplicate rule.
  Excepted are an overlap of a handler with an update (`raced`) and a command that failed since the
  latest update began (`cmdFailed`). Of a tunnel whose address is changed in place, the chain may let
  in any address it has had since it was created (`addrs`), because a SET is ignored while
  `VxlanAllowed` is true (1320).
- `DropsFollowTables` (`DhcpChain`): once all notifications are handled, an interface in standby
  has one DROP rule and an active one none, none is left under an earlier mark. Excepted are
  interfaces one of whose commands failed: the code does not try again.
- `RulesFollowRows` (`AclRules`): after an update each service of a table has the table's rules, of
  one IP version and with one set of ports, in descending order of priority, whatever the order of
  the dictionaries and whatever earlier updates left in `dst_ports`. Excepted: of two rules with one
  priority one is left, or none, as the later replaces the earlier even when it is thrown out for its
  version (797, 827); a table of both versions is taken for either (805); of different ports those of
  one rule count (813); a table without ports gets those that another table's rules named, now or in
  an earlier update (814); 10 comes after 9 (848).
- `OneReboot`, `SuccessMeansHalted`, `RebootConcludes` (`Reboot`). The last excepts a request whose
  thread could not be started (`orphaned`): its flag stays up (235-243) and all later requests are
  refused until the process restarts.
- `RebootCauseKept` (`RebootCause`) has three parts. `LinkNamesFile`: the link names a whole file,
  or there is none (it is removed before the new one is made). `CauseNotLost`: a cause stays in
  `reboot-cause.txt` until it is filed, unless it was written during the reset. `FiledAsDocumented`:
  what was filed is what the comment at determine-reboot-cause 187-201 says, unless the file held
  "Unknown" or nothing, which counts as a known cause and displaces the command line's, because
  `is not` compares identities (207, 212). A cut after the filing and before the reset files a cause
  twice; the property allows it.
- `OneHandlerPerDpu`, `NoDownLost`, `FlagNotLeft`, `HandlerEnds` (`GnoiShutdown`). A
  notification that comes while a handler runs is dropped, one that comes while the daemon is
  down is never seen, and one whose reading of `admin_status` raises is logged and gone (365-367; all
  three are `excused`); a handler may raise before it clears the flag (`uncleared`), for instance by
  `int(None)` of an unexpected value in platform.json (39-56).
- `CacheFollowsRows`, `StateFollowsCache`, `DelayedNotBefore`, `FeaturedSettles` (`Featured`). A
  service that was started with a failing "enable" (`unfiled`) runs on when the feature is disabled,
  and STATE_DB says "disabled": its unit file says so already (534, 556).
- `ServicesFollowRows` (`HostCfg`): between two notifications each service is made of its row.
  Excepted are rows that changed between the service's reading and the daemon's, services for which a
  command failed and which hostcfgd takes for restarted (`astray` has both), removed rows that the
  handlers ignore, and a syslog flag that returns to what it was at the start.
- `FramesApart`, `HeartbeatsHeard` (`ConsoleFrames`): while the stream is undisturbed no byte of the
  user is lost and none of a frame shown; a heartbeat in one piece is heard whatever came before it.
  A disturbance is a byte lost, a SOF or EOF typed by the user (which discards what is pending), a
  byte of the user inside a frame, a timeout in the middle of one. It costs one buffer, and what
  `excess` counts: a DLE is stored without a look at the size (312).
- `RowTellsOfLine`, `SwitchShows` (`ConsoleHeartbeats`; in the run, of the behaviours about the line,
  `SwitchShowsOnLine`): "Up" was heard within two timeouts, "Unknown"
  means no heartbeat within one; in the end heartbeats are sent as the switch says and the row shows
  it. Excepted are failed writes of the row, never repeated (834), a proxy that was killed, a failed
  reading of the switch (1301), and a serial device that went away and is not opened again (780).
- `LinksFollowRows`, `ProxyHasBridge`, `LinksComeUp` (`ConsoleLinks`). Excepted are a reading that
  failed (`unread`, until the next notification), lines for which a call of `systemctl` failed or
  that an earlier service left (`spoilt`), and a proxy that read its row between two changes which
  the service saw as none (`crossed`).
- `OneCommandAtATime`, `HeldOnlyBySilence`, and the proved `LateOutputBounded` and
  `DescriptorsReturned` (`DebugExecutor`). Two outputs at most are heard after the timeout, one of each
  end. The
  descriptors of a command that could not be started are lost (34-40). The pool is kept for ever by
  nothing but a command that neither writes nor closes anything.
- `CheckpointFaithful`, `RestoreRestores`, `SetReported` (`SshMgmt`). Set overwrites the code of a
  failed copy by that of the next (`masked`).
- `FilesWhole` (`ShadowWhole` of `GnsiConsole` and `OneFileWhole` of `Glome`), `SetKeepsOthers`
  (`GnsiConsole`), `RestoreUndoesPush` (`Glome`).
  A checkpoint whose making failed is left behind and looks like any other; a torn configuration is
  backed up over a good backup; another program's change between a set's reading and its move is
  overwritten.
- `LeftoversAccounted` (`ArtifactsAccounted` of `DebugInfo` and `LeftoversAccounted` of
  `FileTransfer`), `StoredKept` (`DebugInfo`): partial files come from the file service's failed
  downloads only, temporary ones from the image service's. `StoredKept` is about the artifacts stored
  in this boot: those of an earlier boot are removed (183) before it is known that there is room for
  new ones.

### Fairness

Each thread takes its next step if it stays able to (weak fairness of the main loop, of each
update, handler or reboot thread): the operating system schedules them and every wait in the code
has a timeout or a sleep. `Restart` of caclmgrd is fair because its unit says `Restart=always`.
`PollOver` is strongly fair: the loop of `execute_reboot` counts the time that passes, also while
the other looks keep interrupting it. In `DebugExecutor` the pool's thread and the end of
RunCommand's waiting are fair, and nothing is assumed of the commands: they may be silent for ever,
which is what `HeldOnlyBySilence` is about. In `ConsoleLinks` the service is fair (systemd restarts
it, its calls of `systemctl` end after thirty seconds) and so is a proxy's look for its row, which
it repeats every three seconds. In `ConsoleHeartbeats` both services take their steps, a thread
sends when it is due, and time passes. Nothing is assumed of the operator, of faults or of the
device, and nobody has to start featured again (its unit has no `Restart=`), which is why
`FeaturedSettles` allows for a daemon that is dead again and again.

## 4. Proofs

TLAPS proves the following for every value of the constants: any namespaces, tables, threads, DPUs,
lines, timeouts, commands or file contents, and any number of changes, requests, boots and failures.
The assumptions are those the modules name: special values differ from the ordinary ones, bounds are
natural numbers, and a prefix of an account's prefix is a prefix of the account's name. Of the ACL
tables (`AclAssumption`): there are finitely many rules, a priority is a sequence of digits, a table
lists a service once (a leaf-list of CONFIG_DB, in which a value occurs once), and every service but
EXTERNAL_CLIENT has ports (caclmgrd 95-125). Of the heartbeats (`ConsoleAssumption`): their contents
are escaped, shorter than the buffer, contain an escaped SOF or EOF, and none is a part of another.
`Frame.build` (console-monitor 213-229) justifies it: a heartbeat always has seven bytes before
escaping, among them two zeros, and zero is EOF, so that at most 14 of 64 are used; the first byte
is the version, which is not special, so that a content inside another would have to start on one of
its bytes and leave fewer than seven. There are at least two SOFs: with one, a frame after a stray
DLE would be missed, as the mutant `SendShort` shows.

- `CaclUpdateProofs`. *TypeCorrect.* *ControlInvariant*: `Control`, the inductive invariant of
  caclmgrd's synchronisation. `TypeOK` is not enough to be inductive, and neither is
  `SingleUpdater`: that a second thread is not spawned follows from `update_thread` naming the live
  thread (`ThreadInv`); that an update is not disturbed follows from who holds the lock (`LockInv`);
  that the clean-up after an exception, which takes no lock, is harmless follows from the record
  made before it (`RecordInv`) and from the counter of a namespace with a live thread being positive
  (`CountInv`); `TodoInv` says when notifications wait between draining and spawning. One lemma per
  part, one step per action. *SingleUpdaterHolds* follows from `ThreadInv`. *NoChangeLost*:
  `NoLostChange` is inductive relative to `Control`. The debt moves from the notification to `todo`,
  to the thread, to `exc`; lemma `OwedSuffices` handles the steps that only move it, and the two
  readings are the only steps that clear it. *SyncImplemented*: with one namespace every behaviour
  of caclmgrd is one of `AclSync`. It has to be one, because the rows pass through attributes that
  all namespaces share: finding 1 is the counterexample for two. `HostInv` follows the rows from
  their reading into iptables: nobody else reads during the start (`BootInv`); the daemon knows the
  switch of the feature or is about to be told (`FeatInv`); the attributes hold what this update
  read until it translates them (`ReadInv`); what it is about to program (`PlanInv`) and has
  programmed (`HeldInv`) are those rows, unless another update follows. A failing command (`failed`)
  leaves the claims on iptables void until the next programming. Together with *NoChangeLost* this
  gives `SyncInv`, which says in the terms of `AclSync` that iptables holds what CONFIG_DB asks for
  when nothing is owed and nothing `lost`. Each step then maps: the operator's to `Change`
  (`OperatorApart`, `ChangeOwes`), one that programs, owes or settles to `Program`, `Owe` or
  `Settle`, a failing command to `Lose`, all others to a stutter. *OwnRowsInstalled* falls out of
  `HeldInv`.
- `CaclChainProofs`. Rules are counted, and so are the commands that are still to come: `Holds` adds
  what the chain has, what the handler in work still inserts and deletes, and what the update still
  adds. `MainInv` says that this is what the attributes ask for, in each of the forms a handler's
  list of steps can have (`Fresh`, `Begun`, `Ahead`); `BuildInv` and `RunInv` say it of the update,
  before and after its commands are run. `ChainFollowsAttributes` is the case in which nothing is
  left to do. `BfdInv`, `DpuInv` and `VxlanInv` relate the attributes to the last notification that
  waits, or to the last assignment that the handler still makes, and give `ChainFollowsDatabases`.
  `AddrInv` keeps `addrs` the addresses of the tunnel there is; `VxlanInv` says that the one allowed
  is among them. After an overlap (`raced = "now"`) or a failing command (`cmdFailed`) nothing but
  the types is claimed, until an update without one begins.
- `CaclRulesProofs`. Of the DHCP chain: `NotesInv` and `MarkInv` relate the rows, the notifications
  and the marks that the daemon knows; `PhaseInv` and `TodoInv` list what is left of a handler's
  commands; `RuleInv` and `MuxInv` say which DROP rule an interface has after those, under which
  mark and in which of its states, if none of its commands failed. *DropsHold* follows when nothing
  is left. Of the ACL rules (`AclIInv`): `WalkInv` says where an update is; `PastInv` that a service
  it is done with follows its table (`Finished`) and that one still to come has nothing; `FoundInv`
  that the version and the ports found come from rules that have been read, or, with a service after
  the first, that no rule of the table has a version; `MadeInv` that the rules read for the service
  at work are in `acl_rules` or in iptables, but for those that another of their priority or version
  has put out, and that none left is above one that was made. `ServiceDone` draws the conclusion at
  the end of a service, and `NamedInv` (what `dst_ports` can be) decides a table without ports of
  its own. What is sorted as strings is sorted as numbers when the lengths agree (`NumberOrder`):
  `Number` is a recursive function, unfolded by induction over the digits. The library's induction
  theorems cannot be instantiated here, but its theorem about well-founded relations can, and gives
  induction for sets of naturals (`Least`, `SetInduction`). `Parts` takes the three behaviours of
  `MCCaclRules` apart; *RulesTypeCorrect* joins their types.
- `RebootProofs`. Of the service: `RebootIInv == TypeOK /\ CallInv /\ OneReboot /\ HaltPolls /\
  SuccessMeansHalted`. `OneReboot` needs `CallInv`: while `issue_reboot` is past its check no thread
  lives, although the check and the write are separate steps, because the D-Bus loop runs one method
  at a time. `SuccessMeansHalted` needs `HaltPolls`: only a halt gets to the polling.
  Of the cause: what may be lost depends on the step at which the device went down, and so
  does the invariant `CauseIInv`: `NewestFile` (only the last file can be of this boot, and it is whole
  once written), `LinkInv` (the link names a whole file, from its making on this boot's), `ResetInv`
  (from the filing to the reset, a cause that is not filed came too late), `DecidedInv` (what was
  decided and filed is as documented), `PublishInv`. `PruneLeaves` and `WriteLeaves` say what
  pruning and writing do to the sequence of files. *CauseKept* is the conjunction.
- `GnoiShutdownProofs`. `IInv == TypeOK /\ OneHandlerPerDpu /\ SpawnInv /\ GenInv` is inductive;
  `SpawnInv` says that the DPU about to get a handler has none. `FullInv` adds `CurrentInv` (what
  the main loop has read is the latest "down", or a notification waits), `NoDownLost` and `FlagInv`,
  which is `FlagNotLeft` with the handlers that may still take the flag down (`Unattended`).
- `FeaturedProofs`. Of featured: `EventInv` (the last notification of a row says whether the row is
  there), `JobInv` (whose job is under way), `CacheInv` (with no notification waiting, cache and row
  agree, or the job in hand is about to make them agree, or to write back), `ShownInv` (STATE_DB shows
  what the cache asks for, but of features that wait or are still to be visited) and `UnitInv`. The
  cache is written after the commands in one place and before them in another, which is why the job
  in hand has to be in the invariant. *DelayedWait*, about steps, needs of `JobInv` that the jobs of
  delayed features come after the release. Of hostcfgd: `ReadInv` (what was read is the row, or a
  notification waits), `KeptInv` (what a handler remembers is what the service was made of), and
  `SuitInv`, which says `ServicesFollowRows` of each item that neither waits nor is being worked on;
  the interface and the VRF are excepted midway through `update_mgmt_vrf` (`Busy`), when their
  services have been restarted in part. *ConfigTypeCorrect* joins both.
- `ConsoleProofs`. Of the links: `PlanInv` and `WorkInv` tie the sets of lines still to be visited to
  those that are known and to the line in work; `UnitsInv` says what runs for each line at each step of
  the work (`Steady` for those not in work) and gives `ProxyHasBridge`; `TargetInv` says that, with
  no notification waiting, the plan leads to what the rows ask for (`Settled`), and gives
  `LinksFollowRows`.
  Of a line: `RowTellsOfLine` is about the ages of what was heard, of which the proxy
  has only its two timers. `AgeInv` ties them together: the line has been without heartbeats at least
  as long as the timer says; while the row says "Up", the line was quiet for less than the timer and
  one more timeout, because a grant for data needs fresh data, and then the timer of data is the age
  of the last thing heard.
  Of the stream of a line (`StreamInv`): what the filter holds is well formed (`FilterInv`), and while
  a frame is sent of which `j` characters are, `At(b, j)` says where the filter is in it. `Aligned`: as
  long as the frame is undisturbed, the filter is between the SOFs, or holds exactly the part of the
  content that was sent (and waits for an escaped character where the content has one), or is done
  with it. `HeardAt` settles how often a frame can be heard: after a disturbance either one
  disturbance is left to pay for one more frame, or the frame is `Hopeless`, because the filter
  follows only what is behind an SOF or EOF of its content. `LossAt` keeps the balance of the console's
  characters lost against what disturbances pay for: a filter in step has `SmallLoss`, one that took
  the frame for something else `LargeLoss`, with a buffer in reserve. *FramesHoldApart*, about steps,
  needs `Undoubted` on top: without a disturbance nothing of a frame lies where the user may see it.
  A parsed content is compared with the frame being sent, not counted through: whether the filter's
  buffer is one of `Bodies` follows from the window of the content it is, so that no induction over
  the buffer is needed. *StreamPart* takes the line's stream out of the composed behaviour.
- `HostServerProofs`. Of the executor: `ThreadInv` (only the command the thread works on lives),
  `QueueInv` (a call waits once), `AnswerInv` (answers say what the future said) and
  `DescriptorsReturned` are inductive together (`DebugIInv`); `LateInv` bounds what a given-up call can
  still pass on from each step. Of the ssh files (`SshIInv`): `CreateInv`, `RestoreInv` and `SetInv` say
  what holds of the files a method has visited while nothing has failed; with `CallInv` (each file is
  visited once) they give `CheckpointFaithful`, `SetReported` and, as a property of steps,
  `RestoreRestores`.
  Of the accounts (`ConsoleIInv`): what set is about to write differs from the file only in the
  accounts it was asked for and those whose names these begin (`OthersInv`). That this survives one
  account after the other needs the prefixes to be transitive. A torn file comes from a checkpoint
  that was never announced (`LinesInv`, `TornInv`).
  Of GLOME (`GlomeIInv`): while `backed`, the backup is what the last push found (`BackedInv`), which
  gives `RestoreUndoesPush`.
  Of the debug artifacts (`InfoIInv`): an artifact in work is new to the clients and whole once packed
  (`CurrentInv`), its directory is left only by a failure (`WorkdirsInv`), the flag is up from before
  the storing to the end of the boot (`StoredInv`), which gives `StoredKept`. Of the downloads
  (`TransferIInv`): `DownloadInv`, and what a partial or temporary file is due to.
  `HostServices` takes a behaviour of `MCHostServer` apart into one of each service;
  *FilesStayWhole*, *LeftoversHold* and *HostTypeCorrect* join the results again.

*Only model-checked:* all liveness (`Converges`, `ExceptionRestarts`, `RebootConcludes`,
`HandlerEnds`, `FeaturedSettles`, `LinksComeUp`, `SwitchShows`, `HeldOnlyBySilence`), which this prover
does not reach. `ImplementsAclSync` and `InstalledFromOwnRows` are proved for one namespace and
false for two (`cacl_multi`).

## 5. Findings

Each is a run with `expect: violation`; TLC's trace is the scenario.

1. `cacl_multi`: rows read for one namespace pass through attributes shared by the update threads
   of all (`caclmgrd` 747-748); locks are per namespace.
2. `cacl_bfd`: the BFD rule is inserted (1284) before `bfdAllowed` is set (1285) and without the
   lock; an update in between flushes the rule and the flag keeps it from coming back.
3. `featured_start`: `enable_feature` takes `UnitFileState` for the state of the service (486), so
   that a failed service is not started again, against the comment at 208.
4. `debug_timeout`: the event that cancels a command is looked at after a `select` without a timeout
   (`debug_service.py` 59), so that a silent command is not stopped by the timeout, against the
   comment at 129.
5. `console_accounts`: an account's line is found by the beginning of its name (`gnsi_console.py`
   92); setting a password replaces the lines of all accounts whose names begin so, although
   accounts are neither created nor deleted (150).

Other places where the code does less than one may expect are the exceptions listed under
"Properties".

## 6. Plan

Done: `CaclUpdate` (with `AclSync`), `AclRules`, `CaclChain`, `DhcpChain`, `Reboot`, `RebootCause`,
`GnoiShutdown`, `Featured`, `HostCfg`, `ConsoleLinks`, `ConsoleFrames`, `ConsoleHeartbeats`,
`DebugExecutor`, `SshMgmt`, `GnsiConsole`, `Glome`, `DebugInfo`, `FileTransfer`, and the proofs of
section 4. Next, in this order:

1. The rest of hostcfgd: `KdumpCfg` (1163-1270), `AaaCfg`, `FipsCfg`, whose files are rendered from
   what the handlers remember. aaastatsd's three threads.
2. crc16 and escaping (console-monitor 167-201) with their inverse, as operators checked over bounded
   inputs.

`GnoiShutdown` and `Reboot` are not composed: what makes of the DPU's answer to RebootStatus the
"reboot complete" that the daemon looks for is `gnoi_client`, which is not in this repository, so
that the composition would rest on a guess about it.

Theorems worth proving next: the safety properties that the runs check are all proved. What is left
are those of the modules still to come, and of liveness the part that is safety: that each step
which is to happen stays possible until it does, such as `Owed` in `CaclUpdate` leading to a thread
that can read.

## 7. Not modelled, and why

- hostcfgd's tables whose files it renders from the row it was told of, without a comparison: mostly
  templates; planned (above), where several tables go into one file.
- console-monitor's crc16 and the escaping's arithmetic, aaastatsd: planned.
- caclmgrd's options of iptables, NAT and midplane rules: lists of fixed commands.
- D-Bus methods without state between calls (`docker_service`, `gcu`, `config_engine`,
  `systemd_service`, `showtech`, `gnoi_reset`, `image_service`'s installation and listing): one
  command and its answer.
- procdockerstatsd (parsing and I/O) and its Rust version; `utils/` (wrappers of library calls).

`PROJECT.json` lists each part with its status, and the hazards with the properties that cover them.
